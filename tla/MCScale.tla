------------------------------ MODULE MCScale ------------------------------
(***************************************************************************)
(* The scale of every instance: words of four bits, with 8, 16, 32 and 64  *)
(* bits scaled to 1, 2, 3 and 4, and the exclusive or of such words.       *)
(***************************************************************************)
EXTENDS Integers, TLC, FiniteSetsExt

MCModulus == 8 :> 2 @@ 16 :> 4 @@ 32 :> 8 @@ 64 :> 16

MCXorWord(a, b) ==
  FoldSet(LAMBDA i, sum : sum + 2^i * ((a \div 2^i + b \div 2^i) % 2), 0, 0..3)
=============================================================================
