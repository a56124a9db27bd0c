---------------------------- MODULE MCSimplifier ----------------------------
(***************************************************************************)
(* Instances of the simplifier: every operator the lifter emits over every *)
(* 4-bit immediate, two registers at every width and memory operands.      *)
(***************************************************************************)
EXTENDS SimplifierMeaning, MCScale

AtRcx(size) == MemV(size, [RegV("RCX", 64) EXCEPT !.ssa_id = 0], NullValue, 1, 0)
AtRspRax(size) == MemV(size, [RegV("RSP", 64) EXCEPT !.ssa_id = 0],
                       [RegV("RAX", 64) EXCEPT !.ssa_id = 0], 2, 1)

Tagged(r, size) == [RegV(r, 8 * size) EXCEPT !.ssa_id = 0]
Updated(r, size) == [RegV(r, 8 * size) EXCEPT !.ssa_id = 0]

Immediates == {ImmV(n) : n \in Word}

RegUpdates ==
  { Assign(Updated("RAX", size), Binary(op, Tagged("RAX", size), right)) :
      size \in Sizes, op \in {"Add", "Sub", "BitXor", "Rcl"},
      right \in Immediates \cup {Tagged("RAX", 1), Tagged("RCX", 8), Tagged("RAX", 8),
                                 Tagged("RAX", 4), AtRcx(8), AtRspRax(4)} }

MemUpdates ==
  { Store(AtRcx(size), Binary(op, AtRcx(size), right)) :
      size \in Sizes, op \in {"Add", "Sub", "BitXor"},
      right \in {ImmV(0), ImmV(7), ImmV(8), ImmV(9), ImmV(15), Tagged("RAX", 8)} }

Others ==
  { Assign(Updated("RAX", 8), Tagged("RCX", 8)), Store(AtRcx(8), ImmV(3)),
    Assign(Updated("RAX", 2), Unary("Neg", Tagged("RAX", 2))),
    Assign(Updated("RIP", 8),
           Conditional(Binary("Eq", Tagged("ZF", 8), ImmV(1)), ImmV(5),
                       Binary("Add", Tagged("RIP", 8), ImmV(1)))) }

MCBlocks ==
  {<<s>> : s \in RegUpdates \cup MemUpdates} \cup
  {<<s, t>> : s \in Others, t \in RegUpdates}

MCEnv(a, c, s, k) ==
  [reg |-> [r \in Reg |-> CASE r = "RAX" -> a [] r = "RCX" -> c [] OTHER -> s],
   mem |-> [n \in Word |-> (k * n + 3) % 16]]

MCEnvs == {MCEnv(a, 16 - a, 2, 5) : a \in 1..15}
=============================================================================
