--------------------------- MODULE BlockTranslator ---------------------------
(***************************************************************************)
(* What Asm2IR promises of one block, whatever goes on inside: a block is  *)
(* taken, then refused or answered by a block that behaves like it.  An    *)
(* answer does not change, and no code of a refused block is seen.         *)
(***************************************************************************)
EXTENDS X86Machine

CONSTANT CPUs    \* the processor states a block is tried from

VARIABLES
  block,   \* the block that was taken
  answer,  \* "none", "pending", "refused" or "delivered"
  output   \* the block that was delivered

translatorVars == <<block, answer, output>>

-----------------------------------------------------------------------------
(***************************************************************************)
(* The instructions that survive: the others are dropped, refused, or      *)
(* recompiled to something else (Pipeline says to what).                   *)
(***************************************************************************)
NamesRip(x) ==
  \E k \in DOMAIN x.ops :
    x.ops[k].type = "mem" /\ X86Reg("RIP") \in {x.ops[k].base, x.ops[k].index}

\* The displacement of a movabs may have 64 bits; the one that is emitted has 32.
AddressesFit(x) ==
  \A k \in DOMAIN x.ops : x.ops[k].type = "mem" =>
    2 * x.ops[k].disp < Modulus[32] /\ 2 * x.ops[k].disp >= -Modulus[32]

Survives(x) ==
  /\ \A k \in DOMAIN x.ops : x.ops[k].type = "reg" => ~x.ops[k].reg.high
  /\ ~NamesRip(x)
  /\ AddressesFit(x)
  /\ \/ x.id \in MovIds \cup CondJumpIds \cup {"push", "pushfq", "popfq", "neg"}
     \/ x.id \in BinaryIds \cup {"pop"} /\ x.ops[1].type = "reg"
     \/ x.id = "jmp" /\ x.ops[1].type = "imm"

(***************************************************************************)
(* Instructions whose flags may be lost: the simplifier turns them into a  *)
(* mov, a not or the opposite operator, or they adjust RSP next to an      *)
(* access to the top of the stack and the recompiler fuses the two.        *)
(***************************************************************************)
Imm(x) == x.ops[2].imm % Modulus[64]

Rewritten(x) ==
  \/ x.id \in {"xor", "sub"} /\ x.ops[1] = x.ops[2]
  \/ x.id = "xor" /\ x.ops[2].type = "imm" /\ Imm(x) = Modulus[8 * x.ops[1].size] - 1
  \/ x.id = "add" /\ x.ops[2].type = "imm" /\ 2 * Imm(x) > Modulus[64]

AdjustsByASlot(x) ==
  /\ x.id \in {"add", "sub"} /\ x.ops[1].type = "reg" /\ x.ops[1].reg.family = "RSP"
  /\ x.ops[2].type = "imm" /\ Imm(x) \in {Slot, (-Slot) % Modulus[64]}

LosesFlags(x) == Rewritten(x) \/ AdjustsByASlot(x)

ReadsFlags(x) == x.id \in CondJumpIds \cup {"rcr", "rcl", "pushfq"}

SetsAllFlags(x) == x.id \in {"add", "sub", "xor", "shr", "neg", "popfq"} /\ ~LosesFlags(x)

FlagsNotMissed(b) ==
  \A j, k \in DOMAIN b :
    j < k /\ LosesFlags(b[j]) /\ ReadsFlags(b[k]) =>
      \E m \in (j + 1)..(k - 1) : SetsAllFlags(b[m])

\* The flags that were lost are set again before the end of the block.
FlagsSetAgain(b) ==
  \A j \in DOMAIN b : LosesFlags(b[j]) => \E m \in (j + 1)..Len(b) : SetsAllFlags(b[m])

\* A mov to or from the top of the stack that meets an adjustment of RSP; the
\* lea of it is lifted as such a mov, and so is the first half of a pop to it.
IsTop(o) ==
  /\ o.type = "mem" /\ o.base.family = "RSP" /\ o.index = X86_REG_INVALID
  /\ o.disp = 0 /\ o.size = 8

MovesTop(x) == x.id \in MovIds \cup {"lea"} /\ \E k \in {1, 2} : IsTop(x.ops[k])

PopsToTop(x) == x.id = "pop" /\ IsTop(x.ops[1])

IdiomAt(b, k) ==
  /\ k \in 1..(Len(b) - 1)
  /\ \/ AdjustsByASlot(b[k]) /\ (MovesTop(b[k + 1]) \/ PopsToTop(b[k + 1]))
     \/ MovesTop(b[k]) /\ AdjustsByASlot(b[k + 1])

\* The fused idiom behaves if it adjusts the whole of RSP and moves another register.
OtherThanRsp(x) == \A k \in {1, 2} : x.ops[k].type = "reg" => x.ops[k].reg.family # "RSP"

GoodIdiom(b, k) ==
  \A x \in {b[k], b[k + 1]} : IF MovesTop(x) THEN OtherThanRsp(x) ELSE x.ops[1].size = 8

\* An add of -2^31 to a 64-bit register has no subtraction of 2^31.
NegationFits(x) ==
  x.id = "add" /\ x.ops[1].size = 8 /\ x.ops[2].type = "imm" =>
    Imm(x) # Modulus[64] - Modulus[32] \div 2

(***************************************************************************)
(* The blocks that must be translated, and what their translation owes:    *)
(* the registers, the memory and the exit of the block, if it reads no     *)
(* flags after an instruction that may lose them, and the flags too, if    *)
(* they were set again.                                                    *)
(***************************************************************************)
Translatable(b) ==
  /\ \A k \in DOMAIN b : Survives(b[k]) /\ (IdiomAt(b, k) => GoodIdiom(b, k)) /\ NegationFits(b[k])
  /\ FlagsNotMissed(b)

SameEffect(p, q) == p.gpr = q.gpr /\ p.mem = q.mem /\ p.exit = q.exit

BehavesLike(c, b) ==
  \A cpu \in CPUs :
    LET before == Run(b, cpu)
        after == Run(c, cpu)
    IN /\ SameEffect(before, after)
       /\ FlagsSetAgain(b) /\ before.exit = FallsThrough => before = after

-----------------------------------------------------------------------------
TranslatorInit == block = <<>> /\ answer = "none" /\ output = <<>>

Take ==
  /\ answer = "none"
  /\ answer' = "pending"
  /\ block' # <<>>
  /\ UNCHANGED output

\* The bytes were no block at all, and another attempt may follow.
RefuseBytes == answer = "none" /\ answer' = "refused" /\ UNCHANGED <<block, output>>
TryAgain == answer = "refused" /\ block = <<>> /\ answer' = "none" /\ UNCHANGED <<block, output>>

Refuses == answer = "pending" /\ answer' = "refused" /\ UNCHANGED <<block, output>>
Delivers == answer = "pending" /\ answer' = "delivered" /\ UNCHANGED block

\* The protocol: one answer, which nothing takes back.
ProtocolNext == Take \/ RefuseBytes \/ TryAgain \/ Refuses \/ Delivers

ProtocolSpec == TranslatorInit /\ [][ProtocolNext]_translatorVars

\* And the answer is the right one.
Refuse == Refuses /\ ~Translatable(block)
Deliver == Delivers /\ (Translatable(block) => BehavesLike(output', block))

TranslatorNext == Take \/ RefuseBytes \/ TryAgain \/ Refuse \/ Deliver

TranslatorSpec == TranslatorInit /\ [][TranslatorNext]_translatorVars

\* Every block that was taken is answered.
Answered == (answer = "pending") ~> (answer \in {"refused", "delivered"})
=============================================================================
