----------------------------- MODULE LiftMeaning -----------------------------
(***************************************************************************)
(* What lifting preserves: the instructions decoded so far, run by the     *)
(* processor, against the statements they were lifted to.  The module adds *)
(* no state to Lifter, only the comparison of the two.                     *)
(***************************************************************************)
EXTENDS Lifter, IRMeaning, SequencesExt

CONSTANT CPUs    \* the processor states a block is tried from

ASSUME CPUsAssumption == CPUs \subseteq Entered

(***************************************************************************)
(* The instructions the IR can speak for.  It has no name for a high byte, *)
(* no carry for a rotate and no flags behind an operator; lea is lifted as *)
(* a load, call and ret as a push and a pop of RIP, which has no value in  *)
(* the environment of a block; the two statements of a push or a pop see   *)
(* RSP before and after each other, and always move eight bytes.           *)
(***************************************************************************)
Operands(x) == {x.ops[k] : k \in DOMAIN x.ops}

Families(o) ==
  CASE o.type = "reg" -> {o.reg.family}
    [] o.type = "mem" -> {o.base.family, o.index.family}
    [] OTHER          -> {}

SpeaksOf(x, family) == \E o \in Operands(x) : family \in Families(o)

HasHighByte(x) == \E o \in Operands(x) : o.type = "reg" /\ o.reg.high

MovesSlot(x) == x.ops[1].type = "imm" \/ x.ops[1].size = 8

DataIds == MovIds \cup {"add", "sub", "xor", "shr", "neg", "push", "pop", "popfq", "nop"}

Expressible(x) ==
  /\ x.id \in DataIds
  /\ ~HasHighByte(x) /\ ~SpeaksOf(x, "RIP")
  /\ x.id \in {"push", "pop"} => ~SpeaksOf(x, "RSP") /\ MovesSlot(x)

FlagWriters == BinaryIds \cup {"neg", "popfq"}

\* RFLAGS and ZF in the IR are those the block was entered with.
EntryFlags(k) == \A j \in 1..(k - 1) : source[j].id \notin FlagWriters

\* A popfq makes RFLAGS current again, until the next instruction that writes flags.
RflagsCurrent(k) ==
  \/ EntryFlags(k)
  \/ \E j \in 1..(k - 1) : /\ source[j].id = "popfq"
                           /\ \A i \in (j + 1)..(k - 1) : source[i].id \notin FlagWriters

ExpressibleAt(k) ==
  \/ Expressible(source[k])
  \/ source[k].id = "pushfq" /\ RflagsCurrent(k)

After(cpu) == Run(source, cpu)
Meant(cpu) == RunIR(statements, EnvOf(cpu))

\* The statements of a block of expressible instructions leave every register
\* and all of memory as the processor leaves them, whatever the block mixes:
\* partial writes, stack traffic, flags saved and restored, operands updated in
\* place, addresses that use what the block computed.
DataPreserved ==
  (\A k \in DOMAIN source : ExpressibleAt(k)) =>
    \A cpu \in CPUs : SameData(After(cpu), Meant(cpu))

\* Where a block of expressible instructions ends in jmp, je or jne and the
\* flags are still those of the entry, the assignment to RIP selects the target
\* exactly when the processor jumps (a target at the address emit_conditional_jump
\* falls through to would not tell).
EndsInJump ==
  /\ source # <<>>
  /\ Last(source).id \in {"jmp", "je", "jne"}
  /\ Last(source).ops[1].type = "imm"
  /\ Last(source).id # "jmp" =>
       /\ EntryFlags(Len(source))
       /\ Last(source).ops[1].imm % Modulus[64] # AddrSize % Modulus[64]
  /\ \A k \in 1..(Len(source) - 1) : ExpressibleAt(k)

JumpDecided ==
  EndsInJump => \A cpu \in CPUs :
    LET target == Last(source).ops[1].imm % Modulus[64]
        exit == After(cpu).exit
    IN /\ exit = target <=> Meant(cpu).reg["RIP"] = target
       /\ SameData(After(cpu), Meant(cpu))

\* Lifter.h:123, "push/pop/call/ret all boil down to '[rsp] <-> value' + adjust
\* rsp": a push or a pop, whatever its operand, means what the processor does.
PushPopBoilDown ==
  (\A k \in DOMAIN source : source[k].id \in {"push", "pop"} /\ ~HasHighByte(source[k])) =>
    \A cpu \in CPUs : SameData(After(cpu), Meant(cpu))
=============================================================================
