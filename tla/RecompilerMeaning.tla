-------------------------- MODULE RecompilerMeaning --------------------------
(***************************************************************************)
(* What recompiling preserves: the instructions emitted so far, run by the *)
(* processor, against the statements consumed so far.                      *)
(***************************************************************************)
EXTENDS Recompiler, IRMeaning

CONSTANT CPUs    \* the processor states the code is tried from

ASSUME CPUsAssumption == CPUs \subseteq Entered

(***************************************************************************)
(* Where emitted code and statements do not mean the same: an operator     *)
(* stored to memory goes through RAX; AsmJit takes the width of a register *)
(* for both operands; a displacement of more than 32 bits is truncated;    *)
(* the left operand moved in place overwrites what the right one may read; *)
(* a fused push or pop whose operand involves RSP sees it on the other     *)
(* side of the adjustment, and one whose adjustment is narrower moves RSP  *)
(* by another amount; rotates have no meaning in the IR; control           *)
(* statements are not data.                                                *)
(***************************************************************************)
GoesThroughRax(s) == s.kind = "store" /\ s.value.kind = "bin"

AtOneWidth(s) ==
  LET w == WidthOf(Destination(s))
      e == s.value
  IN /\ e.kind = "bin" => WidthOf(e.left) = w /\ (e.op = "Shr" \/ Fits(e.right, w))
     /\ e.kind = "un" => WidthOf(e.operand) = w
     /\ IsExpressionValue(e) => Fits(e, w)

AddressFits(v) == v.kind = "mem" => FitsImm32(v.displacement)

AddressesFit(s) == \A v \in {Destination(s)} \cup FlatValues(s.value) : AddressFits(v)

Overwrites(s) ==
  /\ s.value.kind = "bin" /\ s.dst.kind = "reg"
  /\ AsmOperand(s.dst) # AsmOperand(s.value.left)
  /\ \E v \in ValueReads(s.value.right) : v.reg = s.dst.reg

MentionsRsp(v) == v.kind # "imm" /\ \E u \in ValueReads(v) : u.reg = "RSP"

FusedFaithfully(first, second) ==
  /\ IsPush(first, second) =>
       first.dst.width = 64 /\ ~MentionsRsp(second.value)
  /\ IsPop(first, second) =>
       second.dst.width = 64 /\ first.dst.kind = "reg" /\ first.dst.reg # "RSP"

IsControl(s) == s.kind \notin {"assign", "store"} \/ (s.kind = "assign" /\ IsReg(s.dst, "RIP"))

IsTranslated(n) ==
  /\ ~IsControl(ir[n])
  /\ ~IsRotate(ir[n])
  /\ AtOneWidth(ir[n])
  /\ AddressesFit(ir[n])
  /\ ir[n].kind = "assign" => ~Overwrites(ir[n])
  /\ n < Len(ir) => FusedFaithfully(ir[n], ir[n + 1])

HasDataMeaning(n) == IsTranslated(n) /\ ~GoesThroughRax(ir[n])

\* The address a statement writes through is read as well.
AddressReads(s) ==
  IF Destination(s).kind = "mem" THEN ValueReads(Destination(s)) ELSE {}

ReadsRax(s) == \E v \in Reads(s.value) \cup AddressReads(s) : v.reg = "RAX"

\* pushfq stores the flags of the moment, the IR those of the entry or of the
\* last popfq: they agree if no instruction in between writes flags.
FlagIds == {"add", "sub", "xor", "shr", "rcr", "rcl", "neg", "cmp"}

FlagsKnown(k) ==
  \A j \in 1..(k - 1) : code[j].id \in FlagIds =>
    \E p \in (j + 1)..(k - 1) : code[p].id = "popfq"

PushesKnownFlags == \A k \in DOMAIN code : code[k].id = "pushfq" => FlagsKnown(k)

\* At every point of the loop the emitted instructions leave registers and
\* memory as the consumed statements do: through fused and unfused stack
\* traffic, moves inserted for a left operand, and partial registers.
EmittedMeansIR ==
  /\ status # "threw"
  /\ \A n \in 1..(i - 1) : HasDataMeaning(n)
  /\ PushesKnownFlags
  => \A cpu \in CPUs :
       SameData(Run(code, cpu), RunIR(SubSeq(ir, 1, i - 1), EnvOf(cpu)))

UpdatesItsCell(s) ==
  GoesThroughRax(s) => s.value.left = s.address /\ s.address.size = 8

\* An operator stored to memory costs RAX and nothing else: where each updates
\* its own cell of eight bytes and no statement reads RAX, the other registers and all of
\* memory are as the statements leave them, in front of, between and behind
\* such operators.
MemoryOperatorConfined ==
  /\ status # "threw"
  /\ \A n \in 1..(i - 1) : IsTranslated(n) /\ UpdatesItsCell(ir[n]) /\ ~ReadsRax(ir[n])
  /\ PushesKnownFlags
  => \A cpu \in CPUs :
       LET after == Run(code, cpu)
           meant == RunIR(SubSeq(ir, 1, i - 1), EnvOf(cpu))
       IN SameData([after EXCEPT !.gpr["RAX"] = meant.reg["RAX"]], meant)
=============================================================================
