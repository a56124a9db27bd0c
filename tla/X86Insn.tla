------------------------------ MODULE X86Insn ------------------------------
(***************************************************************************)
(* The x86 instructions as Asm2IR sees them: what Capstone hands to the    *)
(* lifter and what the recompiler asks AsmJit to encode.  Both libraries   *)
(* are outside the repository; this module keeps of their records the      *)
(* fields the code reads.  A mnemonic is a string, a register is the name  *)
(* of its 64-bit family plus the mark of the high-byte alias (ah, bh, ch,  *)
(* dh), a size is in bytes.                                                *)
(***************************************************************************)
EXTENDS Integers, Sequences

CONSTANT GPR    \* the 64-bit general purpose registers in play

ASSUME GPRAssumption ==
  /\ {"RAX", "RSP"} \subseteq GPR
  /\ GPR \cap {"RIP", "RFLAGS", "ZF", "invalid"} = {}

Sizes == {1, 2, 4, 8}

Scales == {1, 2, 4, 8}

(***************************************************************************)
(* Registers and operands (cs_x86_op).                                     *)
(***************************************************************************)
X86Reg(family) == [family |-> family, high |-> FALSE]
X86HighByte(family) == [family |-> family, high |-> TRUE]
X86_REG_INVALID == X86Reg("invalid")

MemBases == {X86Reg(f) : f \in GPR \cup {"RIP"}} \cup {X86_REG_INVALID}

RegOp(r, size) == [type |-> "reg", reg |-> r, size |-> size]
ImmOp(n) == [type |-> "imm", imm |-> n]
MemOp(base, index, scale, disp, size) ==
  [type |-> "mem", base |-> base, index |-> index, scale |-> scale,
   disp |-> disp, size |-> size]

IsRegOp(o) ==
  /\ o \in [type : {"reg"}, reg : [family : GPR, high : BOOLEAN], size : Sizes]
  /\ o.reg.high => o.size = 1
IsImmOp(o) == o \in [type : {"imm"}, imm : Int]
IsMemOp(o) ==
  o \in [type : {"mem"}, base : MemBases, index : MemBases, scale : Scales,
         disp : Int, size : Sizes]

(***************************************************************************)
(* Instructions (cs_insn with its detail).                                 *)
(***************************************************************************)
Insn(id, ops) == [id |-> id, ops |-> ops]

MovIds == {"mov", "movabs"}
BinaryIds == {"add", "sub", "xor", "shr", "rcr", "rcl"}
CondJumpIds == {"je", "jne", "jg", "jge", "jl", "jle"}
BareIds == {"pushfq", "popfq", "ret"}

(***************************************************************************)
(* What the x86 encoding guarantees about an instruction that decodes: two *)
(* operands that are not both memory for the two-operand forms, and of one *)
(* size unless the second is an immediate or counts a shift, a register    *)
(* and a memory operand for lea, an immediate target for a conditional     *)
(* jump, a register or memory destination wherever something is written,   *)
(* and none for pushfq and popfq.                                          *)
(***************************************************************************)
IsPlace(o) == IsRegOp(o) \/ IsMemOp(o)

WellFormed(x) ==
  /\ DOMAIN x.ops = 1..Len(x.ops)
  /\ x.id \in MovIds \cup BinaryIds =>
       /\ Len(x.ops) = 2
       /\ IsPlace(x.ops[1])
       /\ IsPlace(x.ops[2]) \/ IsImmOp(x.ops[2])
       /\ ~(IsMemOp(x.ops[1]) /\ IsMemOp(x.ops[2]))
  /\ x.id \in MovIds \cup {"add", "sub", "xor"} /\ IsPlace(x.ops[2]) =>
       x.ops[1].size = x.ops[2].size
  /\ x.id = "lea" => Len(x.ops) = 2 /\ IsRegOp(x.ops[1]) /\ IsMemOp(x.ops[2])
  /\ x.id \in {"neg", "pop"} => Len(x.ops) = 1 /\ IsPlace(x.ops[1])
  /\ x.id \in {"push", "jmp", "call"} =>
       Len(x.ops) = 1 /\ (IsPlace(x.ops[1]) \/ IsImmOp(x.ops[1]))
  /\ x.id \in CondJumpIds => Len(x.ops) = 1 /\ IsImmOp(x.ops[1])
  /\ x.id \in {"pushfq", "popfq"} => Len(x.ops) = 0
=============================================================================
