------------------------------ MODULE MCLifter ------------------------------
(***************************************************************************)
(* Instances of Lifter and LiftMeaning: operands that make the register    *)
(* family, the stack pointer, memory operands and aliases meet.  Words of  *)
(* four bits, with 8, 16, 32 and 64 bits scaled to 1, 2, 3 and 4, and a    *)
(* stack slot of one cell.                                                 *)
(***************************************************************************)
EXTENDS LiftMeaning, MCScale

R(f, size) == RegOp(X86Reg(f), size)
M(base, disp, size) == MemOp(X86Reg(base), X86_REG_INVALID, 1, disp, size)
atRspRcx == MemOp(X86Reg("RSP"), X86Reg("RCX"), 2, 1, 8)

MCInsns == {
  Insn("mov", <<R("RAX", 8), R("RCX", 8)>>), Insn("mov", <<R("RCX", 1), R("RAX", 1)>>),
  Insn("mov", <<R("RAX", 4), R("RSP", 4)>>), Insn("mov", <<M("RCX", 0, 2), R("RAX", 2)>>),
  Insn("movabs", <<R("RCX", 8), ImmOp(-3)>>), Insn("mov", <<R("RAX", 8), atRspRcx>>),
  Insn("push", <<R("RAX", 8)>>), Insn("push", <<ImmOp(-2)>>), Insn("push", <<R("RSP", 8)>>),
  Insn("push", <<M("RCX", 1, 8)>>), Insn("pop", <<R("RCX", 8)>>), Insn("pop", <<M("RCX", 0, 8)>>),
  Insn("pushfq", <<>>), Insn("popfq", <<>>), Insn("call", <<ImmOp(5)>>), Insn("ret", <<>>),
  Insn("add", <<R("RAX", 4), R("RCX", 4)>>), Insn("add", <<R("RSP", 8), ImmOp(-1)>>),
  Insn("sub", <<M("RSP", 0, 8), R("RAX", 8)>>), Insn("xor", <<R("RCX", 8), R("RAX", 8)>>),
  Insn("xor", <<RegOp(X86HighByte("RAX"), 1), R("RAX", 1)>>),
  Insn("shr", <<R("RAX", 8), ImmOp(1)>>), Insn("rcr", <<R("RCX", 8), ImmOp(1)>>),
  Insn("neg", <<R("RAX", 2)>>), Insn("neg", <<M("RCX", 0, 8)>>),
  Insn("lea", <<R("RAX", 8), M("RCX", 1, 8)>>), Insn("jmp", <<R("RAX", 8)>>),
  Insn("jmp", <<ImmOp(5)>>), Insn("je", <<ImmOp(5)>>), Insn("jne", <<ImmOp(5)>>),
  Insn("jg", <<ImmOp(5)>>), Insn("nop", <<>>) }

\* What the union of an operand holds: zero, or the bits of a register or a base.
MCUnionReads == {0, 3}

State(a, c, s, k, f) ==
  WithFlags(f, [gpr |-> "RAX" :> a @@ "RCX" :> c @@ "RSP" :> s,
                mem |-> [n \in Word |-> (k * n + 3) % 16],
                cf |-> 0, zf |-> 0, sf |-> 0, of |-> 0, exit |-> FallsThrough])

MCCPUs == {State(13, 6, 9, 5, 11), State(0, 8, 1, 7, 2), State(7, 15, 0, 3, 4)}
=============================================================================
