----------------------------- MODULE MCPipeline -----------------------------
(***************************************************************************)
(* Instances of the pipeline: words of four bits, with 8, 16, 32 and 64    *)
(* bits scaled to 1, 2, 3 and 4, and a stack slot of one cell.  An         *)
(* immediate of 32 bits is in -4..3.                                       *)
(***************************************************************************)
EXTENDS Pipeline, MCScale

G(f, size) == RegOp(X86Reg(f), size)
At(base, disp, size) == MemOp(X86Reg(base), X86_REG_INVALID, 1, disp, size)

StackInsns == {
  Insn("push", <<G("RAX", 8)>>), Insn("push", <<G("RSP", 8)>>), Insn("push", <<ImmOp(-2)>>),
  Insn("pop", <<G("RCX", 8)>>), Insn("pop", <<G("RSP", 8)>>), Insn("pop", <<At("RSP", 0, 8)>>),
  Insn("pushfq", <<>>), Insn("popfq", <<>>), Insn("call", <<ImmOp(5)>>), Insn("ret", <<>>),
  Insn("sub", <<G("RSP", 8), ImmOp(1)>>), Insn("add", <<G("RSP", 8), ImmOp(-1)>>),
  Insn("add", <<G("RSP", 8), ImmOp(1)>>), Insn("sub", <<G("RSP", 4), ImmOp(1)>>),
  Insn("mov", <<At("RSP", 0, 8), G("RAX", 8)>>), Insn("mov", <<At("RSP", 0, 8), G("RSP", 8)>>),
  Insn("mov", <<G("RAX", 8), At("RSP", 0, 8)>>) }

DataInsns == {
  Insn("mov", <<At("RCX", 1, 2), G("RAX", 2)>>), Insn("movabs", <<G("RCX", 8), ImmOp(-7)>>),
  Insn("add", <<G("RAX", 8), ImmOp(-4)>>), Insn("add", <<G("RAX", 4), ImmOp(-3)>>),
  Insn("add", <<At("RCX", 0, 8), G("RCX", 8)>>), Insn("xor", <<At("RCX", 0, 8), ImmOp(-1)>>),
  Insn("sub", <<G("RAX", 4), G("RAX", 4)>>), Insn("xor", <<G("RCX", 8), G("RCX", 8)>>),
  Insn("xor", <<G("RAX", 8), ImmOp(-1)>>), Insn("xor", <<G("RAX", 1), RegOp(X86HighByte("RAX"), 1)>>),
  Insn("rcl", <<G("RAX", 8), ImmOp(1)>>), Insn("neg", <<At("RCX", 0, 8)>>),
  Insn("lea", <<G("RAX", 8), At("RCX", 1, 8)>>), Insn("lea", <<G("RAX", 8), At("RSP", 0, 8)>>),
  Insn("add", <<At("RCX", 0, 4), G("RAX", 4)>>), Insn("mov", <<G("RAX", 8), At("RIP", 0, 8)>>),
  Insn("not", <<G("RAX", 8)>>),
  Insn("movabs", <<G("RAX", 8), MemOp(X86_REG_INVALID, X86_REG_INVALID, 1, 9, 8)>>),
  Insn("jmp", <<ImmOp(5)>>), Insn("je", <<ImmOp(5)>>), Insn("jge", <<ImmOp(5)>>) }

MCInsns == StackInsns \cup DataInsns

\* An instruction whose flags the simplifier drops, a jump on them, and one that
\* has nothing to do with flags.
FlagInsns == {
  Insn("sub", <<G("RAX", 4), G("RAX", 4)>>), Insn("je", <<ImmOp(5)>>),
  Insn("mov", <<At("RCX", 1, 2), G("RAX", 2)>>) }

State(a, c, s, k, f) ==
  WithFlags(f, [gpr |-> "RAX" :> a @@ "RCX" :> c @@ "RSP" :> s,
                mem |-> [n \in Word |-> (k * n + 3) % 16],
                cf |-> 0, zf |-> 0, sf |-> 0, of |-> 0, exit |-> FallsThrough])

MCCPUs == {State(13, 6, 9, 5, 11), State(0, 8, 1, 7, 2), State(7, 15, 0, 3, 4)}
=============================================================================
