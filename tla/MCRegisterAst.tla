---------------------------- MODULE MCRegisterAst ----------------------------
(***************************************************************************)
(* Instances of RegisterAst: the streams the lifter makes of two or three  *)
(* instructions.                                                           *)
(***************************************************************************)
EXTENDS RegisterAstMeaning, MCScale

G(f, size) == RegOp(X86Reg(f), size)
At(base, disp) == MemOp(X86Reg(base), X86_REG_INVALID, 1, disp, 8)
rax == G("RAX", 8)
rcx == G("RCX", 8)

MCInsns == {
  Insn("mov", <<rax, rcx>>), Insn("mov", <<rcx, At("RAX", 0)>>), Insn("mov", <<At("RAX", 0), rcx>>),
  Insn("mov", <<At("RCX", 1), rax>>), Insn("mov", <<rax, At("RCX", 1)>>),
  Insn("mov", <<At("RCX", -1), rax>>),
  Insn("mov", <<rax, MemOp(X86Reg("RSP"), X86Reg("RCX"), 2, 1, 8)>>),
  Insn("mov", <<rax, MemOp(X86_REG_INVALID, X86Reg("RCX"), 1, 0, 8)>>), Insn("mov", <<rax, At("RCX", 0)>>),
  Insn("popfq", <<>>), Insn("pushfq", <<>>),
  Insn("mov", <<At("RSP", 0), ImmOp(3)>>), Insn("mov", <<G("RAX", 4), G("RCX", 4)>>),
  Insn("add", <<rax, rcx>>), Insn("sub", <<rcx, At("RAX", 0)>>), Insn("add", <<rcx, ImmOp(-1)>>),
  Insn("add", <<At("RAX", 0), ImmOp(-1)>>), Insn("xor", <<At("RAX", 0), rax>>),
  Insn("xor", <<rax, ImmOp(-1)>>), Insn("neg", <<rcx>>), Insn("neg", <<At("RAX", 0)>>),
  Insn("push", <<rax>>), Insn("push", <<G("RSP", 8)>>), Insn("pop", <<rcx>>),
  Insn("je", <<ImmOp(5)>>) }

Lifted(x, st) ==
  CASE x.id = "mov"  -> L!EmitAssignmentOrStore(st, L!Operand(x.ops[1]), L!Operand(x.ops[2]))
    [] x.id = "push" -> L!EmitStackPush(st, L!Operand(x.ops[1]))
    [] x.id = "pop"  -> L!EmitStackPop(st, L!Operand(x.ops[1]))
    [] x.id = "neg"  -> L!EmitOperation(st, x, "Neg")
    [] x.id = "popfq"  -> L!EmitStackPop(st, RegV("RFLAGS", 64))
    [] x.id = "pushfq" -> L!EmitStackPush(st, RegV("RFLAGS", 64))
    [] x.id = "je"   -> L!EmitConditionalJump(st, x)
    [] OTHER         -> L!EmitBinaryOperation(st, x, L!BinaryOpOf(x.id))

LiftedBlock(xs) ==
  FoldLeft(LAMBDA st, x : Lifted(x, st),
           [versions |-> L!NoVersions, statements |-> <<>>, next_id |-> 0], xs).statements

Programs == {<<x, y>> : x, y \in MCInsns} \cup {<<x, y, z>> : x, y, z \in MCInsns}

MCStreams == {LiftedBlock(xs) : xs \in Programs}

MCEnv(a, c, s, k) ==
  [reg |-> [r \in Reg |-> CASE r = "RAX" -> a [] r = "RCX" -> c [] r = "RSP" -> s
                            [] OTHER -> a % 2],
   mem |-> [n \in Word |-> (k * n + 3) % 16]]

MCEnvs == {MCEnv(13, 6, 9, 5), MCEnv(4, 3, 4, 7), MCEnv(7, 15, 0, 3)}
=============================================================================
