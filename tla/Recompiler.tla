----------------------------- MODULE Recompiler -----------------------------
(***************************************************************************)
(* The recompiler (Recompiler.h): a cursor over the statements that emits  *)
(* machine instructions through AsmJit, looking one statement ahead for    *)
(* the two halves of a push or a pop.  Any exception discards the code.    *)
(***************************************************************************)
EXTENDS IRTypes, SequencesExt

CONSTANT Streams    \* the statement streams handed to compile()

VARIABLES
  ir,        \* IR::statements
  i,         \* the loop index of compile()
  code,      \* the instructions the assembler holds
  status     \* "compiling", "done" or "threw"

vars == <<ir, i, code, status>>

(***************************************************************************)
(* The statements of Statement.h that the lifter never builds and the      *)
(* recompiler accepts or refuses.                                          *)
(***************************************************************************)
ControlStatement ==
  [kind : {"call"}, target : Word] \cup [kind : {"return", "interrupt"}]

Stream == Seq(Statement \cup ControlStatement)

ASSUME RecompilerAssumption == Streams \subseteq Stream

-----------------------------------------------------------------------------
(***************************************************************************)
(* AsmJit.  An immediate of a 64-bit instruction other than mov to a       *)
(* register is sign-extended from 32 bits; two register operands have one  *)
(* size; memory appears once; a memory operand beside a register takes the *)
(* register's size.  An instruction outside these forms is an error.       *)
(***************************************************************************)
AsmIds ==
  BinaryIds \cup CondJumpIds \cup
  {"mov", "not", "neg", "cmp", "push", "pop", "pushfq", "popfq", "jmp", "call", "ret"}

AsmOp ==
  [type : {"reg"}, reg : {X86Reg(f) : f \in GPR}, size : Sizes] \cup
  [type : {"imm"}, imm : Int] \cup
  [type : {"mem"}, base : {X86Reg(f) : f \in GPR} \cup {X86_REG_INVALID},
   index : {X86Reg(f) : f \in GPR} \cup {X86_REG_INVALID}, scale : Scales,
   disp : Int, size : Sizes]

AsmInsn == [id : AsmIds, ops : Seq(AsmOp)]

Signed(n) == IF 2 * n >= Modulus[64] THEN n - Modulus[64] ELSE n

FitsImm32(n) == 2 * n < Modulus[32] /\ 2 * n >= -Modulus[32]

ShiftIds == {"shr", "rcr", "rcl"}

EncodableUnary(x) ==
  CASE x.id \in {"push", "pop"} ->
         /\ x.ops[1].type = "imm" => x.id = "push" /\ FitsImm32(x.ops[1].imm)
         /\ x.ops[1].type # "imm" => x.ops[1].size \in {2, 8}
    [] OTHER -> x.ops[1].type # "imm"

EncodableBinary(x) ==
  LET d == x.ops[1]
      s == x.ops[2]
  IN /\ d.type # "imm"
     /\ ~(d.type = "mem" /\ s.type = "mem")
     /\ s.type = "imm" /\ d.size = 8 /\ x.id \notin ShiftIds =>
          FitsImm32(s.imm) \/ (x.id = "mov" /\ d.type = "reg")
     /\ d.type = "reg" /\ s.type = "reg" /\ x.id \notin ShiftIds => d.size = s.size
     /\ x.id \in ShiftIds => s.type = "imm" \/ s = RegOp(X86Reg("RCX"), 1)

Encodable(x) ==
  CASE Len(x.ops) = 1 /\ x.id \notin CondJumpIds \cup {"jmp", "call"} -> EncodableUnary(x)
    [] Len(x.ops) = 2 -> EncodableBinary(x)
    [] OTHER          -> TRUE

\* What the assembler encodes when the sizes of memory and register differ.
Encoded(x) ==
  IF Len(x.ops) # 2 THEN x
  ELSE LET d == x.ops[1]
           s == x.ops[2]
       IN CASE d.type = "mem" /\ s.type = "reg" /\ x.id \notin ShiftIds ->
                 Insn(x.id, <<[d EXCEPT !.size = s.size], s>>)
            [] d.type = "reg" /\ s.type = "mem" ->
                 Insn(x.id, <<d, [s EXCEPT !.size = d.size]>>)
            [] OTHER -> x

(***************************************************************************)
(* Operands (operand, memory_operand, to_reg, to_reg64).  Only the sixteen *)
(* general purpose registers have one; scales and widths are always legal. *)
(***************************************************************************)
HasRegOperand(v) == v.kind = "null" \/ v.reg \in GPR

HasOperand(v) ==
  CASE v.kind = "reg" -> HasRegOperand(v)
    [] v.kind = "mem" -> HasRegOperand(v.base) /\ HasRegOperand(v.index)
    [] OTHER          -> TRUE

GpOf(v) == IF v.kind = "null" THEN X86_REG_INVALID ELSE X86Reg(v.reg)

\* The int64_t displacement is passed on as an int32_t.
Offset(n) ==
  LET low == n % Modulus[32]
  IN IF 2 * low >= Modulus[32] THEN low - Modulus[32] ELSE low

AsmOperand(v) ==
  CASE v.kind = "reg" -> RegOp(X86Reg(v.reg), v.width \div 8)
    [] v.kind = "imm" -> ImmOp(Signed(v.value))
    [] v.kind = "mem" -> MemOp(GpOf(v.base), GpOf(v.index), v.scale, Offset(v.displacement), v.size)

IsReg(v, r) == v.kind = "reg" /\ v.reg = r

(***************************************************************************)
(* Emitters return the instructions they emit, or Throws where an operand  *)
(* has no encoding or the shape is refused.                                *)
(***************************************************************************)
Throws == <<Insn("throw", <<>>)>>

EmittedUnchecked(insns) ==    \* mutant: the error of emit() is not checked
  [k \in DOMAIN insns |-> Encoded(insns[k])]

Emitted(insns) ==
  IF \A k \in DOMAIN insns : Encodable(insns[k])
  THEN [k \in DOMAIN insns |-> Encoded(insns[k])] ELSE Throws

IsExpressionValue(e) == e.kind \in {"reg", "imm", "mem"}

InstOf(op) ==
  CASE op = "Add" -> "add" [] op = "Sub" -> "sub" [] op = "BitXor" -> "xor"
    [] op = "Shr" -> "shr" [] op = "Rcr" -> "rcr" [] op = "Rcl" -> "rcl"

HasInst(op) == op \in {"Add", "Sub", "BitXor", "Shr", "Rcr", "Rcl"}

MoveNever(dst, src) == <<>>    \* mutant: the left operand is taken to be the destination

MoveUnlessSame(dst, src) == IF dst # src THEN <<Insn("mov", <<dst, src>>)>> ELSE <<>>

EmitBinaryReg(op, dst, left, right) ==
  Emitted(MoveUnlessSame(dst, left) \o <<Insn(InstOf(op), <<dst, right>>)>>)

Rax64 == RegOp(X86Reg("RAX"), 8)

EmitBinaryMemUnstored(op, address, right) ==    \* mutant: the result stays in RAX
  Emitted(<<Insn("mov", <<Rax64, address>>), Insn(InstOf(op), <<Rax64, right>>)>>)

EmitBinaryMem(op, address, right) ==
  Emitted(<<Insn("mov", <<Rax64, address>>), Insn(InstOf(op), <<Rax64, right>>),
            Insn("mov", <<address, Rax64>>)>>)

EmitUnary(id, dst, src) == Emitted(MoveUnlessSame(dst, src) \o <<Insn(id, <<dst>>)>>)

UnaryInst(op) == IF op = "LogicalNot" THEN "not" ELSE "neg"

Computes(e) == e.kind = "bin" /\ HasOperand(e.right) /\ HasInst(e.op)

EmitExpression(dst, e, isMem) ==
  CASE e.kind = "un" /\ HasOperand(e.operand) ->
         EmitUnary(UnaryInst(e.op), AsmOperand(dst), AsmOperand(e.operand))
    [] Computes(e) /\ isMem -> EmitBinaryMem(e.op, AsmOperand(dst), AsmOperand(e.right))
    [] Computes(e) /\ ~isMem /\ HasOperand(e.left) ->
         EmitBinaryReg(e.op, AsmOperand(dst), AsmOperand(e.left), AsmOperand(e.right))
    [] IsExpressionValue(e) /\ HasOperand(e) ->
         Emitted(<<Insn("mov", <<AsmOperand(dst), AsmOperand(e)>>)>>)
    [] OTHER -> Throws

EmitWrite(dst, e, isMem) == IF HasOperand(dst) THEN EmitExpression(dst, e, isMem) ELSE Throws

(***************************************************************************)
(* Control flow (emit_rip_assign).                                         *)
(***************************************************************************)
Target(n) == ImmOp(Signed(n))    \* the implicit asmjit::Imm holds an int64_t

FlagRegs == {"ZF"}

CondCode(op) ==
  CASE op = "Eq" -> "je" [] op = "Ne" -> "jne" [] op = "Lt" -> "jl"
    [] op = "Le" -> "jle" [] op = "Gt" -> "jg" [] op = "Ge" -> "jge"

HasCondCode(op) == op \in {"Eq", "Ne", "Lt", "Le", "Gt", "Ge"}

EmitRipAssign(e) ==
  CASE e.kind = "imm" -> <<Insn("jmp", <<Target(e.value)>>)>>
    [] e.kind = "cond" /\ e.true_expr.kind = "imm" /\ e.condition.kind = "bin"
         /\ HasCondCode(e.condition.op) ->
         LET c == e.condition
             jump == Insn(CondCode(c.op), <<Target(e.true_expr.value)>>)
         IN CASE c.left.kind = "reg" /\ c.left.reg \in FlagRegs -> <<jump>>
              [] HasOperand(c.left) /\ HasOperand(c.right) ->
                   Emitted(<<Insn("cmp", <<AsmOperand(c.left), AsmOperand(c.right)>>), jump>>)
              [] OTHER -> Throws
    [] OTHER -> Throws

EmitStatement(s) ==
  CASE s.kind = "assign" -> IF IsReg(s.dst, "RIP") THEN EmitRipAssign(s.value)
                            ELSE EmitWrite(s.dst, s.value, FALSE)
    [] s.kind = "store"  -> EmitWrite(s.address, s.value, TRUE)
    [] s.kind = "call"   -> <<Insn("call", <<Target(s.target)>>)>>
    [] s.kind = "return" -> <<Insn("ret", <<>>)>>
    [] OTHER             -> Throws

(***************************************************************************)
(* The two-statement window (try_emit_push, try_emit_pop).                 *)
(***************************************************************************)
IsRspAdjustEitherWay(e, op) ==    \* mutant: the operation is not compared
  /\ e.kind = "bin"
  /\ IsReg(e.left, "RSP")
  /\ e.right.kind = "imm" /\ e.right.value = Slot

IsRspAdjust(e, op) ==
  /\ e.kind = "bin" /\ e.op = op
  /\ IsReg(e.left, "RSP")
  /\ e.right.kind = "imm" /\ e.right.value = Slot

IsStackTop(v) ==
  /\ v.kind = "mem" /\ v.size = 8 /\ v.displacement = 0
  /\ v.index.kind = "null" /\ IsReg(v.base, "RSP")

AdjustsRsp(s, op) == s.kind = "assign" /\ IsReg(s.dst, "RSP") /\ IsRspAdjust(s.value, op)

IsPush(first, second) ==
  /\ AdjustsRsp(first, "Sub")
  /\ second.kind = "store" /\ IsStackTop(second.address) /\ IsExpressionValue(second.value)

IsPop(first, second) ==
  /\ first.kind = "assign" /\ IsStackTop(first.value)
  /\ AdjustsRsp(second, "Add")

EmitStackOp(id, v) ==
  CASE IsReg(v, "RFLAGS") -> <<Insn(IF id = "push" THEN "pushfq" ELSE "popfq", <<>>)>>
    [] HasOperand(v)      -> Emitted(<<Insn(id, <<AsmOperand(v)>>)>>)
    [] OTHER              -> Throws

EmitPair(first, second) ==
  IF IsPush(first, second) THEN EmitStackOp("push", second.value)
  ELSE EmitStackOp("pop", first.dst)

IsPair(k) ==
  k + 1 <= Len(ir) /\ (IsPush(ir[k], ir[k + 1]) \/ IsPop(ir[k], ir[k + 1]))

-----------------------------------------------------------------------------
Init ==
  /\ ir \in Streams
  /\ i = 1
  /\ code = <<>>
  /\ status = "compiling"

EmitKeepsCode(insns, width) ==    \* mutant: an exception leaves the code so far
  /\ status' = IF insns = Throws THEN "threw" ELSE status
  /\ code' = IF insns = Throws THEN code ELSE code \o insns
  /\ i' = i + width
  /\ UNCHANGED ir

\* The code of the statements from i on, width of them, is emitted or throws.
Emit(insns, width) ==
  /\ status' = IF insns = Throws THEN "threw" ELSE status
  /\ code' = IF insns = Throws THEN <<>> ELSE code \o insns
  /\ i' = i + width
  /\ UNCHANGED ir

CompilePair ==
  /\ status = "compiling" /\ i <= Len(ir)
  /\ IsPair(i)
  /\ Emit(EmitPair(ir[i], ir[i + 1]), 2)

CompileStatement ==
  /\ status = "compiling" /\ i <= Len(ir)
  /\ ~IsPair(i)
  /\ Emit(EmitStatement(ir[i]), 1)

Finalize ==
  /\ status = "compiling" /\ i > Len(ir)
  /\ status' = "done"
  /\ UNCHANGED <<ir, i, code>>

Next == CompilePair \/ CompileStatement \/ Finalize

Spec == Init /\ [][Next]_vars /\ WF_vars(Next)

-----------------------------------------------------------------------------
(***************************************************************************)
(* Properties.                                                             *)
(***************************************************************************)

\* The cursor stays in the stream although it moves by two, and everything the
\* assembler holds is an instruction AsmJit encodes, on general purpose
\* registers: no error is left unchecked and RIP and RFLAGS never get there.
TypeOK ==
  /\ ir \in Stream
  /\ i \in 1..(Len(ir) + 1)
  /\ status \in {"compiling", "done", "threw"}
  /\ code \in Seq(AsmInsn)
  /\ \A k \in DOMAIN code : Encodable(code[k])

\* No window is torn: where two statements make a push or a pop, the cursor
\* never starts at the second of them, although windows are found one after the
\* other and the one before might have ended there.  A torn pushfq or popfq
\* would hand RFLAGS to operand(), which throws; a torn push rsp would store the
\* wrong RSP.
PairsWhole ==
  \A n \in 1..(Len(ir) - 1) : status # "threw" /\ IsPair(n) => i # n + 1

\* compile() ends all or nothing: with every statement consumed exactly and the
\* code kept, although the cursor may move by two at the end of the stream, or
\* with an exception and no code.
CompletesOrThrows ==
  <>(\/ status = "done" /\ i = Len(ir) + 1
     \/ status = "threw" /\ code = <<>>)
=============================================================================
