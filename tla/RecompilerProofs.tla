--------------------------- MODULE RecompilerProofs ---------------------------
(***************************************************************************)
(* Theorems about the recompiler, for every stream: the type of the code   *)
(* it holds, and that no push or pop is torn by the two-statement window.  *)
(***************************************************************************)
EXTENDS Recompiler, TLAPS

\* What an emitter may return: a refusal, or instructions AsmJit encodes.
Sound(insns) ==
  \/ insns = Throws
  \/ insns \in Seq(AsmInsn) /\ \A k \in DOMAIN insns : Encodable(insns[k])

\* Choosing the size of a memory operand after its register keeps an
\* instruction of two operands encodable.
LEMMA EncodedKeeps ==
  ASSUME NEW x \in AsmInsn, Encodable(x)
  PROVE  Encoded(x) \in AsmInsn /\ Encodable(Encoded(x))
<1>1. CASE Len(x.ops) # 2
  BY <1>1 DEF Encoded
<1>2. CASE Len(x.ops) = 2
  <2> DEFINE d == x.ops[1]
             s == x.ops[2]
  <2>1. d \in AsmOp /\ s \in AsmOp /\ x.id \in AsmIds /\ EncodableBinary(x)
    BY <1>2 DEF AsmInsn, Encodable
  <2>2. CASE d.type = "mem" /\ s.type = "reg" /\ x.id \notin ShiftIds
    <3> DEFINE y == Insn(x.id, <<[d EXCEPT !.size = s.size], s>>)
    <3>1. [d EXCEPT !.size = s.size] \in AsmOp
      BY <2>1, <2>2 DEF AsmOp
    <3>2. y \in AsmInsn /\ Len(y.ops) = 2
      BY <2>1, <3>1 DEF Insn, AsmInsn
    <3>3. y.ops[1].type = "mem" /\ y.ops[2] = s /\ y.id = x.id
      BY <2>1, <2>2 DEF Insn, AsmOp
    <3>4. EncodableBinary(y)
      BY <2>1, <2>2, <3>3 DEF EncodableBinary
    <3>5. Encoded(x) = y
      BY <1>2, <2>2 DEF Encoded
    <3> QED BY <3>2, <3>4, <3>5 DEF Encodable
  <2>3. CASE d.type = "reg" /\ s.type = "mem"
    <3> DEFINE y == Insn(x.id, <<d, [s EXCEPT !.size = d.size]>>)
    <3>1. [s EXCEPT !.size = d.size] \in AsmOp
      BY <2>1, <2>3 DEF AsmOp
    <3>2. y \in AsmInsn /\ Len(y.ops) = 2
      BY <2>1, <3>1 DEF Insn, AsmInsn
    <3>3. y.ops[1] = d /\ y.ops[2].type = "mem" /\ y.id = x.id
      BY <2>1, <2>3 DEF Insn, AsmOp
    <3>4. x.id \notin ShiftIds
      BY <2>1, <2>3 DEF EncodableBinary, RegOp
    <3>5. EncodableBinary(y)
      BY <2>1, <2>3, <3>3, <3>4 DEF EncodableBinary
    <3>6. Encoded(x) = y
      BY <1>2, <2>3 DEF Encoded
    <3> QED BY <3>2, <3>5, <3>6 DEF Encodable
  <2>4. CASE ~(d.type = "mem" /\ s.type = "reg" /\ x.id \notin ShiftIds)
             /\ ~(d.type = "reg" /\ s.type = "mem")
    BY <1>2, <2>4 DEF Encoded
  <2> QED BY <2>2, <2>3, <2>4
<1> QED BY <1>1, <1>2

LEMMA EmittedIsSound ==
  ASSUME NEW insns \in Seq(AsmInsn)
  PROVE  Sound(Emitted(insns))
<1>1. CASE \A k \in DOMAIN insns : Encodable(insns[k])
  <2> DEFINE e == [k \in DOMAIN insns |-> Encoded(insns[k])]
  <2>1. \A k \in DOMAIN insns : Encoded(insns[k]) \in AsmInsn /\ Encodable(Encoded(insns[k]))
    BY <1>1, EncodedKeeps
  <2>2. e \in Seq(AsmInsn) /\ DOMAIN e = DOMAIN insns
    BY <2>1
  <2>3. \A k \in DOMAIN e : Encodable(e[k])
    BY <2>1
  <2>4. Emitted(insns) = e
    BY <1>1 DEF Emitted
  <2> QED BY <2>2, <2>3, <2>4 DEF Sound
<1>2. CASE ~\A k \in DOMAIN insns : Encodable(insns[k])
  BY <1>2 DEF Emitted, Sound
<1> QED BY <1>1, <1>2

LEMMA OneIsSound ==
  ASSUME NEW x \in AsmInsn
  PROVE  Sound(Emitted(<<x>>))
<1>1. <<x>> \in Seq(AsmInsn)
  OBVIOUS
<1> QED BY <1>1, EmittedIsSound

-----------------------------------------------------------------------------
LEMMA SignedIsInt == \A n \in Word : Signed(n) \in Int
<1>1. Modulus[64] \in Nat /\ 64 \in Widths
  BY ScaleAssumption DEF Widths, Sizes
<1> QED BY <1>1 DEF Signed, Word

\* The offset is an integer, and the displacement itself where that has 32 bits.
LEMMA OffsetFacts ==
  ASSUME NEW n \in Int
  PROVE  Offset(n) \in Int /\ (FitsImm32(n) => Offset(n) = n)
<1>1. PICK M \in Nat \ {0} : M = Modulus[32]
  BY ScaleAssumption DEF Widths, Sizes
<1>2. n % M \in 0..(M - 1)
  BY <1>1
<1>3. n >= 0 /\ 2 * n < M => n % M = n
  BY <1>1
<1>4. n < 0 /\ 2 * n >= -M => n % M = n + M
  BY <1>1
<1> QED BY <1>1, <1>2, <1>3, <1>4 DEF Offset, FitsImm32

\* A value that has an operand has one AsmJit can name.
LEMMA OperandType ==
  ASSUME NEW v \in Value, HasOperand(v)
  PROVE  AsmOperand(v) \in AsmOp
<1>1. CASE v \in RegValue
  <2>1. v.kind = "reg" /\ v.reg \in GPR /\ v.width \in Widths
    BY <1>1 DEF RegValue, HasOperand, HasRegOperand
  <2>2. v.width \div 8 \in Sizes
    BY <2>1 DEF Widths, Sizes
  <2> QED BY <2>1, <2>2 DEF AsmOperand, RegOp, AsmOp
<1>2. CASE v \in ImmValue
  <2>1. v.kind = "imm" /\ Signed(v.value) \in Int
    BY <1>2, SignedIsInt DEF ImmValue
  <2> QED BY <2>1 DEF AsmOperand, ImmOp, AsmOp
<1>3. CASE v \in MemoryValue
  <2>1. /\ v.kind = "mem" /\ v.base \in OptReg /\ v.index \in OptReg
        /\ v.scale \in Scales /\ v.displacement \in Int /\ v.size \in Sizes
        /\ HasRegOperand(v.base) /\ HasRegOperand(v.index)
        /\ Offset(v.displacement) \in Int
    BY <1>3, OffsetFacts DEF MemoryValue, HasOperand
  <2>2. \A u \in OptReg : HasRegOperand(u) =>
          GpOf(u) \in {X86Reg(f) : f \in GPR} \cup {X86_REG_INVALID}
    BY DEF OptReg, RegValue, NullValue, HasRegOperand, GpOf
  <2> HIDE DEF OptReg
  <2>3. GpOf(v.base) \in {X86Reg(f) : f \in GPR} \cup {X86_REG_INVALID}
        /\ GpOf(v.index) \in {X86Reg(f) : f \in GPR} \cup {X86_REG_INVALID}
    BY <2>1, <2>2
  <2>4. AsmOperand(v) = MemOp(GpOf(v.base), GpOf(v.index), v.scale, Offset(v.displacement), v.size)
    BY <2>1 DEF AsmOperand
  <2> QED BY <2>1, <2>3, <2>4 DEF MemOp, AsmOp
<1> QED BY <1>1, <1>2, <1>3 DEF Value

LEMMA BuiltInsns ==
  ASSUME NEW id \in AsmIds, NEW a \in AsmOp, NEW b \in AsmOp
  PROVE  /\ Insn(id, <<>>) \in AsmInsn
         /\ Insn(id, <<a>>) \in AsmInsn
         /\ Insn(id, <<a, b>>) \in AsmInsn
BY DEF Insn, AsmInsn

LEMMA MoveType ==
  ASSUME NEW dst \in AsmOp, NEW src \in AsmOp
  PROVE  MoveUnlessSame(dst, src) \in Seq(AsmInsn)
<1>1. "mov" \in AsmIds
  BY DEF AsmIds
<1>2. Insn("mov", <<dst, src>>) \in AsmInsn
  BY <1>1, BuiltInsns
<1> QED BY <1>2 DEF MoveUnlessSame

LEMMA InstType == \A op : HasInst(op) => InstOf(op) \in AsmIds
BY DEF HasInst, InstOf, AsmIds, BinaryIds

LEMMA BinaryRegSound ==
  ASSUME NEW op, HasInst(op), NEW dst \in AsmOp, NEW left \in AsmOp, NEW right \in AsmOp
  PROVE  Sound(EmitBinaryReg(op, dst, left, right))
<1>1. Insn(InstOf(op), <<dst, right>>) \in AsmInsn
  BY InstType, BuiltInsns
<1>2. MoveUnlessSame(dst, left) \o <<Insn(InstOf(op), <<dst, right>>)>> \in Seq(AsmInsn)
  BY <1>1, MoveType
<1> QED BY <1>2, EmittedIsSound DEF EmitBinaryReg

LEMMA BinaryMemSound ==
  ASSUME NEW op, HasInst(op), NEW address \in AsmOp, NEW right \in AsmOp
  PROVE  Sound(EmitBinaryMem(op, address, right))
<1>1. Rax64 \in AsmOp /\ "mov" \in AsmIds
  BY GPRAssumption DEF Rax64, RegOp, AsmOp, Sizes, AsmIds
<1>2. /\ Insn("mov", <<Rax64, address>>) \in AsmInsn
      /\ Insn(InstOf(op), <<Rax64, right>>) \in AsmInsn
      /\ Insn("mov", <<address, Rax64>>) \in AsmInsn
  BY <1>1, InstType, BuiltInsns
<1>3. <<Insn("mov", <<Rax64, address>>), Insn(InstOf(op), <<Rax64, right>>),
        Insn("mov", <<address, Rax64>>)>> \in Seq(AsmInsn)
  BY <1>2
<1> QED BY <1>3, EmittedIsSound DEF EmitBinaryMem

LEMMA UnarySound ==
  ASSUME NEW id \in {"not", "neg"}, NEW dst \in AsmOp, NEW src \in AsmOp
  PROVE  Sound(EmitUnary(id, dst, src))
<1>1. id \in AsmIds
  BY DEF AsmIds
<1>2. Insn(id, <<dst>>) \in AsmInsn
  BY <1>1, BuiltInsns
<1>3. MoveUnlessSame(dst, src) \o <<Insn(id, <<dst>>)>> \in Seq(AsmInsn)
  BY <1>2, MoveType
<1> QED BY <1>3, EmittedIsSound DEF EmitUnary

LEMMA ExpressionSound ==
  ASSUME NEW dst \in Value, HasOperand(dst), NEW e \in Expression, NEW isMem \in BOOLEAN
  PROVE  Sound(EmitExpression(dst, e, isMem))
<1>1. AsmOperand(dst) \in AsmOp
  BY OperandType
<1>2. CASE e \in UnaryExpression
  <2>1. e.kind = "un" /\ e.operand \in Value
    BY <1>2 DEF UnaryExpression
  <2>2. HasOperand(e.operand) =>
          Sound(EmitUnary(UnaryInst(e.op), AsmOperand(dst), AsmOperand(e.operand)))
    BY <1>1, <2>1, OperandType, UnarySound DEF UnaryInst
  <2> QED BY <2>1, <2>2 DEF EmitExpression, Computes, IsExpressionValue, Sound
<1>3. CASE e \in BinaryExpression
  <2>1. e.kind = "bin" /\ e.left \in Value /\ e.right \in Value
    BY <1>3 DEF BinaryExpression
  <2>2. Computes(e) => Sound(EmitBinaryMem(e.op, AsmOperand(dst), AsmOperand(e.right)))
    BY <1>1, <2>1, OperandType, BinaryMemSound DEF Computes
  <2>3. Computes(e) /\ HasOperand(e.left) =>
          Sound(EmitBinaryReg(e.op, AsmOperand(dst), AsmOperand(e.left), AsmOperand(e.right)))
    BY <1>1, <2>1, OperandType, BinaryRegSound DEF Computes
  <2> QED BY <2>1, <2>2, <2>3 DEF EmitExpression, IsExpressionValue, Sound
<1>4. CASE e \in Value
  <2>1. IsExpressionValue(e) /\ e.kind \notin {"un", "bin"}
    BY <1>4 DEF Value, RegValue, ImmValue, MemoryValue, IsExpressionValue
  <2>2. "mov" \in AsmIds
    BY DEF AsmIds
  <2>3. HasOperand(e) => Sound(Emitted(<<Insn("mov", <<AsmOperand(dst), AsmOperand(e)>>)>>))
    BY <1>1, <1>4, <2>2, OperandType, BuiltInsns, OneIsSound
  <2> QED BY <2>1, <2>3 DEF EmitExpression, Computes, Sound
<1>5. CASE e \in ConditionalExpression
  BY <1>5 DEF ConditionalExpression, EmitExpression, Computes, IsExpressionValue, Sound
<1> QED BY <1>2, <1>3, <1>4, <1>5 DEF Expression, FlatExpression

LEMMA WriteSound ==
  ASSUME NEW dst \in Value, NEW e \in Expression, NEW isMem \in BOOLEAN
  PROVE  Sound(EmitWrite(dst, e, isMem))
BY ExpressionSound DEF EmitWrite, Sound

LEMMA JumpSound ==
  ASSUME NEW id \in CondJumpIds \cup {"jmp", "call"}, NEW n \in Int
  PROVE  LET jump == Insn(id, <<Target(n)>>)
         IN jump \in AsmInsn /\ Sound(<<jump>>)
<1> DEFINE jump == Insn(id, <<Target(n)>>)
<1>1. id \in AsmIds /\ Target(n) \in AsmOp
  <2>1. Modulus[64] \in Int
    BY ScaleAssumption DEF Widths, Sizes
  <2> QED BY <2>1 DEF AsmIds, Target, Signed, ImmOp, AsmOp
<1>2. jump \in AsmInsn
  BY <1>1, BuiltInsns
<1>3. jump.id = id /\ Len(jump.ops) = 1
  BY DEF Insn
<1>4. Encodable(jump)
  BY <1>3 DEF Encodable
<1> HIDE DEF jump
<1>5. <<jump>> \in Seq(AsmInsn) /\ \A k \in DOMAIN <<jump>> : Encodable(<<jump>>[k])
  BY <1>2, <1>4
<1> QED BY <1>2, <1>5 DEF Sound, jump

LEMMA WordIsInt == Word \subseteq Int
BY ScaleAssumption DEF Word, Widths, Sizes

LEMMA RipAssignSound ==
  ASSUME NEW e \in Expression
  PROVE  Sound(EmitRipAssign(e))
<1> USE WordIsInt
<1> HIDE DEF Word
<1>1. CASE e.kind = "imm"
  <2>1. e \in ImmValue
    BY <1>1 DEF Expression, FlatExpression, Value, RegValue, MemoryValue, UnaryExpression,
                BinaryExpression, ConditionalExpression
  <2>2. Sound(<<Insn("jmp", <<Target(e.value)>>)>>)
    BY <2>1, JumpSound DEF ImmValue
  <2> QED BY <1>1, <2>2 DEF EmitRipAssign
<1>2. CASE /\ e.kind = "cond" /\ e.true_expr.kind = "imm" /\ e.condition.kind = "bin"
           /\ HasCondCode(e.condition.op)
  <2> DEFINE c == e.condition
             jump == Insn(CondCode(c.op), <<Target(e.true_expr.value)>>)
  <2>1. e.condition \in FlatExpression /\ e.true_expr \in FlatExpression
    BY <1>2 DEF Expression, FlatExpression, Value, RegValue, ImmValue, MemoryValue,
                UnaryExpression, BinaryExpression, ConditionalExpression
  <2>2. c \in BinaryExpression /\ e.true_expr \in ImmValue
    BY <1>2, <2>1 DEF FlatExpression, Value, RegValue, ImmValue, MemoryValue,
                      UnaryExpression, BinaryExpression
  <2>3. c.left \in Value /\ c.right \in Value /\ e.true_expr.value \in Int
    BY <2>2 DEF BinaryExpression, ImmValue
  <2>4. CondCode(c.op) \in CondJumpIds
    BY <1>2 DEF CondCode, HasCondCode, CondJumpIds
  <2>5. jump \in AsmInsn /\ Sound(<<jump>>)
    BY <2>3, <2>4, JumpSound
  <2>6. HasOperand(c.left) /\ HasOperand(c.right) =>
          Sound(Emitted(<<Insn("cmp", <<AsmOperand(c.left), AsmOperand(c.right)>>), jump>>))
    <3> SUFFICES ASSUME HasOperand(c.left), HasOperand(c.right)
                 PROVE  Sound(Emitted(<<Insn("cmp", <<AsmOperand(c.left),
                                                      AsmOperand(c.right)>>), jump>>))
      OBVIOUS
    <3> DEFINE cmp == Insn("cmp", <<AsmOperand(c.left), AsmOperand(c.right)>>)
    <3>1. "cmp" \in AsmIds
      BY DEF AsmIds
    <3>2. cmp \in AsmInsn
      BY <2>3, <3>1, OperandType, BuiltInsns
    <3> HIDE DEF cmp, jump
    <3>3. <<cmp, jump>> \in Seq(AsmInsn)
      BY <2>5, <3>2
    <3> QED BY <3>3, EmittedIsSound DEF cmp
  <2> QED BY <1>2, <2>5, <2>6 DEF EmitRipAssign, Sound
<1>3. CASE /\ e.kind # "imm"
           /\ ~(/\ e.kind = "cond" /\ e.true_expr.kind = "imm" /\ e.condition.kind = "bin"
                /\ HasCondCode(e.condition.op))
  BY <1>3 DEF EmitRipAssign, Sound
<1> QED BY <1>1, <1>2, <1>3

LEMMA BareSound == \A id \in {"pushfq", "popfq", "ret"} : Sound(<<Insn(id, <<>>)>>)
<1> SUFFICES ASSUME NEW id \in {"pushfq", "popfq", "ret"} PROVE Sound(<<Insn(id, <<>>)>>)
  OBVIOUS
<1> DEFINE x == Insn(id, <<>>)
<1>1. x \in AsmInsn /\ Len(x.ops) = 0
  BY DEF Insn, AsmInsn, AsmIds
<1>2. Encodable(x)
  BY <1>1 DEF Encodable
<1> HIDE DEF x
<1>3. <<x>> \in Seq(AsmInsn) /\ \A k \in DOMAIN <<x>> : Encodable(<<x>>[k])
  BY <1>1, <1>2
<1> QED BY <1>3 DEF Sound, x

LEMMA StatementSound ==
  ASSUME NEW s \in Statement \cup ControlStatement
  PROVE  Sound(EmitStatement(s))
<1>1. CASE s \in AssignStatement
  <2>1. s.kind = "assign" /\ s.dst \in Value /\ s.value \in Expression
    BY <1>1 DEF AssignStatement
  <2> QED BY <2>1, RipAssignSound, WriteSound DEF EmitStatement
<1>2. CASE s \in StoreStatement
  <2>1. s.kind = "store" /\ s.address \in Value /\ s.value \in Expression
    BY <1>2 DEF StoreStatement, Value
  <2> QED BY <2>1, WriteSound DEF EmitStatement
<1>3. CASE s \in [kind : {"call"}, target : Word]
  <2>1. Sound(<<Insn("call", <<Target(s.target)>>)>>)
    BY <1>3, WordIsInt, JumpSound
  <2> QED BY <1>3, <2>1 DEF EmitStatement
<1>4. CASE s \in [kind : {"return", "interrupt"}]
  BY <1>4, BareSound DEF EmitStatement, Sound
<1> QED BY <1>1, <1>2, <1>3, <1>4 DEF Statement, ControlStatement

LEMMA StackOpSound ==
  ASSUME NEW id \in {"push", "pop"}, NEW v \in Value
  PROVE  Sound(EmitStackOp(id, v))
<1>1. CASE IsReg(v, "RFLAGS")
  <2>1. ~HasOperand(v)
    BY <1>1, GPRAssumption DEF IsReg, HasOperand, HasRegOperand
  <2> QED BY <1>1, <2>1, BareSound DEF EmitStackOp
<1>2. CASE ~IsReg(v, "RFLAGS") /\ HasOperand(v)
  <2>1. id \in AsmIds
    BY DEF AsmIds
  <2>2. Sound(Emitted(<<Insn(id, <<AsmOperand(v)>>)>>))
    BY <1>2, <2>1, OperandType, BuiltInsns, OneIsSound
  <2> QED BY <1>2, <2>2 DEF EmitStackOp
<1>3. CASE ~IsReg(v, "RFLAGS") /\ ~HasOperand(v)
  BY <1>3 DEF EmitStackOp, Sound
<1> QED BY <1>1, <1>2, <1>3

LEMMA PairSound ==
  ASSUME NEW first \in Statement \cup ControlStatement,
         NEW second \in Statement \cup ControlStatement,
         IsPush(first, second) \/ IsPop(first, second)
  PROVE  Sound(EmitPair(first, second))
<1>1. CASE IsPush(first, second)
  <2>1. second \in StoreStatement /\ IsExpressionValue(second.value)
    BY <1>1 DEF IsPush, Statement, AssignStatement, StoreStatement, ControlStatement
  <2>2. second.value \in Value
    BY <2>1 DEF StoreStatement, Expression, FlatExpression, IsExpressionValue,
                UnaryExpression, BinaryExpression, ConditionalExpression
  <2> QED BY <1>1, <2>2, StackOpSound DEF EmitPair
<1>2. CASE ~IsPush(first, second)
  <2>1. first \in AssignStatement
    BY <1>2 DEF IsPop, Statement, AssignStatement, StoreStatement, ControlStatement
  <2> QED BY <1>2, <2>1, StackOpSound DEF EmitPair, AssignStatement
<1> QED BY <1>1, <1>2

-----------------------------------------------------------------------------
(***************************************************************************)
(* The windows.  What begins a pair cannot end one: the second statement   *)
(* of a push is a store, and that of a pop adds to RSP, where a push       *)
(* begins by subtracting and a pop by loading.                             *)
(***************************************************************************)
LEMMA PairsDoNotOverlap ==
  ASSUME NEW n \in Nat, IsPair(n)
  PROVE  ~IsPair(n + 1)
<1>1. \/ ir[n + 1].kind = "store"
      \/ ir[n + 1].value.kind = "bin" /\ ir[n + 1].value.op = "Add"
  BY DEF IsPair, IsPush, IsPop, AdjustsRsp, IsRspAdjust
<1>2. IsPair(n + 1) => /\ ir[n + 1].kind = "assign"
                       /\ \/ ir[n + 1].value.kind = "bin" /\ ir[n + 1].value.op = "Sub"
                          \/ ir[n + 1].value.kind = "mem"
  BY DEF IsPair, IsPush, IsPop, AdjustsRsp, IsRspAdjust, IsStackTop
<1> QED BY <1>1, <1>2

RecompilerInv == TypeOK /\ PairsWhole

LEMMA InitEstablishesInv == Init => RecompilerInv
BY RecompilerAssumption DEF Init, RecompilerInv, TypeOK, PairsWhole, Stream

LEMMA EmitKeepsType ==
  ASSUME TypeOK, status = "compiling", NEW insns, Sound(insns), NEW width \in {1, 2},
         i + width <= Len(ir) + 1, Emit(insns, width)
  PROVE  TypeOK'
<1>1. ir' = ir /\ i' = i + width /\ i' \in 1..(Len(ir) + 1)
  BY DEF Emit, TypeOK, Stream
<1>2. CASE insns = Throws
  <2>1. code' = <<>> /\ status' = "threw"
    BY <1>2 DEF Emit
  <2> QED BY <1>1, <2>1 DEF TypeOK
<1>3. CASE insns # Throws
  <2>1. /\ insns \in Seq(AsmInsn) /\ \A k \in DOMAIN insns : Encodable(insns[k])
        /\ code \in Seq(AsmInsn) /\ \A k \in DOMAIN code : Encodable(code[k])
        /\ code' = code \o insns /\ status' = "compiling"
    BY <1>3 DEF Emit, Sound, TypeOK
  <2>2. code' \in Seq(AsmInsn)
    BY <2>1
  <2>3. \A k \in DOMAIN code' : Encodable(code'[k])
    BY <2>1
  <2> QED BY <1>1, <2>1, <2>2, <2>3 DEF TypeOK
<1> QED BY <1>2, <1>3

LEMMA NextKeepsInv == RecompilerInv /\ [Next]_vars => RecompilerInv'
<1> SUFFICES ASSUME RecompilerInv, [Next]_vars PROVE RecompilerInv'
  OBVIOUS
<1>1. TypeOK /\ i \in Nat /\ Len(ir) \in Nat
  BY DEF RecompilerInv, TypeOK, Stream
<1>2. CASE CompilePair
  <2>1. i + 1 <= Len(ir) /\ IsPair(i) /\ ir' = ir /\ i' = i + 2
    BY <1>2 DEF CompilePair, IsPair, Emit
  <2>2. Sound(EmitPair(ir[i], ir[i + 1]))
    <3>1. ir[i] \in Statement \cup ControlStatement /\ ir[i + 1] \in Statement \cup ControlStatement
      BY <1>1, <2>1 DEF TypeOK, Stream
    <3> QED BY <2>1, <3>1, PairSound DEF IsPair
  <2>3. TypeOK'
    BY <1>1, <1>2, <2>1, <2>2, EmitKeepsType DEF CompilePair
  <2>4. ~IsPair(i + 1)
    BY <1>1, <2>1, PairsDoNotOverlap
  <2>5. PairsWhole'
    BY <1>1, <2>1, <2>4 DEF PairsWhole, IsPair
  <2> QED BY <2>3, <2>5 DEF RecompilerInv
<1>3. CASE CompileStatement
  <2>1. i <= Len(ir) /\ ~IsPair(i) /\ ir' = ir /\ i' = i + 1
    BY <1>3 DEF CompileStatement, Emit
  <2>2. Sound(EmitStatement(ir[i]))
    <3>1. ir[i] \in Statement \cup ControlStatement
      BY <1>1, <2>1 DEF TypeOK, Stream
    <3> QED BY <3>1, StatementSound
  <2>3. TypeOK'
    BY <1>1, <1>3, <2>1, <2>2, EmitKeepsType DEF CompileStatement
  <2>4. PairsWhole'
    BY <1>1, <2>1 DEF PairsWhole, IsPair
  <2> QED BY <2>3, <2>4 DEF RecompilerInv
<1>4. CASE Finalize
  BY <1>4 DEF Finalize, RecompilerInv, TypeOK, PairsWhole, IsPair
<1>5. CASE UNCHANGED vars
  BY <1>5 DEF vars, RecompilerInv, TypeOK, PairsWhole, IsPair
<1> QED BY <1>2, <1>3, <1>4, <1>5 DEF Next

\* Whatever the stream, the cursor stays in it and the assembler holds only
\* instructions AsmJit encodes, on general purpose registers.
THEOREM RecompilerTypeCorrect == Spec => []TypeOK
<1>1. RecompilerInv => TypeOK
  BY DEF RecompilerInv
<1> QED BY <1>1, InitEstablishesInv, NextKeepsInv, PTL DEF Spec

\* Whatever the stream, no push or pop is torn: the windows compile() finds one
\* after the other are all the pairs there are.
THEOREM PairsWholeHolds == Spec => []PairsWhole
<1>1. RecompilerInv => PairsWhole
  BY DEF RecompilerInv
<1> QED BY <1>1, InitEstablishesInv, NextKeepsInv, PTL DEF Spec
=============================================================================
