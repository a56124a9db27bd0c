-------------------------- MODULE LiftMeaningProofs --------------------------
(***************************************************************************)
(* What lifting preserves, for blocks of any length, any word size and any *)
(* state a block is entered in.                                            *)
(*                                                                         *)
(* Neither property is inductive.  The step of a pushfq needs RFLAGS of    *)
(* the environment to be the flags of the processor while no instruction   *)
(* that writes them has been lifted since a popfq or the entry, the step   *)
(* of a jump needs ZF to be the processor's, RIP to be still 0 and the     *)
(* processor to be still in the block.  LiftInv says so.                   *)
(***************************************************************************)
EXTENDS LifterProofs, LiftMeaning, ExecutionProofs

-----------------------------------------------------------------------------
(***************************************************************************)
(* SSA tags do not matter to the meaning.                                  *)
(***************************************************************************)
LEMMA TagReadMeans ==
  ASSUME NEW v \in OptReg, NEW vers, NEW env
  PROVE  RegisterOf(TagRead(v, vers), env) = RegisterOf(v, env)
BY DEF OptReg, NullValue, RegValue, TagRead, RegisterOf

LEMMA TagValueMeans ==
  ASSUME NEW v \in Value, NEW vers, NEW env
  PROVE  /\ EvalValue(TagValue(v, vers), env) = EvalValue(v, env)
         /\ WidthOf(TagValue(v, vers)) = WidthOf(v)
         /\ v.kind = "mem" => Address(TagValue(v, vers), env) = Address(v, env)
<1>1. CASE v \in RegValue
  <2>1. v.kind = "reg" /\ TagValue(v, vers) = [v EXCEPT !.ssa_id = ReadId(vers, v.reg)]
    BY <1>1 DEF RegValue, TagValue, TagRead
  <2>2. /\ TagValue(v, vers).kind = "reg" /\ TagValue(v, vers).reg = v.reg
        /\ TagValue(v, vers).width = v.width
    BY <1>1, <2>1 DEF RegValue
  <2> QED BY <2>1, <2>2 DEF EvalValue, WidthOf
<1>2. CASE v \in ImmValue
  <2>1. v.kind = "imm" /\ TagValue(v, vers) = v
    BY <1>2 DEF ImmValue, TagValue
  <2> QED BY <2>1
<1>3. CASE v \in MemoryValue
  <2>1. v.kind = "mem" /\ v.base \in OptReg /\ v.index \in OptReg
    BY <1>3 DEF MemoryValue
  <2> DEFINE b == TagRead(v.base, vers)
             j == TagRead(v.index, vers)
  <2>2. TagValue(v, vers) = [v EXCEPT !.base = b, !.index = j]
    BY <2>1 DEF TagValue
  <2>3. RegisterOf(b, env) = RegisterOf(v.base, env) /\ RegisterOf(j, env) = RegisterOf(v.index, env)
    BY <2>1, TagReadMeans
  <2> HIDE DEF b, j
  <2> DEFINE t == [v EXCEPT !.base = b, !.index = j]
  <2>4. /\ t.kind = "mem" /\ t.base = b /\ t.index = j /\ t.size = v.size
        /\ t.scale = v.scale /\ t.displacement = v.displacement
    BY <1>3 DEF MemoryValue
  <2> HIDE DEF t
  <2>5. Address(t, env) = Address(v, env)
    BY <2>3, <2>4 DEF Address
  <2>6. EvalValue(t, env) = EvalValue(v, env) /\ WidthOf(t) = WidthOf(v)
    BY <2>1, <2>4, <2>5 DEF EvalValue, WidthOf
  <2> QED BY <2>2, <2>5, <2>6 DEF t
<1> QED BY <1>1, <1>2, <1>3 DEF Value

LEMMA ValueKinds == \A v \in Value : v.kind \in {"reg", "imm", "mem"}
BY DEF Value, RegValue, ImmValue, MemoryValue

LEMMA TagFlatMeans ==
  ASSUME NEW e \in FlatExpression, NEW vers, NEW env
  PROVE  EvalFlat(TagFlat(e, vers), env) = EvalFlat(e, env)
<1>1. CASE e \in Value
  <2>1. e.kind \in {"reg", "imm", "mem"} /\ TagValue(e, vers).kind = e.kind
    BY <1>1, ValueKinds, TagValueKeepsKind
  <2>2. TagFlat(e, vers) = TagValue(e, vers)
    BY <2>1 DEF TagFlat
  <2>3. EvalFlat(e, env) = EvalValue(e, env)
    BY <2>1 DEF EvalFlat
  <2>4. EvalFlat(TagValue(e, vers), env) = EvalValue(TagValue(e, vers), env)
    BY <2>1 DEF EvalFlat
  <2> QED BY <1>1, <2>2, <2>3, <2>4, TagValueMeans
<1>2. CASE e \in UnaryExpression
  <2> DEFINE v == TagValue(e.operand, vers)
             t == [e EXCEPT !.operand = v]
  <2>1. e.kind = "un" /\ e.operand \in Value
    BY <1>2 DEF UnaryExpression
  <2>2. TagFlat(e, vers) = t
    BY <2>1 DEF TagFlat
  <2>3. EvalValue(v, env) = EvalValue(e.operand, env) /\ WidthOf(v) = WidthOf(e.operand)
    BY <2>1, TagValueMeans
  <2> HIDE DEF v
  <2>4. t.kind = "un" /\ t.op = e.op /\ t.operand = v
    BY <1>2 DEF UnaryExpression
  <2> HIDE DEF t
  <2>5. EvalFlat(t, env) = EvalFlat(e, env)
    BY <2>1, <2>3, <2>4 DEF EvalFlat
  <2> QED BY <2>2, <2>5
<1>3. CASE e \in BinaryExpression
  <2> DEFINE l == TagValue(e.left, vers)
             r == TagValue(e.right, vers)
             t == [e EXCEPT !.left = l, !.right = r]
  <2>1. e.kind = "bin" /\ e.left \in Value /\ e.right \in Value
    BY <1>3 DEF BinaryExpression
  <2>2. TagFlat(e, vers) = t
    BY <2>1 DEF TagFlat
  <2>3. /\ EvalValue(l, env) = EvalValue(e.left, env) /\ WidthOf(l) = WidthOf(e.left)
        /\ EvalValue(r, env) = EvalValue(e.right, env)
    BY <2>1, TagValueMeans
  <2> HIDE DEF l, r
  <2>4. t.kind = "bin" /\ t.op = e.op /\ t.left = l /\ t.right = r
    BY <1>3 DEF BinaryExpression
  <2> HIDE DEF t
  <2>5. EvalFlat(t, env) = EvalFlat(e, env)
    BY <2>1, <2>3, <2>4 DEF EvalFlat
  <2> QED BY <2>2, <2>5
<1> QED BY <1>1, <1>2, <1>3 DEF FlatExpression

LEMMA FlatKinds == \A e \in FlatExpression : e.kind \in {"reg", "imm", "mem", "un", "bin"}
BY ValueKinds DEF FlatExpression, UnaryExpression, BinaryExpression

LEMMA TagReadsMeans ==
  ASSUME NEW e \in Expression, NEW vers \in [Reg -> Int], NEW env
  PROVE  Eval(TagReads(e, vers), env) = Eval(e, env)
<1>1. CASE e \in FlatExpression
  <2>1. e.kind # "cond" /\ TagReads(e, vers) = TagFlat(e, vers)
    BY <1>1, FlatKinds DEF TagReads
  <2>2. TagFlat(e, vers) \in FlatExpression
    BY <1>1, TagFlatIsTagged
  <2>3. TagFlat(e, vers).kind # "cond"
    BY <2>2, FlatKinds
  <2> QED BY <1>1, <2>1, <2>3, TagFlatMeans DEF Eval
<1>2. CASE e \in ConditionalExpression
  <2> DEFINE c == TagFlat(e.condition, vers)
             t == TagFlat(e.true_expr, vers)
             f == TagFlat(e.false_expr, vers)
  <2>1. /\ e.kind = "cond" /\ e.condition \in FlatExpression
        /\ e.true_expr \in FlatExpression /\ e.false_expr \in FlatExpression
    BY <1>2 DEF ConditionalExpression
  <2>2. TagReads(e, vers) = Conditional(c, t, f)
    BY <2>1 DEF TagReads
  <2>3. /\ EvalFlat(c, env) = EvalFlat(e.condition, env)
        /\ EvalFlat(t, env) = EvalFlat(e.true_expr, env)
        /\ EvalFlat(f, env) = EvalFlat(e.false_expr, env)
    BY <2>1, TagFlatMeans
  <2> HIDE DEF c, t, f
  <2> QED BY <2>1, <2>2, <2>3 DEF Eval, Conditional
<1> QED BY <1>1, <1>2 DEF Expression

LEMMA TaggedPlace ==
  ASSUME NEW d \in Value, NEW vers, NEW x, NEW env
  PROVE  /\ Written(TagWrite(d, vers), x, env) = Written(d, x, env)
         /\ d.kind = "mem" => Written(TagValue(d, vers), x, env) = Written(d, x, env)
<1>1. CASE d \in RegValue
  <2> DEFINE t == [d EXCEPT !.ssa_id = vers[d.reg]]
  <2>1. d.kind = "reg" /\ TagWrite(d, vers) = t
    BY <1>1 DEF RegValue, TagWrite
  <2>2. t.kind = "reg" /\ t.reg = d.reg /\ t.width = d.width
    BY <1>1 DEF RegValue
  <2> HIDE DEF t
  <2> QED BY <2>1, <2>2 DEF Written
<1>2. CASE d \in ImmValue
  BY <1>2 DEF ImmValue, TagWrite
<1>3. CASE d \in MemoryValue
  <2>1. d.kind = "mem" /\ TagWrite(d, vers) = d
    BY <1>3 DEF MemoryValue, TagWrite
  <2> DEFINE t == TagValue(d, vers)
  <2>2. t.kind = "mem" /\ Address(t, env) = Address(d, env) /\ WidthOf(t) = WidthOf(d)
    BY <2>1, TagValueKeepsKind, TagValueMeans
  <2> HIDE DEF t
  <2>3. Written(t, x, env) = Written(d, x, env)
    BY <2>1, <2>2 DEF Written
  <2> QED BY <2>1, <2>3 DEF t
<1> QED BY <1>1, <1>2, <1>3 DEF Value

-----------------------------------------------------------------------------
(***************************************************************************)
(* What a state of the stream means, and what appending to it adds.        *)
(***************************************************************************)
Means(st, entry) == RunIR(st.statements, entry)

LEMMA NewAssignMeans ==
  ASSUME NEW st, StateInv(st), NEW d \in Value, NEW e \in Expression, NEW entry
  PROVE  LET env == Means(st, entry)
         IN Means(NewAssign(st, d, e), entry) = Written(d, Eval(e, env), env)
<1> DEFINE bumped == Bumped(st.versions, d)
           s == Assign(TagWrite(d, bumped), TagReads(e, st.versions))
           env == Means(st, entry)
<1>1. st.versions \in [Reg -> Int] /\ st.statements \in Seq(Statement)
  BY DEF StateInv, LifterState
<1>2. StateInv(NewAssign(st, d, e)) /\ NewAssign(st, d, e).statements = Append(st.statements, s)
  BY NewAssignKeepsInv DEF NewAssign
<1>3. Destination(s) = TagWrite(d, bumped) /\ s.value = TagReads(e, st.versions)
  BY DEF Destination, Assign
<1> HIDE DEF s, bumped
<1>4. s \in {s} \cup Statement /\ st.statements \in Seq({s} \cup Statement)
  BY <1>1
<1>5. Means(NewAssign(st, d, e), entry) = ExecStatement(s, env)
  BY <1>2, <1>4, RunIRAppend DEF Means
<1> HIDE DEF env
<1>6. ExecStatement(s, env) = Written(d, Eval(e, env), env)
  BY <1>1, <1>3, TagReadsMeans, TaggedPlace DEF ExecStatement
<1> QED BY <1>5, <1>6 DEF env

LEMMA NewStoreMeans ==
  ASSUME NEW st, StateInv(st), NEW d \in MemoryValue, NEW e \in Expression, NEW entry
  PROVE  LET env == Means(st, entry)
         IN Means(NewStore(st, d, e), entry) = Written(d, Eval(e, env), env)
<1> DEFINE s == Store(TagValue(d, st.versions), TagReads(e, st.versions))
           env == Means(st, entry)
<1>1. st.versions \in [Reg -> Int] /\ st.statements \in Seq(Statement) /\ st \in LifterState
      /\ d \in Value /\ d.kind = "mem"
  BY DEF StateInv, LifterState, Value, MemoryValue
<1>2. NewStore(st, d, e).statements = Append(st.statements, s)
  <2> DEFINE ss == Append(st.statements, s)
  <2>1. NewStore(st, d, e) = [st EXCEPT !.statements = ss]
    BY DEF NewStore
  <2> HIDE DEF ss
  <2>2. [st EXCEPT !.statements = ss].statements = ss
    BY <1>1 DEF LifterState
  <2> QED BY <2>1, <2>2 DEF ss
<1>3. Destination(s) = TagValue(d, st.versions) /\ s.value = TagReads(e, st.versions)
  BY DEF Destination, Store
<1> HIDE DEF s
<1>4. s \in {s} \cup Statement /\ st.statements \in Seq({s} \cup Statement)
  BY <1>1
<1>5. Means(NewStore(st, d, e), entry) = ExecStatement(s, env)
  BY <1>2, <1>4, RunIRAppend DEF Means
<1> HIDE DEF env
<1>6. ExecStatement(s, env) = Written(d, Eval(e, env), env)
  BY <1>1, <1>3, TagReadsMeans, TaggedPlace DEF ExecStatement
<1> QED BY <1>5, <1>6 DEF env

LEMMA EmitMeans ==
  ASSUME NEW st, StateInv(st), NEW d \in Value, NEW e \in Expression, NEW entry
  PROVE  LET env == Means(st, entry)
             after == EmitAssignmentOrStore(st, d, e)
         IN Means(after, entry) = Written(d, Eval(e, env), env) /\ StateInv(after)
<1>1. CASE d.kind = "mem"
  <2>1. d \in MemoryValue
    BY <1>1 DEF Value, RegValue, ImmValue
  <2> QED BY <1>1, <2>1, NewStoreMeans, EmitKeepsInv DEF EmitAssignmentOrStore
<1>2. CASE d.kind # "mem"
  BY <1>2, NewAssignMeans, EmitKeepsInv DEF EmitAssignmentOrStore
<1> QED BY <1>1, <1>2


\* The values of the operators.
LEMMA EvalOfBuilt ==
  ASSUME NEW env
  PROVE  /\ \A v \in Value : Eval(v, env) = EvalValue(v, env)
         /\ \A op, l, r : Eval(Binary(op, l, r), env) =
              EvalBinary(op, EvalValue(l, env), EvalValue(r, env), Modulus[WidthOf(l)])
         /\ \A op, l : Eval(Unary(op, l), env) =
              EvalUnary(op, EvalValue(l, env), Modulus[WidthOf(l)])
<1>1. ASSUME NEW v \in Value
      PROVE  Eval(v, env) = EvalValue(v, env)
  <2>1. v.kind \in {"reg", "imm", "mem"}
    BY ValueKinds
  <2> QED BY <2>1 DEF Eval, EvalFlat
<1>2. ASSUME NEW op, NEW l, NEW r
      PROVE  Eval(Binary(op, l, r), env) =
               EvalBinary(op, EvalValue(l, env), EvalValue(r, env), Modulus[WidthOf(l)])
  BY DEF Binary, Eval, EvalFlat
<1>3. ASSUME NEW op, NEW l
      PROVE  Eval(Unary(op, l), env) = EvalUnary(op, EvalValue(l, env), Modulus[WidthOf(l)])
  BY DEF Unary, Eval, EvalFlat
<1> QED BY <1>1, <1>2, <1>3

LEMMA StackSlotPoints ==
  /\ PointsToTop(StackSlot) /\ StackSlot \in Value
  /\ IsRsp(RegV("RSP", 64)) /\ RegV("RSP", 64) \in Value
  /\ IsSlot(ImmV(Slot)) /\ ImmV(Slot) \in Value
<1>1. StackSlot \in MemoryValue /\ RegV("RSP", 64) \in RegValue /\ ImmV(Slot) \in ImmValue
  BY BuiltValues, ScaleAssumption
<1>2. PointsToTop(StackSlot)
  BY <1>1 DEF PointsToTop, StackSlot, MemV, RegV, NullValue
<1>3. IsRsp(RegV("RSP", 64)) /\ IsSlot(ImmV(Slot))
  BY <1>1 DEF IsRsp, IsSlot, RegV, ImmV
<1> QED BY <1>1, <1>2, <1>3 DEF Value

LEMMA AdjustRspMeans ==
  ASSUME NEW st, StateInv(st), NEW op \in {"Add", "Sub"}, NEW entry, Means(st, entry) \in Env
  PROVE  Means(AdjustRsp(st, op), entry) =
           Moved(IF op = "Sub" THEN -Slot ELSE Slot, Means(st, entry))
<1> DEFINE rsp == RegV("RSP", 64)
           e == Binary(op, rsp, ImmV(Slot))
           env == Means(st, entry)
<1>1. rsp \in Value /\ e \in Expression /\ IsRsp(rsp) /\ IsSlot(ImmV(Slot))
  BY StackSlotPoints, BinaryType DEF BinaryOps
<1>2. Means(AdjustRsp(st, op), entry) = Written(rsp, Eval(e, env), env)
  BY <1>1, NewAssignMeans DEF AdjustRsp
<1>3. Eval(e, env) = EvalBinary(op, EvalValue(rsp, env), EvalValue(ImmV(Slot), env),
                                Modulus[WidthOf(rsp)])
  BY EvalOfBuilt
<1> HIDE DEF rsp, e
<1> QED BY <1>1, <1>2, <1>3, AdjustMeans

LEMMA PushedStateMeans ==
  ASSUME NEW st, StateInv(st), NEW src \in Value, NEW entry, Means(st, entry) \in Env
  PROVE  LET f == Moved(-Slot, Means(st, entry))
         IN EvalValue(src, f) \in Word =>
              Means(EmitStackPush(st, src), entry) = Stored(EvalValue(src, f), f)
<1> DEFINE f == Moved(-Slot, Means(st, entry))
           down == AdjustRsp(st, "Sub")
<1> SUFFICES ASSUME EvalValue(src, f) \in Word
             PROVE  Means(EmitStackPush(st, src), entry) = Stored(EvalValue(src, f), f)
  OBVIOUS
<1>1. StateInv(down) /\ Means(down, entry) = f
  BY AdjustRspKeepsInv, AdjustRspMeans
<1>2. f \in Env
  BY MovedType, ScaleAssumption
<1>3. EmitStackPush(st, src) = EmitAssignmentOrStore(down, StackSlot, src)
  BY DEF EmitStackPush
<1> HIDE DEF f, down
<1>4. src \in Expression /\ Eval(src, f) = EvalValue(src, f)
  BY ValueIsExpression, EvalOfBuilt
<1>5. Means(EmitStackPush(st, src), entry) = Written(StackSlot, EvalValue(src, f), f)
  BY <1>1, <1>3, <1>4, EmitMeans, StackSlotPoints
<1> QED BY <1>2, <1>5, StackSlotPoints, TopMeans

LEMMA PoppedStateMeans ==
  ASSUME NEW st, StateInv(st), NEW dst \in Value, NEW entry, Means(st, entry) \in Env
  PROVE  Means(EmitStackPop(st, dst), entry) =
           Moved(Slot, Written(dst, TopOf(Means(st, entry)), Means(st, entry)))
<1> DEFINE env == Means(st, entry)
           loaded == EmitAssignmentOrStore(st, dst, StackSlot)
           f == Written(dst, TopOf(env), env)
<1>1. StackSlot \in Value /\ StackSlot \in Expression /\ 0 \in Word
  BY StackSlotPoints, ValueIsExpression, WordIsLow
<1>2. Eval(StackSlot, env) = TopOf(env) /\ TopOf(env) \in Word
  BY <1>1, EvalOfBuilt, StackSlotPoints, TopMeans
<1>3. StateInv(loaded) /\ Means(loaded, entry) = f
  BY <1>1, <1>2, EmitMeans
<1>4. f \in Env
  BY <1>2, WrittenType, WordIsLow
<1>5. EmitStackPop(st, dst) = AdjustRsp(loaded, "Add")
  BY DEF EmitStackPop
<1> HIDE DEF loaded, f
<1> QED BY <1>3, <1>4, <1>5, AdjustRspMeans DEF f


-----------------------------------------------------------------------------
(***************************************************************************)
(* The operands of an instruction the IR can speak for.                    *)
(***************************************************************************)
Plain(o) ==
  /\ IsPlace(o) \/ IsImmOp(o)
  /\ ~(o.type = "reg" /\ o.reg.high)
  /\ "RIP" \notin Families(o)

LEMMA BaseNamesSame ==
  ASSUME NEW r \in MemBases, r.family # "RIP"
  PROVE  /\ NamesSame(r, OptionalReg(r))
         /\ OptionalReg(r) \in OptReg
         /\ \A u \in {OptionalReg(r)} \ {NullValue} : u.reg \in GPR /\ u.reg = r.family
<1>1. CASE r = X86_REG_INVALID
  BY <1>1 DEF OptionalReg, NamesSame, NullValue, OptReg
<1>2. CASE r # X86_REG_INVALID
  <2>1. PICK f \in GPR \cup {"RIP"} : r = X86Reg(f)
    BY <1>2 DEF MemBases
  <2>2. f \in GPR /\ r.family = f
    BY <2>1 DEF X86Reg
  <2>3. OptionalReg(r) = RegV(f, 64) /\ f \in Reg
    BY <1>2, <2>2, GprIsReg DEF OptionalReg, FamilyOf
  <2>4. RegV(f, 64) \in RegValue /\ RegV(f, 64).kind = "reg" /\ RegV(f, 64).reg = f
    BY <2>3, BuiltValues DEF RegV
  <2> QED BY <2>1, <2>2, <2>3, <2>4 DEF NamesSame, OptReg
<1> QED BY <1>1, <1>2

LEMMA PlainDenotes ==
  ASSUME NEW o, Plain(o)
  PROVE  LET v == Operand(o)
         IN /\ Denotes(o, v) /\ v \in Value /\ ReadsWithin(v, GPR)
            /\ \A u \in ValueReads(v) : u.reg \in Families(o)
            /\ v.kind = o.type /\ (v.kind # "imm" => WidthOf(v) = 8 * o.size)
<1> DEFINE v == Operand(o)
<1>1. v \in Value
  BY OperandType DEF Plain
<1>2. CASE IsRegOp(o)
  <2>1. /\ o.type = "reg" /\ o.reg.family \in GPR /\ ~o.reg.high /\ o.size \in Sizes
        /\ Families(o) = {o.reg.family}
    BY <1>2 DEF Plain, IsRegOp, Families
  <2>2. v = RegV(o.reg.family, 8 * o.size) /\ 8 * o.size \in Widths /\ o.reg.family \in Reg
    BY <2>1, GprIsReg DEF Operand, FamilyOf, Widths
  <2>3. v \in RegValue /\ v.kind = "reg" /\ v.reg = o.reg.family /\ v.width = 8 * o.size
    BY <2>2 DEF RegV, RegValue
  <2>4. ValueReads(v) = {v}
    BY <2>3 DEF ValueReads
  <2> HIDE DEF v
  <2>5. Denotes(o, v) /\ ReadsWithin(v, GPR) /\ WidthOf(v) = 8 * o.size
    BY <2>1, <2>3, <2>4 DEF Denotes, ReadsWithin, Width, WidthOf
  <2> QED BY <1>1, <2>1, <2>3, <2>4, <2>5 DEF v
<1>3. CASE IsImmOp(o)
  <2>1. o.type = "imm" /\ o.imm \in Int
    BY <1>3 DEF IsImmOp
  <2>2. v = ImmV(o.imm) /\ v \in ImmValue
    BY <2>1, BuiltValues DEF Operand
  <2>3. v.kind = "imm" /\ v.value = o.imm % Modulus[64] /\ ValueReads(v) = {}
    BY <2>2 DEF ImmV, ValueReads
  <2> HIDE DEF v
  <2>4. Denotes(o, v) /\ ReadsWithin(v, GPR)
    BY <2>1, <2>2, <2>3 DEF Denotes, ReadsWithin
  <2> QED BY <1>1, <2>1, <2>3, <2>4 DEF v
<1>4. CASE IsMemOp(o)
  <2> DEFINE b == OptionalReg(o.base)
             j == OptionalReg(o.index)
  <2>1. /\ o.type = "mem" /\ o.base \in MemBases /\ o.index \in MemBases /\ o.scale \in Scales
        /\ o.disp \in Int /\ o.size \in Sizes /\ Families(o) = {o.base.family, o.index.family}
    BY <1>4 DEF IsMemOp, Families
  <2>2. o.base.family # "RIP" /\ o.index.family # "RIP"
    BY <2>1 DEF Plain
  <2>3. /\ NamesSame(o.base, b) /\ b \in OptReg
        /\ \A u \in {b} \ {NullValue} : u.reg \in GPR /\ u.reg = o.base.family
    BY <2>1, <2>2, BaseNamesSame
  <2>4. /\ NamesSame(o.index, j) /\ j \in OptReg
        /\ \A u \in {j} \ {NullValue} : u.reg \in GPR /\ u.reg = o.index.family
    BY <2>1, <2>2, BaseNamesSame
  <2>5. v = MemV(o.size, b, j, o.scale, o.disp)
    BY <2>1 DEF Operand
  <2> HIDE DEF b, j
  <2>6. /\ v \in MemoryValue /\ v.kind = "mem" /\ v.base = b /\ v.index = j /\ v.size = o.size
        /\ v.scale = o.scale /\ v.displacement = o.disp
    BY <2>1, <2>3, <2>4, <2>5 DEF MemV, MemoryValue
  <2> HIDE DEF v
  <2>7. ValueReads(v) = {b, j} \ {NullValue}
    BY <2>6 DEF ValueReads
  <2>8. Denotes(o, v) /\ WidthOf(v) = 8 * o.size
    BY <2>1, <2>3, <2>4, <2>6 DEF Denotes, WidthOf
  <2> QED BY <1>1, <2>1, <2>3, <2>4, <2>6, <2>7, <2>8 DEF v, ReadsWithin
<1> QED BY <1>2, <1>3, <1>4 DEF Plain, IsPlace

-----------------------------------------------------------------------------
(***************************************************************************)
(* One instruction: after is the environment its statements leave.         *)
(***************************************************************************)
Follows(x, cpu, env, after) ==
  /\ Linked(GPR, Exec(x, cpu), after)
  /\ after.reg["RIP"] = env.reg["RIP"] /\ after.reg["ZF"] = env.reg["ZF"]
  /\ x.id \notin FlagWriters =>
       SameFlags(Exec(x, cpu), cpu) /\ after.reg["RFLAGS"] = env.reg["RFLAGS"]
  /\ x.id = "popfq" => after.reg["RFLAGS"] = FlagsWord(Exec(x, cpu))

LEMMA FollowsBySpecial ==
  ASSUME NEW x, NEW cpu, NEW env, NEW after, Linked(GPR, Exec(x, cpu), after),
         KeepsSpecial(after, env), x.id # "popfq",
         SameFlags(Exec(x, cpu), cpu) \/ x.id \in FlagWriters
  PROVE  Follows(x, cpu, env, after)
BY GprIsReg DEF KeepsSpecial, Follows

LEMMA PlainOperands ==
  ASSUME NEW x, WellFormed(x), Expressible(x)
  PROVE  /\ x.id \in MovIds \cup {"add", "sub", "xor", "shr"} =>
              /\ Plain(x.ops[1]) /\ x.ops[1].type # "imm" /\ Plain(x.ops[2])
              /\ x.id # "shr" /\ x.ops[2].type # "imm" => x.ops[1].size = x.ops[2].size
         /\ x.id \in {"neg", "pop"} => Plain(x.ops[1]) /\ x.ops[1].type # "imm"
         /\ x.id = "push" => Plain(x.ops[1])
<1>1. \A k \in DOMAIN x.ops : x.ops[k] \in Operands(x)
  BY DEF Operands
<1>2. ASSUME NEW k \in DOMAIN x.ops, IsPlace(x.ops[k]) \/ IsImmOp(x.ops[k])
      PROVE  Plain(x.ops[k])
  BY <1>1, <1>2 DEF Expressible, HasHighByte, SpeaksOf, Plain
<1>3. \A o : /\ IsPlace(o) => o.type # "imm"
             /\ IsImmOp(o) => o.type = "imm"
  BY DEF IsPlace, IsRegOp, IsMemOp, IsImmOp
<1>4. CASE x.id \in MovIds \cup {"add", "sub", "xor", "shr"}
  <2>1. Len(x.ops) = 2 /\ IsPlace(x.ops[1]) /\ (IsPlace(x.ops[2]) \/ IsImmOp(x.ops[2]))
    BY <1>4 DEF WellFormed, BinaryIds
  <2>2. x.id # "shr" /\ IsPlace(x.ops[2]) => x.ops[1].size = x.ops[2].size
    BY <1>4 DEF WellFormed
  <2> QED BY <1>2, <1>3, <1>4, <2>1, <2>2 DEF MovIds
<1>5. CASE x.id \in {"neg", "pop"}
  <2>1. Len(x.ops) = 1 /\ IsPlace(x.ops[1])
    BY <1>5 DEF WellFormed
  <2> QED BY <1>2, <1>3, <1>5, <2>1 DEF MovIds
<1>6. CASE x.id = "push"
  <2>1. Len(x.ops) = 1 /\ (IsPlace(x.ops[1]) \/ IsImmOp(x.ops[1]))
    BY <1>6 DEF WellFormed
  <2> QED BY <1>2, <1>6, <2>1 DEF MovIds
<1> QED BY <1>4, <1>5, <1>6


LEMMA MovFollows ==
  ASSUME NEW x, WellFormed(x), Expressible(x), x.id \in MovIds,
         NEW st, StateInv(st), NEW entry, NEW cpu, Linked(GPR, cpu, Means(st, entry))
  PROVE  Follows(x, cpu, Means(st, entry),
                 Means(EmitAssignmentOrStore(st, Operand(x.ops[1]), Operand(x.ops[2])), entry))
<1> DEFINE env == Means(st, entry)
           d == Operand(x.ops[1])
           v == Operand(x.ops[2])
<1>1. /\ Plain(x.ops[1]) /\ x.ops[1].type # "imm" /\ Plain(x.ops[2])
      /\ x.ops[2].type # "imm" => x.ops[1].size = x.ops[2].size
  BY PlainOperands DEF MovIds
<1>2. /\ Denotes(x.ops[1], d) /\ d \in Value /\ ReadsWithin(d, GPR) /\ d.kind # "imm"
      /\ WidthOf(d) = 8 * x.ops[1].size
  BY <1>1, PlainDenotes
<1>3. /\ Denotes(x.ops[2], v) /\ v \in Value /\ ReadsWithin(v, GPR)
      /\ v.kind = x.ops[2].type /\ (v.kind # "imm" => WidthOf(v) = 8 * x.ops[2].size)
  BY <1>1, PlainDenotes
<1> HIDE DEF d, v
<1>4. Fits(v, WidthOf(d))
  BY <1>1, <1>2, <1>3 DEF Fits
<1>5. Means(EmitAssignmentOrStore(st, d, v), entry) = Written(d, EvalValue(v, env), env)
  <2>1. v \in Expression /\ Eval(v, env) = EvalValue(v, env)
    BY <1>3, EvalOfBuilt, ValueIsExpression
  <2> QED BY <1>2, <2>1, EmitMeans
<1> HIDE DEF env
<1>6. LET e == Written(d, EvalValue(v, env), env)
      IN Linked(GPR, Exec(x, cpu), e) /\ SameFlags(Exec(x, cpu), cpu) /\ KeepsSpecial(e, env)
  BY <1>2, <1>3, <1>4, MovMeans DEF env
<1>7. Follows(x, cpu, env, Means(EmitAssignmentOrStore(st, d, v), entry))
  BY <1>5, <1>6, FollowsBySpecial DEF MovIds
<1> QED BY <1>7 DEF env, d, v

LEMMA BinaryFollows ==
  ASSUME NEW x, WellFormed(x), Expressible(x), x.id \in {"add", "sub", "xor", "shr"},
         NEW st, StateInv(st), NEW entry, NEW cpu, Linked(GPR, cpu, Means(st, entry))
  PROVE  Follows(x, cpu, Means(st, entry),
                 Means(EmitBinaryOperation(st, x, BinaryOpOf(x.id)), entry))
<1> DEFINE env == Means(st, entry)
           d == Operand(x.ops[1])
           v == Operand(x.ops[2])
           op == BinaryOpOf(x.id)
           y == EvalBinary(op, EvalValue(d, env), EvalValue(v, env), Modulus[WidthOf(d)])
<1>1. /\ Plain(x.ops[1]) /\ x.ops[1].type # "imm" /\ Plain(x.ops[2])
      /\ x.id # "shr" /\ x.ops[2].type # "imm" => x.ops[1].size = x.ops[2].size
  BY PlainOperands
<1>2. /\ Denotes(x.ops[1], d) /\ d \in Value /\ ReadsWithin(d, GPR) /\ d.kind # "imm"
      /\ WidthOf(d) = 8 * x.ops[1].size
  BY <1>1, PlainDenotes
<1>3. /\ Denotes(x.ops[2], v) /\ v \in Value /\ ReadsWithin(v, GPR)
      /\ v.kind = x.ops[2].type /\ (v.kind # "imm" => WidthOf(v) = 8 * x.ops[2].size)
  BY <1>1, PlainDenotes
<1>4. <<x.id, op>> \in Computing /\ op \in BinaryOps /\ (op # "Shr" => x.id # "shr")
      /\ x.id \in FlagWriters /\ x.id # "popfq"
  BY DEF BinaryOpOf, Computing, BinaryOps, FlagWriters, BinaryIds
<1>5. EmitBinaryOperation(st, x, op) = EmitAssignmentOrStore(st, d, Binary(op, d, v))
  BY DEF EmitBinaryOperation
<1> HIDE DEF d, v, op
<1>6. op # "Shr" => Fits(v, WidthOf(d))
  BY <1>1, <1>2, <1>3, <1>4 DEF Fits
<1>7. Means(EmitBinaryOperation(st, x, op), entry) = Written(d, y, env)
  <2>1. Binary(op, d, v) \in Expression /\ Eval(Binary(op, d, v), env) = y
    BY <1>2, <1>3, <1>4, BinaryType, EvalOfBuilt
  <2> QED BY <1>2, <1>5, <2>1, EmitMeans
<1> HIDE DEF env
<1>8. Linked(GPR, Exec(x, cpu), Written(d, y, env)) /\ KeepsSpecial(Written(d, y, env), env)
  <2>1. Linked(GPR, cpu, env)
    BY DEF env
  <2> QED BY <1>2, <1>3, <1>4, <1>6, <2>1, BinaryMeans
<1>9. Follows(x, cpu, env, Means(EmitBinaryOperation(st, x, op), entry))
  BY <1>4, <1>7, <1>8, FollowsBySpecial
<1> QED BY <1>9 DEF env, op

LEMMA NegFollows ==
  ASSUME NEW x, WellFormed(x), Expressible(x), x.id = "neg",
         NEW st, StateInv(st), NEW entry, NEW cpu, Linked(GPR, cpu, Means(st, entry))
  PROVE  Follows(x, cpu, Means(st, entry), Means(EmitOperation(st, x, "Neg"), entry))
<1> DEFINE env == Means(st, entry)
           d == Operand(x.ops[1])
           y == EvalUnary("Neg", EvalValue(d, env), Modulus[WidthOf(d)])
<1>1. Plain(x.ops[1]) /\ x.ops[1].type # "imm"
  BY PlainOperands
<1>2. Denotes(x.ops[1], d) /\ d \in Value /\ ReadsWithin(d, GPR) /\ d.kind # "imm"
  BY <1>1, PlainDenotes
<1>3. EmitOperation(st, x, "Neg") = NewAssign(st, d, Unary("Neg", d))
  BY DEF EmitOperation
<1> HIDE DEF d
<1>4. Unary("Neg", d) \in Expression
  BY <1>2 DEF Unary, UnaryExpression, UnaryOps, FlatExpression, Expression
<1>5. Means(EmitOperation(st, x, "Neg"), entry) = Written(d, y, env)
  BY <1>2, <1>3, <1>4, NewAssignMeans, EvalOfBuilt
<1> HIDE DEF env
<1>6. Linked(GPR, Exec(x, cpu), Written(d, y, env)) /\ KeepsSpecial(Written(d, y, env), env)
  <2>1. Linked(GPR, cpu, env)
    BY DEF env
  <2>2. "Neg" \in UnaryOps /\ x.id = UnaryId("Neg")
    BY DEF UnaryOps, UnaryId
  <2> QED BY <1>2, <2>1, <2>2, UnaryMeans
<1>7. Follows(x, cpu, env, Means(EmitOperation(st, x, "Neg"), entry))
  BY <1>5, <1>6, FollowsBySpecial DEF FlagWriters
<1> QED BY <1>7 DEF env

LEMMA PushFollows ==
  ASSUME NEW x, WellFormed(x), Expressible(x), x.id = "push",
         NEW st, StateInv(st), NEW entry, NEW cpu, Linked(GPR, cpu, Means(st, entry))
  PROVE  Follows(x, cpu, Means(st, entry), Means(EmitStackPush(st, Operand(x.ops[1])), entry))
<1> DEFINE env == Means(st, entry)
           v == Operand(x.ops[1])
           f == Moved(-Slot, env)
<1>1. Plain(x.ops[1]) /\ MovesSlot(x) /\ "RSP" \notin Families(x.ops[1])
  <2>1. Plain(x.ops[1]) /\ MovesSlot(x) /\ ~SpeaksOf(x, "RSP")
    BY PlainOperands DEF Expressible
  <2>2. Len(x.ops) = 1
    BY DEF WellFormed
  <2> QED BY <2>1, <2>2 DEF SpeaksOf, Operands
<1>2. /\ Denotes(x.ops[1], v) /\ v \in Value /\ ReadsWithin(v, GPR)
      /\ \A u \in ValueReads(v) : u.reg \in Families(x.ops[1])
      /\ v.kind = x.ops[1].type /\ (v.kind # "imm" => WidthOf(v) = 8 * x.ops[1].size)
  BY <1>1, PlainDenotes
<1> HIDE DEF v
<1>3. Fits(v, 64) /\ AvoidsRsp(v) /\ "RSP" \in GPR
  BY <1>1, <1>2, GprIsReg DEF Fits, MovesSlot, AvoidsRsp
<1>4. env \in Env /\ Linked(GPR, cpu, env)
  BY DEF Linked
<1>5. EvalValue(v, f) \in Word =>
        Means(EmitStackPush(st, v), entry) = Stored(EvalValue(v, f), f)
  BY <1>2, <1>4, PushedStateMeans
<1> HIDE DEF env
<1>6. /\ Linked(GPR, Exec(x, cpu), Stored(EvalValue(v, f), f)) /\ EvalValue(v, f) \in Word
      /\ SameFlags(Exec(x, cpu), cpu) /\ KeepsSpecial(Stored(EvalValue(v, f), f), env)
  BY <1>2, <1>3, <1>4, PushMeans
<1>7. Follows(x, cpu, env, Means(EmitStackPush(st, v), entry))
  BY <1>5, <1>6, FollowsBySpecial
<1> QED BY <1>7 DEF env, v

LEMMA PopFollows ==
  ASSUME NEW x, WellFormed(x), Expressible(x), x.id = "pop",
         NEW st, StateInv(st), NEW entry, NEW cpu, Linked(GPR, cpu, Means(st, entry))
  PROVE  Follows(x, cpu, Means(st, entry), Means(EmitStackPop(st, Operand(x.ops[1])), entry))
<1> DEFINE env == Means(st, entry)
           d == Operand(x.ops[1])
           e == Moved(Slot, Written(d, TopOf(env), env))
<1>1. /\ Plain(x.ops[1]) /\ x.ops[1].type # "imm" /\ MovesSlot(x)
      /\ "RSP" \notin Families(x.ops[1])
  <2>1. Plain(x.ops[1]) /\ x.ops[1].type # "imm" /\ MovesSlot(x) /\ ~SpeaksOf(x, "RSP")
    BY PlainOperands DEF Expressible
  <2>2. Len(x.ops) = 1
    BY DEF WellFormed
  <2> QED BY <2>1, <2>2 DEF SpeaksOf, Operands
<1>2. /\ Denotes(x.ops[1], d) /\ d \in Value /\ ReadsWithin(d, GPR)
      /\ \A u \in ValueReads(d) : u.reg \in Families(x.ops[1])
      /\ d.kind # "imm" /\ WidthOf(d) = 8 * x.ops[1].size
  BY <1>1, PlainDenotes
<1> HIDE DEF d
<1>3. WidthOf(d) = 64 /\ AvoidsRsp(d) /\ "RSP" \in GPR
  BY <1>1, <1>2, GprIsReg DEF MovesSlot, AvoidsRsp
<1>4. env \in Env /\ Linked(GPR, cpu, env)
  BY DEF Linked
<1>5. Means(EmitStackPop(st, d), entry) = e
  BY <1>2, <1>4, PoppedStateMeans
<1> HIDE DEF env
<1>6. Linked(GPR, Exec(x, cpu), e) /\ SameFlags(Exec(x, cpu), cpu) /\ KeepsSpecial(e, env)
  BY <1>2, <1>3, <1>4, PopMeans
<1>7. Follows(x, cpu, env, Means(EmitStackPop(st, d), entry))
  BY <1>5, <1>6, FollowsBySpecial
<1> QED BY <1>7 DEF env, d

LEMMA FlagsOperand ==
  /\ IsFlags(RegV("RFLAGS", 64)) /\ RegV("RFLAGS", 64) \in Value
  /\ \A env \in Env : EvalValue(RegV("RFLAGS", 64), env) = env.reg["RFLAGS"]
<1>1. RegV("RFLAGS", 64) \in RegValue
  BY BuiltValues
<1>2. IsFlags(RegV("RFLAGS", 64)) /\ RegV("RFLAGS", 64) \in Value
  BY <1>1 DEF IsFlags, RegV, Value
<1>3. ASSUME NEW env \in Env
      PROVE  EvalValue(RegV("RFLAGS", 64), env) = env.reg["RFLAGS"]
  <2>1. env.reg["RFLAGS"] \in Word
    BY GprIsReg DEF Env
  <2>2. Low(env.reg["RFLAGS"], 64) = env.reg["RFLAGS"]
    BY <2>1, WholeWord
  <2> QED BY <2>2 DEF EvalValue, RegV
<1> QED BY <1>2, <1>3

LEMMA PushfqFollows ==
  ASSUME NEW x, x.id = "pushfq",
         NEW st, StateInv(st), NEW entry, NEW cpu, Linked(GPR, cpu, Means(st, entry)),
         Means(st, entry).reg["RFLAGS"] = FlagsWord(cpu)
  PROVE  Follows(x, cpu, Means(st, entry), Means(EmitStackPush(st, RegV("RFLAGS", 64)), entry))
<1> DEFINE env == Means(st, entry)
           v == RegV("RFLAGS", 64)
           f == Moved(-Slot, env)
           y == FlagsWord(cpu)
<1>1. env \in Env /\ Linked(GPR, cpu, env) /\ env.reg["RFLAGS"] = y
  BY DEF Linked
<1>2. EvalValue(v, f) \in Word =>
        Means(EmitStackPush(st, v), entry) = Stored(EvalValue(v, f), f)
  BY <1>1, FlagsOperand, PushedStateMeans
<1> HIDE DEF env
<1>3. EvalValue(v, f) = y
  <2>1. f \in Env /\ f.reg["RFLAGS"] = env.reg["RFLAGS"]
    <3>1. -Slot \in Int /\ "RFLAGS" \in Reg \ {"RSP"}
      BY ScaleAssumption, GprIsReg
    <3> QED BY <1>1, <3>1, MovedType
  <2> HIDE DEF f
  <2> QED BY <1>1, <2>1, FlagsOperand
<1> HIDE DEF y, v
<1>4. /\ Linked(GPR, Exec(x, cpu), Stored(y, f)) /\ y \in Word
      /\ SameFlags(Exec(x, cpu), cpu) /\ KeepsSpecial(Stored(y, f), env)
  BY <1>1, PushfqMeans, GprIsReg DEF y
<1>5. Follows(x, cpu, env, Means(EmitStackPush(st, v), entry))
  BY <1>2, <1>3, <1>4, FollowsBySpecial
<1> QED BY <1>5 DEF env, v

LEMMA PopfqFollows ==
  ASSUME NEW x, x.id = "popfq",
         NEW st, StateInv(st), NEW entry, NEW cpu, Linked(GPR, cpu, Means(st, entry))
  PROVE  Follows(x, cpu, Means(st, entry), Means(EmitStackPop(st, RegV("RFLAGS", 64)), entry))
<1> DEFINE env == Means(st, entry)
           d == RegV("RFLAGS", 64)
           e == Moved(Slot, Written(d, TopOf(env), env))
<1>1. env \in Env /\ Linked(GPR, cpu, env)
  BY DEF Linked
<1>2. Means(EmitStackPop(st, d), entry) = e
  BY <1>1, FlagsOperand, PoppedStateMeans
<1> HIDE DEF env
<1>3. IsFlags(d) /\ "RSP" \in GPR
  BY FlagsOperand, GprIsReg
<1> HIDE DEF d
<1>4. /\ Linked(GPR, Exec(x, cpu), e) /\ e.reg["RFLAGS"] = FlagsWord(Exec(x, cpu))
      /\ e.reg["RIP"] = env.reg["RIP"] /\ e.reg["ZF"] = env.reg["ZF"]
  BY <1>1, <1>3, PopfqMeans
<1> HIDE DEF e
<1>5. Follows(x, cpu, env, Means(EmitStackPop(st, d), entry))
  BY <1>2, <1>4 DEF Follows, FlagWriters
<1> QED BY <1>5 DEF env, d


-----------------------------------------------------------------------------
(***************************************************************************)
(* The handlers.                                                           *)
(***************************************************************************)
LEMMA CurrentMeans ==
  ASSUME IInv
  PROVE  StateInv(Current) /\ \A entry : Means(Current, entry) = RunIR(statements, entry)
BY DEF IInv, Current, Means

LEMMA InsnFollows ==
  ASSUME IInv, NEW x \in Insns, HandleInsn(x), Expressible(x) \/ x.id = "pushfq",
         NEW entry, NEW cpu, Linked(GPR, cpu, Means(Current, entry)),
         x.id = "pushfq" => Means(Current, entry).reg["RFLAGS"] = FlagsWord(cpu)
  PROVE  Follows(x, cpu, Means(Current, entry), RunIR(statements', entry))
<1>1. StateInv(Current) /\ WellFormed(x)
  BY CurrentMeans, LifterAssumption
<1>2. \A st : Handle(x, st) => RunIR(statements', entry) = Means(st, entry)
  BY DEF Handle, Means
<1>3. x.id \in DataIds \cup {"pushfq"} /\ (x.id # "pushfq" => Expressible(x))
  BY DEF Expressible
<1>4. CASE HandleMov(x)
  BY <1>1, <1>2, <1>3, <1>4, MovFollows DEF HandleMov, MovIds
<1>5. CASE HandlePush(x)
  BY <1>1, <1>2, <1>3, <1>5, PushFollows DEF HandlePush
<1>6. CASE HandlePop(x)
  BY <1>1, <1>2, <1>3, <1>6, PopFollows DEF HandlePop
<1>7. CASE HandlePushfq(x)
  BY <1>1, <1>2, <1>3, <1>7, PushfqFollows DEF HandlePushfq
<1>8. CASE HandlePopfq(x)
  BY <1>1, <1>2, <1>3, <1>8, PopfqFollows DEF HandlePopfq
<1>9. CASE HandleBinary(x)
  <2>1. x.id \in {"add", "sub", "xor", "shr"}
    BY <1>3, <1>9 DEF HandleBinary, BinaryIds, DataIds, MovIds
  <2> QED BY <1>1, <1>2, <1>3, <1>9, <2>1, BinaryFollows DEF HandleBinary
<1>10. CASE HandleNeg(x)
  BY <1>1, <1>2, <1>3, <1>10, NegFollows DEF HandleNeg
<1>11. CASE SkipUnhandled(x)
  <2>1. x.id = "nop"
    BY <1>3, <1>11 DEF SkipUnhandled, HandledIds, DataIds, MovIds, BinaryIds, BareIds
  <2>2. Exec(x, cpu) = cpu
    BY <2>1, ExecuteIs DEF Linked
  <2>3. RunIR(statements', entry) = Means(Current, entry)
    BY <1>2, <1>11 DEF SkipUnhandled
  <2> QED BY <2>1, <2>2, <2>3 DEF Follows, SameFlags
<1>12. CASE HandleLea(x) \/ HandleJmp(x) \/ HandleCall(x) \/ HandleRet(x)
            \/ HandleConditionalJump(x)
  <2>1. x.id \in {"lea", "jmp", "call", "ret"} \cup CondJumpIds
    BY <1>12 DEF HandleLea, HandleJmp, HandleCall, HandleRet, HandleConditionalJump
  <2> QED BY <1>3, <2>1 DEF CondJumpIds, DataIds, MovIds
<1> QED BY <1>4, <1>5, <1>6, <1>7, <1>8, <1>9, <1>10, <1>11, <1>12 DEF HandleInsn

LEMMA RipWritten ==
  ASSUME NEW env \in Env, NEW y \in Word
  PROVE  LET e == Written(RegV("RIP", 64), y, env)
         IN e.reg["RIP"] = y /\ e.mem = env.mem /\ \A r \in GPR : e.reg[r] = env.reg[r]
<1> DEFINE d == RegV("RIP", 64)
           n == WrittenReg(env.reg["RIP"], Low(y, 64), 64)
<1>1. d \in RegValue /\ d.kind = "reg" /\ d.reg = "RIP" /\ d.width = 64 /\ y \in Int
  BY BuiltValues, WordIsLow DEF RegV
<1>2. "RIP" \in Reg /\ env.reg["RIP"] \in Word /\ env.reg \in [Reg -> Word]
      /\ \A r \in GPR : r # "RIP" /\ r \in Reg
  BY GprIsReg DEF Env
<1>3. Low(y, 64) = y /\ n = y
  BY <1>2, WholeWord
<1> HIDE DEF d
<1>4. Written(d, y, env) = [env EXCEPT !.reg["RIP"] = Held("RIP", n)]
  BY <1>1, WrittenToReg
<1> HIDE DEF n
<1>5. Held("RIP", n) = y
  BY <1>3 DEF Held
<1>6. Written(d, y, env) = [env EXCEPT !.reg["RIP"] = y]
  BY <1>4, <1>5
<1>7. LET e == [env EXCEPT !.reg["RIP"] = y]
      IN e.reg["RIP"] = y /\ e.mem = env.mem /\ \A r \in GPR : e.reg[r] = env.reg[r]
  BY <1>2 DEF Env
<1> QED BY <1>6, <1>7 DEF d

\* What a direct jmp, je or jne assigns to RIP when nothing has touched RIP
\* before and ZF is the processor's.
LEMMA JumpAssigns ==
  ASSUME IInv, NEW x \in Insns, HandleInsn(x),
         x.id \in {"jmp", "je", "jne"}, x.ops[1].type = "imm",
         NEW entry, NEW env, env = Means(Current, entry), env \in Env, env.reg["RIP"] = 0,
         x.id # "jmp" => env.reg["ZF"] \in Bit
  PROVE  LET target == x.ops[1].imm % Modulus[64]
             taken == \/ x.id = "jmp"
                      \/ x.id = "je" /\ env.reg["ZF"] = 1
                      \/ x.id = "jne" /\ env.reg["ZF"] = 0
             y == IF taken THEN target ELSE AddrSize % Modulus[64]
         IN /\ x.ops[1].imm \in Int /\ target \in Word /\ y \in Word
            /\ RunIR(statements', entry) = Written(RegV("RIP", 64), y, env)
<1> DEFINE imm == x.ops[1].imm
           rip == RegV("RIP", 64)
           m == Modulus[64]
<1>1. StateInv(Current) /\ WellFormed(x) /\ rip \in Value /\ RegV("ZF", 64) \in Value
  BY CurrentMeans, LifterAssumption, BuiltValues DEF Value
<1>2. imm \in Int /\ AddrSize \in Int /\ m \in Nat \ {0} /\ m # 1
  <2>1. IsImmOp(x.ops[1])
    BY <1>1 DEF WellFormed, CondJumpIds, IsPlace, IsRegOp, IsMemOp
  <2> QED BY <2>1, LifterAssumption, WidthFacts, ScaleAssumption DEF IsImmOp
<1>3. ASSUME NEW n \in Int
      PROVE  /\ ImmV(n) \in Value /\ ImmV(n) \in Expression /\ n % m \in Word
             /\ EvalValue(ImmV(n), env) = n % m
  <2>1. ImmV(n) \in ImmValue /\ ImmV(n).kind = "imm" /\ ImmV(n).value = n % m
    BY BuiltValues DEF ImmV
  <2> QED BY <1>2, <2>1, ModRange, WordIsLow, ValueIsExpression DEF EvalValue, Value
<1>4. \A st : Handle(x, st) => RunIR(statements', entry) = Means(st, entry)
  BY DEF Handle, Means
<1>5. CASE x.id = "jmp"
  <2>1. HandleJmp(x)
    BY <1>5 DEF HandleInsn, HandleMov, HandlePush, HandlePop, HandlePushfq, HandlePopfq, HandleLea,
                HandleCall, HandleRet, HandleBinary, HandleNeg, HandleConditionalJump,
                SkipUnhandled, HandledIds, MovIds, BinaryIds, CondJumpIds
  <2>2. Handle(x, NewAssign(Current, rip, ImmV(imm)))
    BY <2>1 DEF HandleJmp, JumpTargets
  <2>3. RunIR(statements', entry) = Written(rip, Eval(ImmV(imm), env), env)
    BY <1>1, <1>2, <1>3, <1>4, <2>2, NewAssignMeans
  <2>4. Eval(ImmV(imm), env) = imm % m
    BY <1>2, <1>3, EvalOfBuilt
  <2> QED BY <1>2, <1>3, <1>5, <2>3, <2>4
<1>6. CASE x.id # "jmp"
  <2> DEFINE c == ConditionOf(x.id)
             t == ImmV(imm)
             f == Binary("Add", rip, ImmV(AddrSize))
             e == Conditional(c, t, f)
  <2>1. HandleConditionalJump(x)
    BY <1>6 DEF HandleInsn, HandleMov, HandlePush, HandlePop, HandlePushfq, HandlePopfq, HandleLea,
                HandleCall, HandleRet, HandleBinary, HandleNeg, HandleJmp,
                SkipUnhandled, HandledIds, MovIds, BinaryIds, CondJumpIds
  <2>2. Handle(x, NewAssign(Current, rip, e))
    BY <2>1 DEF HandleConditionalJump, EmitConditionalJump
  <2>3. /\ c \in FlatExpression /\ f \in FlatExpression /\ t \in FlatExpression
        /\ c = Binary(IF x.id = "je" THEN "Eq" ELSE "Ne", RegV("ZF", 64), ImmV(1))
    BY <1>1, <1>2, <1>3, <1>6, BinaryType, ValueIsExpression DEF ConditionOf, BinaryOps
  <2> HIDE DEF c, t, f
  <2>4. e \in Expression
    BY <2>3 DEF Conditional, ConditionalExpression, Expression
  <2>5. RunIR(statements', entry) = Written(rip, Eval(e, env), env)
    BY <1>1, <1>4, <2>2, <2>4, NewAssignMeans
  <2>6. Eval(e, env) = IF EvalFlat(c, env) = 1 THEN EvalFlat(t, env) ELSE EvalFlat(f, env)
    BY DEF Conditional, Eval
  <2>7. EvalFlat(t, env) = imm % m
    BY <1>2, <1>3 DEF t, ImmV, EvalFlat
  <2>8. EvalFlat(f, env) = AddrSize % m
    <3>1. EvalValue(rip, env) = 0
      <4>1. Low(0, 64) = 0
        BY WordIsLow, WholeWord
      <4> QED BY <4>1 DEF EvalValue, RegV
    <3>2. EvalFlat(f, env) = (0 + (AddrSize % m)) % m
      BY <1>2, <1>3, <3>1 DEF f, Binary, EvalFlat, EvalBinary, RegV, WidthOf
    <3>3. (0 + (AddrSize % m)) % m = AddrSize % m
      <4>1. AddrSize % m \in 0..(m - 1)
        BY <1>2, ModRange
      <4>2. 0 + (AddrSize % m) = AddrSize % m
        BY <4>1
      <4> QED BY <1>2, <4>1, <4>2, ModSmall
    <3> QED BY <3>2, <3>3
  <2>9. EvalFlat(c, env) = 1 <=> IF x.id = "je" THEN env.reg["ZF"] = 1 ELSE env.reg["ZF"] = 0
    <3>1. env.reg["ZF"] \in {0, 1} /\ env.reg["ZF"] \in Word
      BY <1>6, GprIsReg DEF Bit, Env
    <3>2. EvalValue(RegV("ZF", 64), env) = env.reg["ZF"]
      BY <3>1, WholeWord DEF EvalValue, RegV
    <3>3. 1 % m = 1
      BY <1>2, ModSmall
    <3>4. EvalValue(ImmV(1), env) = 1
      BY <1>3, <3>3
    <3>5. EvalFlat(c, env) = IF x.id = "je" THEN Holds(env.reg["ZF"] = 1) ELSE Holds(env.reg["ZF"] # 1)
      BY <2>3, <3>2, <3>4 DEF Binary, EvalFlat, EvalBinary
    <3> QED BY <3>1, <3>5 DEF Holds
  <2> QED BY <1>2, <1>3, <1>6, <2>5, <2>6, <2>7, <2>8, <2>9
<1> QED BY <1>5, <1>6


-----------------------------------------------------------------------------
(***************************************************************************)
(* The invariant.                                                          *)
(***************************************************************************)
LinkedSoFar ==
  \A cpu \in Entered :
    /\ Linked(GPR, After(cpu), Meant(cpu))
    /\ RflagsCurrent(Len(source) + 1) => Meant(cpu).reg["RFLAGS"] = FlagsWord(After(cpu))
    /\ EntryFlags(Len(source) + 1) => /\ Meant(cpu).reg["ZF"] = After(cpu).zf
                                      /\ After(cpu).zf \in Bit
    /\ Meant(cpu).reg["RIP"] = 0

FaithfulSoFar == (\A k \in DOMAIN source : ExpressibleAt(k)) => LinkedSoFar

LiftInv == IInv /\ FaithfulSoFar /\ JumpDecided

\* The preconditions, of any block.
EntryIn(c, k) == \A j \in 1..(k - 1) : c[j].id \notin FlagWriters
CurrentIn(c, k) ==
  \/ EntryIn(c, k)
  \/ \E j \in 1..(k - 1) : /\ c[j].id = "popfq"
                           /\ \A i \in (j + 1)..(k - 1) : c[i].id \notin FlagWriters
SpokenFor(c, k) == Expressible(c[k]) \/ (c[k].id = "pushfq" /\ CurrentIn(c, k))

LEMMA PreconditionsOfBlock ==
  /\ \A k : EntryFlags(k) <=> EntryIn(source, k)
  /\ \A k : RflagsCurrent(k) <=> CurrentIn(source, k)
  /\ \A k : ExpressibleAt(k) <=> SpokenFor(source, k)
BY DEF EntryFlags, EntryIn, RflagsCurrent, CurrentIn, ExpressibleAt, SpokenFor

LEMMA NextPreconditions ==
  ASSUME NEW S, NEW c \in Seq(S), NEW x, NEW d, d = Append(c, x)
  PROVE  /\ \A k \in 1..(Len(c) + 1) : /\ EntryIn(d, k) <=> EntryIn(c, k)
                                       /\ CurrentIn(d, k) <=> CurrentIn(c, k)
         /\ \A k \in DOMAIN c : SpokenFor(d, k) <=> SpokenFor(c, k)
         /\ EntryIn(d, Len(d) + 1) => EntryIn(c, Len(c) + 1) /\ x.id \notin FlagWriters
         /\ CurrentIn(d, Len(d) + 1) =>
              x.id = "popfq" \/ (CurrentIn(c, Len(c) + 1) /\ x.id \notin FlagWriters)
<1> DEFINE n == Len(c) + 1
<1>1. /\ Len(c) \in Nat /\ Len(d) = n /\ DOMAIN c = 1..Len(c) /\ DOMAIN d = 1..n
      /\ \A k \in 1..(n - 1) : d[k] = c[k]
      /\ d[n] = x
  OBVIOUS
<1> HIDE DEF n
<1>2. n \in Nat \ {0} /\ n - 1 = Len(c) /\ Len(c) + 1 = n
  BY <1>1 DEF n
<1>3. ASSUME NEW k \in 1..n
      PROVE  (EntryIn(d, k) <=> EntryIn(c, k)) /\ (CurrentIn(d, k) <=> CurrentIn(c, k))
  <2>1. \A j \in 1..(k - 1) : j \in 1..(n - 1) /\ d[j] = c[j]
    BY <1>1, <1>2, <1>3
  <2>2. EntryIn(d, k) <=> EntryIn(c, k)
    BY <2>1 DEF EntryIn
  <2>3. \A j \in 1..(k - 1) : \A i \in (j + 1)..(k - 1) : i \in 1..(k - 1)
    BY <1>2
  <2> QED BY <2>1, <2>2, <2>3 DEF CurrentIn
<1>4. \A k \in DOMAIN c : SpokenFor(d, k) <=> SpokenFor(c, k)
  BY <1>1, <1>2, <1>3 DEF SpokenFor
<1>5. EntryIn(d, n + 1) => EntryIn(c, n) /\ x.id \notin FlagWriters
  BY <1>1, <1>2 DEF EntryIn
<1>6. ASSUME CurrentIn(d, n + 1), x.id # "popfq"
      PROVE  CurrentIn(c, n) /\ x.id \notin FlagWriters
  <2>1. CASE EntryIn(d, n + 1)
    BY <1>5, <2>1 DEF CurrentIn
  <2>2. CASE ~EntryIn(d, n + 1)
    <3>1. PICK j \in 1..n : /\ d[j].id = "popfq"
                            /\ \A i \in (j + 1)..n : d[i].id \notin FlagWriters
      BY <1>2, <1>6, <2>2 DEF CurrentIn
    <3>2. j # n /\ j \in 1..(n - 1)
      BY <1>1, <1>2, <1>6, <3>1
    <3>3. n \in (j + 1)..n /\ \A i \in (j + 1)..(n - 1) : i \in (j + 1)..n /\ i \in 1..(n - 1)
      BY <1>2, <3>2
    <3>4. x.id \notin FlagWriters
      BY <1>1, <3>1, <3>3
    <3>5. c[j].id = "popfq" /\ \A i \in (j + 1)..(n - 1) : c[i].id \notin FlagWriters
      BY <1>1, <3>1, <3>2, <3>3
    <3> QED BY <3>2, <3>4, <3>5 DEF CurrentIn
  <2> QED BY <2>1, <2>2
<1> QED BY <1>1, <1>2, <1>3, <1>4, <1>5, <1>6

LEMMA InitEstablishesLift == Init => LiftInv
<1> SUFFICES ASSUME Init PROVE LiftInv
  OBVIOUS
<1>1. IInv /\ source = <<>> /\ statements = <<>>
  BY InitEstablishesIInv DEF Init
<1>2. LinkedSoFar
  <2> SUFFICES ASSUME NEW cpu \in Entered
               PROVE  /\ Linked(GPR, After(cpu), Meant(cpu))
                      /\ Meant(cpu).reg["RFLAGS"] = FlagsWord(After(cpu))
                      /\ Meant(cpu).reg["ZF"] = After(cpu).zf /\ After(cpu).zf \in Bit
                      /\ Meant(cpu).reg["RIP"] = 0
    BY DEF LinkedSoFar
  <2>1. After(cpu) = cpu /\ Meant(cpu) = EnvOf(cpu)
    BY <1>1, RunNothing, RunIRNothing DEF After, Meant
  <2> QED BY <2>1, EnteredIsLinked
<1>3. JumpDecided
  BY <1>1 DEF JumpDecided, EndsInJump
<1> QED BY <1>1, <1>2, <1>3 DEF LiftInv, FaithfulSoFar

\* The next instruction, of a block the IR speaks for.
LEMMA InsnKeepsLinked ==
  ASSUME LiftInv, NEW x \in Insns, HandleInsn(x), source' = Append(source, x),
         (\A k \in DOMAIN source : ExpressibleAt(k))'
  PROVE  LinkedSoFar'
<1> DEFINE d == source'
<1>1. source \in Seq(Insns) /\ IInv /\ StateInv(Current)
  BY CurrentMeans DEF LiftInv, IInv, TypeOK
<1>2. /\ \A k \in DOMAIN d : SpokenFor(d, k)
      /\ RflagsCurrent(Len(source) + 1)' <=> CurrentIn(d, Len(d) + 1)
      /\ EntryFlags(Len(source) + 1)' <=> EntryIn(d, Len(d) + 1)
  BY Zenon DEF ExpressibleAt, SpokenFor, RflagsCurrent, CurrentIn, EntryFlags, EntryIn
<1>3. d = Append(source, x)
  OBVIOUS
<1> HIDE DEF d
<1>4. /\ Len(d) = Len(source) + 1 /\ d[Len(d)] = x /\ Len(d) \in DOMAIN d
      /\ DOMAIN source \subseteq DOMAIN d
  BY <1>1, <1>3
<1>5. \A k \in DOMAIN source : ExpressibleAt(k)
  BY <1>1, <1>2, <1>3, <1>4, NextPreconditions, PreconditionsOfBlock
<1>6. /\ Expressible(x) \/ (x.id = "pushfq" /\ RflagsCurrent(Len(source) + 1))
      /\ EntryIn(d, Len(d) + 1) => EntryFlags(Len(source) + 1) /\ x.id \notin FlagWriters
      /\ CurrentIn(d, Len(d) + 1) =>
           x.id = "popfq" \/ (RflagsCurrent(Len(source) + 1) /\ x.id \notin FlagWriters)
  <2>1. Len(source) + 1 \in 1..(Len(source) + 1)
    BY <1>1
  <2>2. CurrentIn(d, Len(d)) <=> CurrentIn(source, Len(source) + 1)
    BY <1>1, <1>3, <1>4, <2>1, NextPreconditions
  <2>3. SpokenFor(d, Len(d))
    BY <1>2, <1>4
  <2>4. Expressible(x) \/ (x.id = "pushfq" /\ CurrentIn(source, Len(source) + 1))
    BY <1>4, <2>2, <2>3 DEF SpokenFor
  <2>5. /\ EntryIn(d, Len(d) + 1) => EntryIn(source, Len(source) + 1) /\ x.id \notin FlagWriters
        /\ CurrentIn(d, Len(d) + 1) =>
             x.id = "popfq" \/ (CurrentIn(source, Len(source) + 1) /\ x.id \notin FlagWriters)
    BY <1>1, <1>3, NextPreconditions
  <2> QED BY <2>4, <2>5, PreconditionsOfBlock
<1>7. LinkedSoFar
  BY <1>5 DEF LiftInv, FaithfulSoFar
<1>8. ASSUME NEW cpu \in Entered
      PROVE  LET b == After(cpu)
                 c == Run(source', cpu)
                 env == Meant(cpu)
                 after == RunIR(statements', EnvOf(cpu))
             IN c = Exec(x, b) /\ Follows(x, b, env, after)
  <2> DEFINE b == After(cpu)
             env == Meant(cpu)
             entry == EnvOf(cpu)
  <2>1. Run(source', cpu) = Exec(x, b)
    BY <1>1, RunAppend DEF After
  <2>2. env = Means(Current, entry)
    BY <1>1, CurrentMeans DEF Meant
  <2>3. Linked(GPR, b, env) /\ (RflagsCurrent(Len(source) + 1) => env.reg["RFLAGS"] = FlagsWord(b))
    BY <1>7 DEF LinkedSoFar
  <2>4. x.id = "pushfq" => env.reg["RFLAGS"] = FlagsWord(b)
    <3>1. x.id = "pushfq" => ~Expressible(x)
      BY DEF Expressible, DataIds, MovIds
    <3> QED BY <1>6, <2>3, <3>1
  <2> HIDE DEF b, env, entry
  <2>5. Follows(x, b, env, RunIR(statements', entry))
    BY <1>1, <1>6, <2>2, <2>3, <2>4, InsnFollows
  <2> QED BY <2>1, <2>5 DEF b, env, entry
<1>9. ASSUME NEW cpu \in Entered
      PROVE  LET c == Run(source', cpu)
                 after == RunIR(statements', EnvOf(cpu))
             IN /\ Linked(GPR, c, after)
                /\ CurrentIn(d, Len(d) + 1) => after.reg["RFLAGS"] = FlagsWord(c)
                /\ EntryIn(d, Len(d) + 1) => after.reg["ZF"] = c.zf /\ c.zf \in Bit
                /\ after.reg["RIP"] = 0
  <2> DEFINE b == After(cpu)
             c == Run(source', cpu)
             env == Meant(cpu)
             after == RunIR(statements', EnvOf(cpu))
  <2>1. c = Exec(x, b) /\ Follows(x, b, env, after)
    BY <1>8
  <2>2. /\ RflagsCurrent(Len(source) + 1) => env.reg["RFLAGS"] = FlagsWord(b)
        /\ EntryFlags(Len(source) + 1) => env.reg["ZF"] = b.zf /\ b.zf \in Bit
        /\ env.reg["RIP"] = 0
    BY <1>7 DEF LinkedSoFar
  <2> HIDE DEF b, c, env, after
  <2>3. Linked(GPR, c, after) /\ after.reg["RIP"] = 0 /\ after.reg["ZF"] = env.reg["ZF"]
    BY <2>1, <2>2 DEF Follows
  <2>4. x.id \notin FlagWriters => SameFlags(c, b) /\ after.reg["RFLAGS"] = env.reg["RFLAGS"]
    BY <2>1 DEF Follows
  <2>5. CurrentIn(d, Len(d) + 1) => after.reg["RFLAGS"] = FlagsWord(c)
    <3>1. CASE x.id = "popfq"
      BY <2>1, <3>1 DEF Follows
    <3>2. CASE x.id # "popfq"
      BY <1>6, <2>2, <2>4, <3>2, FlagsWordKept
    <3> QED BY <3>1, <3>2
  <2>6. EntryIn(d, Len(d) + 1) => after.reg["ZF"] = c.zf /\ c.zf \in Bit
    BY <1>6, <2>2, <2>3, <2>4 DEF SameFlags
  <2> QED BY <2>3, <2>5, <2>6 DEF c, after
<1> QED BY <1>2, <1>9 DEF LinkedSoFar, After, Meant


\* A jump that ends a block the IR speaks for.
LEMMA JumpDecidedNext ==
  ASSUME LiftInv, NEW x \in Insns, HandleInsn(x), source' = Append(source, x)
  PROVE  JumpDecided'
<1> SUFFICES ASSUME EndsInJump', NEW cpu \in CPUs
             PROVE  LET target == x.ops[1].imm % Modulus[64]
                        c == Run(source', cpu)
                        after == RunIR(statements', EnvOf(cpu))
                    IN (c.exit = target <=> after.reg["RIP"] = target) /\ SameData(c, after)
  <2>1. source \in Seq(Insns)
    BY DEF LiftInv, IInv, TypeOK
  <2>2. Last(source)' = x
    BY <2>1 DEF Last
  <2> QED BY <2>2, Zenon DEF JumpDecided, After, Meant
<1> DEFINE d == source'
           n == Len(source) + 1
<1>1. source \in Seq(Insns) /\ IInv /\ cpu \in Entered
  BY CPUsAssumption DEF LiftInv, IInv, TypeOK
<1>2. d = Append(source, x) /\ Len(d) = n /\ d[n] = x /\ n \in 1..n /\ n - 1 = Len(source)
      /\ DOMAIN source = 1..Len(source)
  BY <1>1
<1>3. /\ Last(d).id \in {"jmp", "je", "jne"} /\ Last(d).ops[1].type = "imm"
      /\ Last(d).id # "jmp" =>
           EntryIn(d, Len(d)) /\ Last(d).ops[1].imm % Modulus[64] # AddrSize % Modulus[64]
      /\ \A k \in 1..(Len(d) - 1) : SpokenFor(d, k)
  BY Zenon DEF EndsInJump, EntryFlags, EntryIn, ExpressibleAt, SpokenFor, RflagsCurrent, CurrentIn
<1> HIDE DEF d
<1>4. Last(d) = x
  BY <1>2 DEF Last
<1>5. \A k \in DOMAIN source : ExpressibleAt(k)
  <2>1. \A k \in DOMAIN source : SpokenFor(d, k)
    BY <1>2, <1>3
  <2> QED BY <1>1, <1>2, <2>1, NextPreconditions, PreconditionsOfBlock
<1>6. x.id # "jmp" => EntryFlags(n)
  <2>1. EntryIn(d, n) <=> EntryIn(source, n)
    BY <1>1, <1>2, NextPreconditions
  <2> QED BY <1>2, <1>3, <1>4, <2>1, PreconditionsOfBlock
<1> DEFINE b == After(cpu)
           env == Meant(cpu)
           entry == EnvOf(cpu)
           target == x.ops[1].imm % Modulus[64]
<1>7. /\ Linked(GPR, b, env) /\ env.reg["RIP"] = 0
      /\ x.id # "jmp" => env.reg["ZF"] = b.zf /\ b.zf \in Bit
  BY <1>1, <1>5, <1>6 DEF LiftInv, FaithfulSoFar, LinkedSoFar
<1>8. Run(source', cpu) = Exec(x, b) /\ env = Means(Current, entry)
  BY <1>1, RunAppend, CurrentMeans DEF After, Meant
<1> HIDE DEF b, env, entry
<1>9. /\ x.id \in {"jmp", "je", "jne"} /\ x.ops[1].type = "imm"
      /\ x.id # "jmp" => target # AddrSize % Modulus[64]
  BY <1>3, <1>4
<1>10. env \in Env /\ b \in Machine /\ b.exit = FallsThrough
  BY <1>7 DEF Linked
<1> DEFINE taken == \/ x.id = "jmp"
                    \/ x.id = "je" /\ env.reg["ZF"] = 1
                    \/ x.id = "jne" /\ env.reg["ZF"] = 0
           y == IF taken THEN target ELSE AddrSize % Modulus[64]
<1>11. /\ target \in Word /\ y \in Word
       /\ RunIR(statements', entry) = Written(RegV("RIP", 64), y, env)
  BY <1>1, <1>7, <1>8, <1>9, <1>10, JumpAssigns
<1>12. Exec(x, b) = IF taken THEN [b EXCEPT !.exit = target] ELSE b
  <2>1. Taken(x.id, b) <=> taken
    BY <1>7, <1>9 DEF Taken
  <2>2. x.id \in JumpIds
    BY <1>9 DEF JumpIds, CondJumpIds
  <2> QED BY <1>10, <2>1, <2>2, ExecuteIs
<1>13. taken \/ y # target
  BY <1>9
<1> HIDE DEF taken
<1>14. y = target <=> taken
  BY <1>13
<1> HIDE DEF y, target
<1> DEFINE c == Exec(x, b)
           after == Written(RegV("RIP", 64), y, env)
<1>15. after.reg["RIP"] = y /\ after.mem = env.mem /\ \A r \in GPR : after.reg[r] = env.reg[r]
  BY <1>10, <1>11, RipWritten
<1>16. /\ c.gpr = b.gpr /\ c.mem = b.mem
       /\ c.exit = IF taken THEN target ELSE FallsThrough
  BY <1>10, <1>12 DEF Machine
<1>17. c.exit = target <=> taken
  <2>1. target # FallsThrough
    BY <1>11, WidthFacts DEF Word, FallsThrough
  <2> QED BY <1>16, <2>1
<1> HIDE DEF c, after
<1>18. SameData(c, after)
  <2>1. SameData(b, env)
    BY <1>7, LinkedMeansSameData
  <2> QED BY <1>15, <1>16, <2>1 DEF SameData
<1>19. c.exit = target <=> after.reg["RIP"] = target
  BY <1>14, <1>15, <1>17
<1> QED BY <1>8, <1>11, <1>18, <1>19 DEF c, after, target, entry

LEMMA NextKeepsLift == LiftInv /\ [Next]_vars => LiftInv'
<1> SUFFICES ASSUME LiftInv, [Next]_vars PROVE FaithfulSoFar' /\ JumpDecided'
  BY NextKeepsIInv DEF LiftInv
<1>1. CASE StartLift
  <2>1. source' = <<>> /\ statements' = <<>>
    BY <1>1 DEF StartLift
  <2>2. JumpDecided'
    BY <2>1 DEF JumpDecided, EndsInJump
  <2>3. LinkedSoFar'
    <3> SUFFICES ASSUME NEW cpu \in Entered
                 PROVE  LET c == Run(source', cpu)
                            e == RunIR(statements', EnvOf(cpu))
                        IN /\ Linked(GPR, c, e) /\ e.reg["RFLAGS"] = FlagsWord(c)
                           /\ e.reg["ZF"] = c.zf /\ c.zf \in Bit /\ e.reg["RIP"] = 0
      BY DEF LinkedSoFar, After, Meant
    <3>1. Run(source', cpu) = cpu /\ RunIR(statements', EnvOf(cpu)) = EnvOf(cpu)
      BY <2>1, RunNothing, RunIRNothing
    <3> QED BY <3>1, EnteredIsLinked
  <2> QED BY <2>2, <2>3 DEF FaithfulSoFar
<1>2. CASE DisassemblyFails \/ FinishLift \/ UNCHANGED vars
  <2>1. source' = source /\ statements' = statements
    BY <1>2 DEF DisassemblyFails, FinishLift, vars
  <2> QED BY <2>1 DEF LiftInv, FaithfulSoFar, LinkedSoFar, JumpDecided, EndsInJump, ExpressibleAt,
                      EntryFlags, RflagsCurrent, After, Meant
<1>3. CASE \E x \in Insns : HandleInsn(x)
  <2>1. PICK x \in Insns : HandleInsn(x)
    BY <1>3
  <2>2. source' = Append(source, x)
    BY <2>1 DEF HandleInsn, HandleMov, HandlePush, HandlePop, HandlePushfq, HandlePopfq, HandleLea,
                HandleJmp, HandleCall, HandleRet, HandleBinary, HandleNeg, HandleConditionalJump,
                SkipUnhandled, Handle
  <2>3. FaithfulSoFar'
    BY <2>1, <2>2, InsnKeepsLinked DEF FaithfulSoFar
  <2> QED BY <2>1, <2>2, <2>3, JumpDecidedNext
<1> QED BY <1>1, <1>2, <1>3 DEF Next

\* Whatever the block, the word sizes and the state it is entered in, the
\* statements lifted so far leave registers and memory as the processor does.
THEOREM DataPreservedHolds == Spec => []DataPreserved
<1>1. LiftInv => DataPreserved
  <2> SUFFICES ASSUME LiftInv, \A k \in DOMAIN source : ExpressibleAt(k), NEW cpu \in CPUs
               PROVE  SameData(After(cpu), Meant(cpu))
    BY DEF DataPreserved
  <2>1. LinkedSoFar /\ cpu \in Entered
    BY CPUsAssumption DEF LiftInv, FaithfulSoFar
  <2> QED BY <2>1, LinkedMeansSameData DEF LinkedSoFar
<1> QED BY <1>1, InitEstablishesLift, NextKeepsLift, PTL DEF Spec

\* Whatever the block in front of it, a direct jmp, je or jne selects its target
\* in the IR exactly when the processor jumps there.
THEOREM JumpDecidedHolds == Spec => []JumpDecided
<1>1. LiftInv => JumpDecided
  BY DEF LiftInv
<1> QED BY <1>1, InitEstablishesLift, NextKeepsLift, PTL DEF Spec
=============================================================================
