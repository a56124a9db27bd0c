--------------------------- MODULE PipelineProofs ---------------------------
(***************************************************************************)
(* Proofs about the composition, for blocks of any length: the pipeline    *)
(* follows the protocol of BlockTranslator, what the lifter establishes of *)
(* the stream survives the simplifier, at every point of its walk, and     *)
(* without the simplifier each instruction is recompiled on its own.       *)
(***************************************************************************)
EXTENDS Pipeline, LifterProofs, ExecutionProofs, SequenceTheorems

-----------------------------------------------------------------------------
(***************************************************************************)
(* The protocol.                                                           *)
(***************************************************************************)
ProtocolInv ==
  /\ stage \in {"lift", "simplify", "compile"}
  /\ stage # "compile" => status = "compiling"
  /\ stage # "lift" \/ phase = "done" => source # <<>>

LEMMA ProtocolInvInit == PipelineInit => ProtocolInv
BY DEF PipelineInit, Init, ProtocolInv

LEMMA ProtocolInvNext == ProtocolInv /\ [PipelineNext]_pipelineVars => ProtocolInv'
<1> SUFFICES ASSUME ProtocolInv, [PipelineNext]_pipelineVars PROVE ProtocolInv'
  OBVIOUS
<1>1. CASE Lift
  <2>1. stage = "lift" /\ stage' = stage /\ status' = status
    BY <1>1 DEF Lift, laterVars
  <2>2. phase' = "done" => source' # <<>>
    <3>1. CASE StartLift \/ DisassemblyFails \/ FinishLift
      BY <3>1 DEF StartLift, DisassemblyFails, FinishLift
    <3>2. CASE \E x \in Insns : HandleInsn(x)
      BY <3>2 DEF HandleInsn, HandleMov, HandlePush, HandlePop, HandlePushfq, HandlePopfq,
                  HandleLea, HandleJmp, HandleCall, HandleRet, HandleBinary, HandleNeg,
                  HandleConditionalJump, SkipUnhandled, Handle
    <3> QED BY <1>1, <3>1, <3>2 DEF Lift, Next
  <2> QED BY <2>1, <2>2 DEF ProtocolInv
<1>2. CASE BeginSimplify \/ SkipSimplify
  BY <1>2 DEF BeginSimplify, SkipSimplify, HandOver, ProtocolInv, vars
<1>3. CASE Simplify \/ BeginCompile
  BY <1>3 DEF Simplify, BeginCompile, ProtocolInv, vars
<1>4. CASE Compile
  BY <1>4 DEF Compile, ProtocolInv, vars
<1>5. CASE UNCHANGED pipelineVars
  BY <1>5 DEF pipelineVars, laterVars, vars, ProtocolInv
<1> QED BY <1>1, <1>2, <1>3, <1>4, <1>5 DEF PipelineNext

LEMMA ProtocolStep ==
  ProtocolInv /\ [PipelineNext]_pipelineVars => [T!ProtocolNext]_(T!translatorVars)
<1> SUFFICES ASSUME ProtocolInv, [PipelineNext]_pipelineVars
             PROVE  T!ProtocolNext \/ UNCHANGED (T!translatorVars)
  OBVIOUS
<1> USE DEF T!translatorVars
<1>1. CASE Lift
  <2>1. stage = "lift" /\ stage' = "lift" /\ status = "compiling" /\ status' = "compiling"
    BY <1>1 DEF Lift, laterVars, ProtocolInv
  <2>2. CASE StartLift
    BY <2>1, <2>2 DEF StartLift, T!ProtocolNext, T!TryAgain
  <2>3. CASE DisassemblyFails
    BY <2>1, <2>3 DEF DisassemblyFails, T!ProtocolNext, T!RefuseBytes
  <2>4. CASE FinishLift
    BY <2>1, <2>4 DEF FinishLift
  <2>5. CASE \E x \in Insns : HandleInsn(x)
    <3>1. phase = "lifting" /\ phase' = phase
      BY <2>5 DEF HandleInsn, HandleMov, HandlePush, HandlePop, HandlePushfq, HandlePopfq,
                  HandleLea, HandleJmp, HandleCall, HandleRet, HandleBinary, HandleNeg,
                  HandleConditionalJump, SkipUnhandled, Handle
    <3> QED BY <2>1, <3>1
  <2> QED BY <1>1, <2>2, <2>3, <2>4, <2>5 DEF Lift, Next
<1>2. CASE BeginSimplify \/ SkipSimplify
  <2>1. /\ stage = "lift" /\ phase = "done" /\ status = "compiling" /\ source # <<>>
        /\ stage' \in {"simplify", "compile"} /\ status' = status /\ source' = source
    BY <1>2 DEF BeginSimplify, SkipSimplify, HandOver, vars, ProtocolInv
  <2> QED BY <2>1 DEF T!ProtocolNext, T!Take
<1>3. CASE Simplify \/ BeginCompile
  <2>1. /\ stage = "simplify" /\ stage' \in {"simplify", "compile"} /\ status = "compiling"
        /\ status' = status /\ source' = source
    BY <1>3 DEF Simplify, BeginCompile, vars, ProtocolInv
  <2> QED BY <2>1
<1>4. CASE Compile
  <2>1. stage = "compile" /\ stage' = stage /\ source' = source
    BY <1>4 DEF Compile, vars
  <2>2. status = "compiling" /\ status' \in {"compiling", "done", "threw"}
    BY <1>4 DEF Compile, R!Next, R!CompilePair, R!CompileStatement, R!Finalize, R!Emit
  <2>3. CASE status' = "compiling"
    BY <2>1, <2>2, <2>3
  <2>4. CASE status' = "done"
    BY <2>1, <2>2, <2>4 DEF T!ProtocolNext, T!Delivers
  <2>5. CASE status' = "threw"
    BY <2>1, <2>2, <2>5 DEF T!ProtocolNext, T!Refuses
  <2> QED BY <2>2, <2>3, <2>4, <2>5
<1>5. CASE UNCHANGED pipelineVars
  BY <1>5 DEF pipelineVars, laterVars, vars
<1> QED BY <1>1, <1>2, <1>3, <1>4, <1>5 DEF PipelineNext

\* Whatever the block: it is taken once it was lifted, gets one answer, which
\* nothing takes back, and no code of a block that is refused or unfinished is seen.
THEOREM FollowsProtocol == PipelineSpec => T!ProtocolSpec
<1>1. PipelineInit => T!TranslatorInit
  BY DEF PipelineInit, Init, T!TranslatorInit
<1> QED BY <1>1, ProtocolInvInit, ProtocolInvNext, ProtocolStep, PTL
        DEF PipelineSpec, T!ProtocolSpec

-----------------------------------------------------------------------------
(***************************************************************************)
(* The stream.                                                             *)
(***************************************************************************)

\* What the simplifier makes of an expression.
LEMMA RewriteShape ==
  ASSUME NEW e, NEW x, x = S!SimplifyExpr(e)
  PROVE  \/ x = e
         \/ e.kind = "bin" /\ x = ImmV(0)
         \/ e.kind = "bin" /\ x = Unary("LogicalNot", e.left)
         \/ e.kind = "bin" /\ e.right.kind = "imm" /\ x = Binary("Sub", e.left, ImmV(-e.right.value))
<1> DEFINE d == S!SubtractsInstead(e)
           masked == /\ e.op = "BitXor" /\ e.left.kind = "reg" /\ e.right.kind = "imm"
                     /\ S!IsAllOnes(e.right.value, e.left.width)
           cancels == e.op = "BitXor" /\ S!SameValue(e.left, e.right)
           vanishes == d.op = "Sub" /\ S!SameValue(d.left, d.right)
<1>1. /\ \A n : S!ImmV(n) = ImmV(n)
      /\ \A op, a : S!Unary(op, a) = Unary(op, a)
      /\ \A op, a, b : S!Binary(op, a, b) = Binary(op, a, b)
  BY DEF S!ImmV, ImmV, S!Unary, Unary, S!Binary, Binary
<1>2. d = e \/ (e.right.kind = "imm" /\ d = Binary("Sub", e.left, ImmV(-e.right.value)))
  BY <1>1, Zenon DEF S!SubtractsInstead, S!Negatable
<1>3. S!SimplifyBinary(e) =
        CASE masked -> S!Unary("LogicalNot", e.left)
          [] cancels -> S!ImmV(0)
          [] OTHER -> IF vanishes THEN S!ImmV(0) ELSE d
  BY Zenon DEF S!SimplifyBinary
<1>4. masked => ~cancels
  BY DEF S!SameValue, S!SameRegister
<1> HIDE DEF masked, cancels, vanishes, d
<1>5. S!SimplifyBinary(e) \in {S!Unary("LogicalNot", e.left), S!ImmV(0), d}
  BY <1>3, <1>4, Zenon
<1>6. x = IF e.kind = "bin" THEN S!SimplifyBinary(e) ELSE e
  BY DEF S!SimplifyExpr
<1> QED BY <1>1, <1>2, <1>5, <1>6

\* A rewritten statement is a statement with the same destination, it reads no
\* more, and if it updated its destination in place it still does.
LEMMA RewriteKeeps ==
  ASSUME NEW s \in Statement, InPlace(s), NEW t, t = S!SimplifyStatement(s)
  PROVE  /\ t \in Statement /\ InPlace(t)
         /\ StatementReads(t) \subseteq StatementReads(s)
         /\ \A r \in Reg : Defines(t, r) <=> Defines(s, r)
         /\ \A r \in Reg : Defines(s, r) => t.dst = s.dst
<1> DEFINE e == s.value
           x == S!SimplifyExpr(e)
<1>1. e \in Expression /\ t = [s EXCEPT !.value = x]
  BY DEF Statement, AssignStatement, StoreStatement, S!SimplifyStatement
<1>2. e.kind = "bin" => e \in BinaryExpression /\ e.left \in Value /\ e.right \in Value
  BY <1>1 DEF Expression, FlatExpression, Value, RegValue, ImmValue, MemoryValue,
              UnaryExpression, BinaryExpression, ConditionalExpression
<1>3. /\ x \in Expression /\ Reads(x) \subseteq Reads(e)
      /\ x.kind = "bin" => /\ e.kind = "bin" /\ x.left = e.left
                           /\ x.right = e.right \/ x.right.kind = "imm"
      /\ x.kind = "un" => \/ x = e
                          \/ e.kind = "bin" /\ x.operand = e.left
  <2>1. CASE x = e
    BY <1>1, <2>1
  <2>2. CASE e.kind = "bin" /\ x = ImmV(0)
    <3>1. x \in ImmValue
      BY <2>2, BuiltValues
    <3> QED BY <3>1 DEF ImmValue, Value, FlatExpression, Expression, Reads, FlatReads, ValueReads
  <2>3. CASE e.kind = "bin" /\ x = Unary("LogicalNot", e.left)
    <3>1. x.kind = "un" /\ x.operand = e.left /\ x \in Expression
      BY <1>2, <2>3 DEF Unary, UnaryExpression, UnaryOps, FlatExpression, Expression
    <3>2. Reads(x) = ValueReads(e.left) /\ Reads(e) = ValueReads(e.left) \cup ValueReads(e.right)
      BY <2>3, <3>1 DEF Reads, FlatReads
    <3> HIDE DEF x
    <3> QED BY <2>3, <3>1, <3>2
  <2>4. CASE /\ e.kind = "bin" /\ e.right.kind = "imm"
             /\ x = Binary("Sub", e.left, ImmV(-e.right.value))
    <3>1. e.right.value \in Int
      <4>1. e.right \in ImmValue
        BY <1>2, <2>4 DEF Value, RegValue, ImmValue, MemoryValue
      <4> QED BY <4>1 DEF ImmValue, Word
    <3>2. -e.right.value \in Int
      BY <3>1
    <3> DEFINE neg == ImmV(-e.right.value)
    <3>3. neg \in ImmValue
      BY <3>2, BuiltValues
    <3> HIDE DEF neg
    <3>4. x = Binary("Sub", e.left, neg)
      BY <2>4 DEF neg
    <3>5. x \in Expression /\ x.kind = "bin" /\ x.left = e.left /\ x.right = neg
      BY <1>2, <2>4, <3>3, <3>4, BinaryType DEF Binary, BinaryOps, Value
    <3>6. ValueReads(neg) = {}
      BY <3>3 DEF ImmValue, ValueReads
    <3>7. Reads(x) = ValueReads(e.left) /\ Reads(e) = ValueReads(e.left) \cup ValueReads(e.right)
      BY <2>4, <3>5, <3>6 DEF Reads, FlatReads
    <3> HIDE DEF x
    <3>8. neg.kind = "imm"
      BY <3>3 DEF ImmValue
    <3> QED BY <2>4, <3>5, <3>7, <3>8
  <2> QED BY <2>1, <2>2, <2>3, <2>4, RewriteShape
<1> HIDE DEF x
<1>4. /\ t \in Statement /\ t.kind = s.kind /\ t.value = x
      /\ s.kind = "store" => t.address = s.address
      /\ s.kind # "store" => t.dst = s.dst
  BY <1>1, <1>3 DEF Statement, AssignStatement, StoreStatement
<1>5. StatementReads(t) \subseteq StatementReads(s)
  BY <1>3, <1>4 DEF StatementReads
<1>6. Destination(t) = Destination(s)
  BY <1>4 DEF Destination
<1>7. InPlace(t)
  BY <1>3, <1>4, <1>6 DEF InPlace, BothMemory
<1>8. \A r \in Reg : (Defines(t, r) <=> Defines(s, r)) /\ (Defines(s, r) => t.dst = s.dst)
  BY <1>4 DEF Defines
<1> QED BY <1>4, <1>5, <1>7, <1>8

\* And the operator of a store stays an operator: it has memory on its left and
\* none on its right, so neither the register of rule 1a nor two operands alike.
LEMMA StoredOperatorStays ==
  ASSUME NEW s \in Statement, InPlace(s), s.kind = "store"
  PROVE  S!SimplifyStatement(s).value.kind = s.value.kind
<1> DEFINE e == s.value
           d == S!SubtractsInstead(e)
<1>1. /\ s \in StoreStatement /\ e \in Expression /\ s.address.kind = "mem"
      /\ S!SimplifyStatement(s).value = S!SimplifyExpr(e)
  BY DEF Statement, AssignStatement, StoreStatement, MemoryValue, S!SimplifyStatement
<1>2. CASE e.kind # "bin"
  BY <1>1, <1>2 DEF S!SimplifyExpr
<1>3. CASE e.kind = "bin"
  <2>1. SamePlace(s.address, e.left) /\ e.right.kind # "mem"
    BY <1>1, <1>3 DEF InPlace, Destination, BothMemory
  <2>2. e.left.kind = "mem"
    BY <1>1, <2>1 DEF SamePlace
  <2>3. ~(e.op = "BitXor" /\ S!SameValue(e.left, e.right))
    BY <2>1, <2>2 DEF S!SameValue
  <2>4. \/ d = e
        \/ d = S!Binary("Sub", e.left, S!ImmV(-e.right.value))
    BY Zenon DEF S!SubtractsInstead
  <2>5. d.kind = "bin" /\ d.left = e.left /\ d.right.kind # "mem"
    BY <1>3, <2>1, <2>4 DEF S!Binary, S!ImmV
  <2> HIDE DEF d
  <2>6. ~(d.op = "Sub" /\ S!SameValue(d.left, d.right))
    BY <2>2, <2>5 DEF S!SameValue
  <2>7. S!SimplifyBinary(e) = d
    BY <2>2, <2>3, <2>6 DEF S!SimplifyBinary, d
  <2> QED BY <1>1, <1>3, <2>5, <2>7 DEF S!SimplifyExpr
<1> QED BY <1>2, <1>3

\* Of such a rewrite no definition and no use of the stream takes notice.
GoodStream(ss) ==
  ss \in Seq(Statement) /\ SSAIds(ss) /\ ReadsReach(ss) /\ AllInPlace(ss)

LEMMA RewriteKeepsStream ==
  ASSUME NEW ss, GoodStream(ss), NEW p \in Nat \ {0}, p <= Len(ss)
  PROVE  GoodStream([ss EXCEPT ![p] = S!SimplifyStatement(ss[p])])
<1> DEFINE t == S!SimplifyStatement(ss[p])
           ts == [ss EXCEPT ![p] = t]
<1>1. ss \in Seq(Statement) /\ p \in DOMAIN ss /\ ss[p] \in Statement /\ InPlace(ss[p])
      /\ DOMAIN ss = 1..Len(ss) /\ Len(ss) \in Nat
  BY DEF GoodStream, AllInPlace
<1>2. /\ t \in Statement /\ InPlace(t) /\ StatementReads(t) \subseteq StatementReads(ss[p])
      /\ \A r \in Reg : Defines(t, r) <=> Defines(ss[p], r)
      /\ \A r \in Reg : Defines(ss[p], r) => t.dst = ss[p].dst
  BY <1>1, RewriteKeeps
<1> HIDE DEF t
<1>3. /\ ts \in Seq(Statement) /\ DOMAIN ts = DOMAIN ss
      /\ \A n \in DOMAIN ss : ts[n] = IF n = p THEN t ELSE ss[n]
  BY <1>1, <1>2
<1> HIDE DEF ts
<1>4. ASSUME NEW n \in DOMAIN ss
      PROVE  /\ InPlace(ts[n]) /\ StatementReads(ts[n]) \subseteq StatementReads(ss[n])
             /\ \A r \in Reg : Defines(ts[n], r) <=> Defines(ss[n], r)
             /\ \A r \in Reg : Defines(ss[n], r) => ts[n].dst = ss[n].dst
  BY <1>2, <1>3 DEF GoodStream, AllInPlace
<1>5. SSAIds(ts)
  BY <1>3, <1>4 DEF GoodStream, SSAIds
<1>6. ReadsReach(ts)
  <2> SUFFICES ASSUME NEW n \in DOMAIN ss, NEW u \in StatementReads(ts[n])
               PROVE  ReachesRead(ts, n, u)
    BY <1>3 DEF ReadsReach
  <2>1. u \in StatementReads(ss[n]) /\ ReachesRead(ss, n, u)
    BY <1>4 DEF GoodStream, ReadsReach
  <2>2. u.reg \in Reg
    BY <1>1, <2>1, ReadsAreRegisters
  <2>3. CASE \E k \in DOMAIN ss : ReachingDef(ss, k, n, u.reg) /\ ss[k].dst.ssa_id = u.ssa_id
    <3>1. PICK k \in DOMAIN ss : ReachingDef(ss, k, n, u.reg) /\ ss[k].dst.ssa_id = u.ssa_id
      BY <2>3
    <3>2. n \in Nat /\ \A m \in (k + 1)..(n - 1) : m \in DOMAIN ss
      BY <1>1
    <3>3. /\ k \in 1..(n - 1) /\ Defines(ss[k], u.reg)
          /\ \A m \in (k + 1)..(n - 1) : ~Defines(ss[m], u.reg)
      BY <3>1 DEF ReachingDef
    <3>4. /\ Defines(ts[k], u.reg) /\ ts[k].dst = ss[k].dst
          /\ \A m \in (k + 1)..(n - 1) : ~Defines(ts[m], u.reg)
      BY <1>4, <2>2, <3>2, <3>3
    <3> QED BY <1>3, <3>1, <3>3, <3>4 DEF ReachesRead, ReachingDef
  <2>4. CASE (\A k \in 1..(n - 1) : ~Defines(ss[k], u.reg)) /\ u.ssa_id = 0
    <3>1. \A k \in 1..(n - 1) : k \in DOMAIN ss
      BY <1>1
    <3>2. \A k \in 1..(n - 1) : ~Defines(ts[k], u.reg)
      BY <1>4, <2>2, <2>4, <3>1
    <3> QED BY <2>4, <3>2 DEF ReachesRead
  <2> QED BY <2>1, <2>3, <2>4 DEF ReachesRead
<1>7. AllInPlace(ts)
  BY <1>3, <1>4 DEF AllInPlace
<1> QED BY <1>3, <1>5, <1>6, <1>7 DEF GoodStream, ts, t

\* The inductive invariant: the lifter's until the stream is handed over, and of
\* the stream itself from then on.
StreamInv ==
  /\ stage \in {"lift", "simplify", "compile"} /\ pos \in Nat \ {0}
  /\ stage = "lift" => InPlaceInv
  /\ stage # "lift" => GoodStream(ir)
  /\ StoredNodesStay

LEMMA StreamInvNext == StreamInv /\ [PipelineNext]_pipelineVars => StreamInv'
<1> SUFFICES ASSUME StreamInv, [PipelineNext]_pipelineVars PROVE StreamInv'
  OBVIOUS
<1>1. CASE Lift
  <2>1. stage = "lift" /\ stage' = "lift" /\ pos' = pos /\ Next
    BY <1>1 DEF Lift, laterVars
  <2>2. InPlaceInv'
    BY <2>1, NextKeepsInPlace DEF StreamInv
  <2> QED BY <2>1, <2>2 DEF StreamInv, StoredNodesStay
<1>2. CASE BeginSimplify \/ SkipSimplify
  <2>1. /\ stage = "lift" /\ stage' \in {"simplify", "compile"} /\ ir' = statements /\ pos' = pos
        /\ original' = statements
    BY <1>2 DEF BeginSimplify, SkipSimplify, HandOver
  <2>2. GoodStream(statements)
    BY <2>1 DEF StreamInv, InPlaceInv, Shaped, IInv, TypeOK, StateInv, Current, GoodStream
  <2>3. GoodStream(ir')
    BY <2>1, <2>2
  <2> QED BY <2>1, <2>3 DEF StreamInv, StoredNodesStay
<1>3. CASE Simplify
  <2>1. stage = "simplify" /\ stage' = stage /\ GoodStream(ir) /\ pos \in Nat \ {0}
    BY <1>3 DEF Simplify, StreamInv
  <2>2. CASE S!VisitStatement
    <3>1. /\ pos <= Len(ir) /\ pos' = pos + 1
          /\ ir' = [ir EXCEPT ![pos] = S!SimplifyStatement(ir[pos])]
      BY <2>2 DEF S!VisitStatement
    <3>2. GoodStream(ir')
      BY <2>1, <3>1, RewriteKeepsStream
    <3>3. /\ pos \in DOMAIN ir /\ ir \in Seq(Statement) /\ ir[pos] \in Statement /\ InPlace(ir[pos])
          /\ original' = original
      BY <2>1, <2>2, <3>1 DEF GoodStream, AllInPlace, S!VisitStatement
    <3>4. S!SimplifyStatement(ir[pos]).kind = ir[pos].kind
      BY <3>3 DEF Statement, AssignStatement, StoreStatement, S!SimplifyStatement
    <3> DEFINE t == S!SimplifyStatement(ir[pos])
    <3>5. ir[pos].kind = "store" => t.value.kind = ir[pos].value.kind
      BY <3>3, StoredOperatorStays
    <3> HIDE DEF t
    <3>6. /\ DOMAIN ir' = DOMAIN ir
          /\ \A n \in DOMAIN ir : ir'[n] = IF n = pos THEN t ELSE ir[n]
      BY <3>1, <3>3 DEF t
    <3>7. \A n \in DOMAIN ir : ir[n].kind = "store" => ir[n].value.kind = original[n].value.kind
      BY <2>1 DEF StreamInv, StoredNodesStay
    <3>8. StoredNodesStay'
      BY <3>3, <3>4, <3>5, <3>6, <3>7 DEF StoredNodesStay, t
    <3> QED BY <2>1, <3>1, <3>2, <3>8 DEF StreamInv
  <2>3. CASE S!FinishPass
    BY <2>1, <2>3 DEF S!FinishPass, StreamInv, StoredNodesStay
  <2> QED BY <1>3, <2>2, <2>3 DEF Simplify, S!Next
<1>4. CASE BeginCompile
  BY <1>4 DEF BeginCompile, StreamInv, StoredNodesStay
<1>5. CASE Compile
  <2>1. stage = "compile" /\ stage' = stage /\ pos' = pos /\ ir' = ir /\ original' = original
    BY <1>5 DEF Compile, R!Next, R!CompilePair, R!CompileStatement, R!Finalize, R!Emit
  <2> QED BY <2>1 DEF StreamInv, StoredNodesStay
<1>6. CASE UNCHANGED pipelineVars
  <2>1. UNCHANGED vars /\ UNCHANGED <<stage, pos, ir, original>>
    BY <1>6 DEF pipelineVars, laterVars
  <2>2. InPlaceInv => InPlaceInv'
    BY <2>1, NextKeepsInPlace
  <2> QED BY <2>1, <2>2 DEF StreamInv, StoredNodesStay
<1> QED BY <1>1, <1>2, <1>3, <1>4, <1>5, <1>6 DEF PipelineNext

LEMMA StreamInvariant == PipelineSpec => []StreamInv
<1>1. PipelineInit => StreamInv
  BY InitInPlace DEF PipelineInit, StreamInv, StoredNodesStay
<1> QED BY <1>1, StreamInvNext, PTL DEF PipelineSpec

\* In whatever state the walk of the simplifier leaves the stream, its ids are
\* single and its reads carry the ids of the definitions that reach them.
THEOREM UsesSurviveHolds == PipelineSpec => []UsesSurvive
<1>1. StreamInv => UsesSurvive
  BY DEF StreamInv, GoodStream, UsesSurvive
<1> QED BY <1>1, StreamInvariant, PTL

\* The recompiler only meets operators whose left operand is the destination.
THEOREM InPlaceSurvivesHolds == PipelineSpec => []InPlaceSurvives
<1>1. StreamInv => InPlaceSurvives
  BY DEF StreamInv, GoodStream, InPlaceSurvives
<1> QED BY <1>1, StreamInvariant, PTL

\* No rule replaces the node of a stored value, so the pointers of RegisterAst
\* hold whenever the stream is simplified.
THEOREM StoredNodesStayHolds == PipelineSpec => []StoredNodesStay
<1>1. StreamInv => StoredNodesStay
  BY DEF StreamInv
<1> QED BY <1>1, StreamInvariant, PTL

-----------------------------------------------------------------------------
(***************************************************************************)
(* Flattening: one more sequence is appended last.                         *)
(***************************************************************************)
IsFlattened(flat, f, k) ==
  flat = [n \in 1..k |-> IF n = 1 THEN f[n] ELSE flat[n - 1] \o f[n]]

LEMMA FlattenedExists ==
  ASSUME NEW f
  PROVE  \A k \in Nat : \E flat : IsFlattened(flat, f, k)
<1> DEFINE Reached == {k \in Nat : \E flat : IsFlattened(flat, f, k)}
<1>1. 0 \in Reached
  <2> DEFINE flat == [n \in 1..0 |-> f[n]]
  <2>1. flat = [n \in 1..0 |-> IF n = 1 THEN f[n] ELSE flat[n - 1] \o f[n]]
    OBVIOUS
  <2> QED BY <2>1 DEF IsFlattened
<1>2. ASSUME NEW k \in Nat, k \in Reached PROVE k + 1 \in Reached
  <2>1. PICK g : IsFlattened(g, f, k)
    BY <1>2
  <2> DEFINE flat == [n \in 1..(k + 1) |->
                        IF n = k + 1 THEN IF n = 1 THEN f[n] ELSE g[k] \o f[n] ELSE g[n]]
  <2>2. ASSUME NEW n \in 1..(k + 1)
        PROVE  flat[n] = IF n = 1 THEN f[n] ELSE flat[n - 1] \o f[n]
    <3>1. CASE n = k + 1
      BY <3>1
    <3>2. CASE n # k + 1
      <4>1. n \in 1..k /\ flat[n] = g[n] /\ (n # 1 => flat[n - 1] = g[n - 1])
        BY <3>2
      <4>2. g[n] = IF n = 1 THEN f[n] ELSE g[n - 1] \o f[n]
        BY <2>1, <4>1 DEF IsFlattened
      <4> QED BY <4>1, <4>2
    <3> QED BY <3>1, <3>2
  <2>3. IsFlattened(flat, f, k + 1)
    BY <2>2 DEF IsFlattened
  <2> QED BY <2>3
<1>3. Nat \subseteq Reached
  <2> HIDE DEF Reached
  <2> QED BY <1>1, <1>2, SetInduction
<1> QED BY <1>3

LEMMA FlattenedNext ==
  ASSUME NEW flat, NEW f, NEW k \in Nat, IsFlattened(flat, f, k), NEW n \in 1..k, n # 1
  PROVE  flat[n] = flat[n - 1] \o f[n]
BY Zenon DEF IsFlattened

LEMMA FlattenUnfold ==
  ASSUME NEW f, NEW k \in Nat, Len(f) = k, k # 0
  PROVE  \E flat : IsFlattened(flat, f, k) /\ FlattenSeq(f) = flat[k]
<1> DEFINE flat == CHOOSE g : IsFlattened(g, f, k)
<1>1. IsFlattened(flat, f, k)
  BY FlattenedExists
<1>2. FlattenSeq(f) = flat[k]
  BY DEF FlattenSeq, IsFlattened
<1> QED BY <1>1, <1>2

LEMMA FlattenStep ==
  ASSUME NEW Item, NEW n \in Nat, NEW f \in [1..(n + 1) -> Seq(Item)],
         NEW g \in [1..n -> Seq(Item)], \A k \in 1..n : f[k] = g[k]
  PROVE  FlattenSeq(f) = FlattenSeq(g) \o f[n + 1]
<1>1. Len(f) = n + 1 /\ Len(g) = n /\ f[n + 1] \in Seq(Item)
  OBVIOUS
<1>2. PICK longer : IsFlattened(longer, f, n + 1) /\ FlattenSeq(f) = longer[n + 1]
  <2>1. n + 1 \in Nat /\ n + 1 # 0
    OBVIOUS
  <2> QED BY <1>1, <2>1, FlattenUnfold
<1>3. CASE n = 0
  <2>1. FlattenSeq(g) = <<>>
    BY <1>1, <1>3 DEF FlattenSeq
  <2>2. FlattenSeq(f) = f[n + 1]
    BY <1>2, <1>3 DEF IsFlattened
  <2> QED BY <1>1, <2>1, <2>2
<1>4. CASE n # 0
  <2>1. PICK flat : IsFlattened(flat, g, n) /\ FlattenSeq(g) = flat[n]
    BY <1>1, <1>4, FlattenUnfold
  <2> DEFINE Same == {k \in Nat : k + 1 <= n => longer[k + 1] = flat[k + 1]}
  <2>2. 0 \in Same
    BY <1>2, <2>1 DEF IsFlattened
  <2>3. ASSUME NEW k \in Nat, k \in Same PROVE k + 1 \in Same
    <3>1. SUFFICES ASSUME (k + 1) + 1 <= n PROVE longer[(k + 1) + 1] = flat[(k + 1) + 1]
      OBVIOUS
    <3>2. /\ longer[k + 1] = flat[k + 1] /\ f[(k + 1) + 1] = g[(k + 1) + 1]
          /\ (k + 1) + 1 \in 1..n /\ (k + 1) + 1 \in 1..(n + 1) /\ ((k + 1) + 1) - 1 = k + 1
      BY <2>3, <3>1
    <3>3. /\ longer[(k + 1) + 1] = longer[k + 1] \o f[(k + 1) + 1]
          /\ flat[(k + 1) + 1] = flat[k + 1] \o g[(k + 1) + 1]
      <4> DEFINE m == (k + 1) + 1
      <4>1. m \in 1..n /\ m \in 1..(n + 1) /\ m # 1 /\ m - 1 = k + 1 /\ n + 1 \in Nat
        BY <3>2
      <4> HIDE DEF m
      <4>2. longer[m] = longer[m - 1] \o f[m]
        BY <1>2, <4>1, FlattenedNext
      <4>3. flat[m] = flat[m - 1] \o g[m]
        BY <2>1, <4>1, FlattenedNext
      <4> QED BY <4>1, <4>2, <4>3 DEF m
    <3> QED BY <3>2, <3>3
  <2>4. Nat \subseteq Same
    <3> HIDE DEF Same
    <3> QED BY <2>2, <2>3, SetInduction
  <2>5. longer[n] = flat[n]
    <3>1. n - 1 \in Same
      BY <1>4, <2>4
    <3> QED BY <1>4, <3>1
  <2>6. longer[n + 1] = longer[n] \o f[n + 1]
    <3>1. n + 1 \in 1..(n + 1) /\ n + 1 # 1 /\ (n + 1) - 1 = n /\ n + 1 \in Nat
      BY <1>4
    <3>2. longer[n + 1] = longer[(n + 1) - 1] \o f[n + 1]
      BY <1>2, <3>1, FlattenedNext
    <3> QED BY <3>1, <3>2
  <2> QED BY <1>2, <2>1, <2>5, <2>6
<1> QED BY <1>3, <1>4

-----------------------------------------------------------------------------
(***************************************************************************)
(* What the recompiler sees of a node, of which the SSA tags are no part.  *)
(***************************************************************************)
Looks(u, v) ==
  /\ u.kind = v.kind
  /\ R!HasOperand(u) <=> R!HasOperand(v)
  /\ R!AsmOperand(u) = R!AsmOperand(v)
  /\ R!IsStackTop(u) <=> R!IsStackTop(v)
  /\ v.kind = "reg" => u.reg = v.reg
  /\ v.kind = "imm" => u.value = v.value

LooksFlat(d, e) ==
  /\ d.kind = e.kind
  /\ e.kind \in {"reg", "imm", "mem"} => Looks(d, e)
  /\ e.kind = "un" => d.op = e.op /\ Looks(d.operand, e.operand)
  /\ e.kind = "bin" => d.op = e.op /\ Looks(d.left, e.left) /\ Looks(d.right, e.right)

LooksLike(d, e) ==
  /\ d.kind = e.kind
  /\ e.kind # "cond" => LooksFlat(d, e)
  /\ e.kind = "cond" => /\ LooksFlat(d.condition, e.condition)
                        /\ LooksFlat(d.true_expr, e.true_expr)

Alike(s, t) ==
  /\ s.kind = t.kind
  /\ Looks(Destination(s), Destination(t))
  /\ LooksLike(s.value, t.value)

LEMMA KindsOfValues == \A v \in Value : v.kind \in {"reg", "imm", "mem"}
BY DEF Value, RegValue, ImmValue, MemoryValue

LEMMA TaggedReadLooks ==
  ASSUME NEW v \in OptReg, NEW w
  PROVE  /\ R!HasRegOperand(TagRead(v, w)) <=> R!HasRegOperand(v)
         /\ R!GpOf(TagRead(v, w)) = R!GpOf(v)
         /\ TagRead(v, w).kind = v.kind
         /\ R!IsReg(TagRead(v, w), "RSP") <=> R!IsReg(v, "RSP")
BY DEF OptReg, NullValue, RegValue, TagRead, R!HasRegOperand, R!GpOf, R!IsReg

LEMMA TaggedLooks ==
  ASSUME NEW v \in Value, NEW w
  PROVE  Looks(TagValue(v, w), v) /\ Looks(TagWrite(v, w), v)
<1>1. CASE v \in RegValue
  <2>1. ASSUME NEW n PROVE Looks([v EXCEPT !.ssa_id = n], v)
    <3> DEFINE u == [v EXCEPT !.ssa_id = n]
    <3>1. u.kind = "reg" /\ v.kind = "reg" /\ u.reg = v.reg /\ u.width = v.width
      BY <1>1 DEF RegValue
    <3> HIDE DEF u
    <3> QED BY <3>1 DEF Looks, R!HasOperand, R!HasRegOperand, R!AsmOperand, R!IsStackTop
  <2>2. v.kind = "reg"
    BY <1>1 DEF RegValue
  <2> QED BY <2>1, <2>2 DEF TagValue, TagRead, TagWrite
<1>2. CASE v \in ImmValue
  <2>1. v.kind = "imm" /\ TagValue(v, w) = v /\ TagWrite(v, w) = v
    BY <1>2 DEF ImmValue, TagValue, TagWrite
  <2> QED BY <2>1 DEF Looks
<1>3. CASE v \in MemoryValue
  <2> DEFINE b == TagRead(v.base, w)
             j == TagRead(v.index, w)
             u == [v EXCEPT !.base = b, !.index = j]
  <2>1. v.kind = "mem" /\ v.base \in OptReg /\ v.index \in OptReg
    BY <1>3 DEF MemoryValue
  <2>2. TagValue(v, w) = u /\ TagWrite(v, w) = v
    BY <2>1 DEF TagValue, TagWrite
  <2>3. /\ R!HasRegOperand(b) <=> R!HasRegOperand(v.base)
        /\ R!HasRegOperand(j) <=> R!HasRegOperand(v.index)
        /\ R!GpOf(b) = R!GpOf(v.base) /\ R!GpOf(j) = R!GpOf(v.index)
        /\ j.kind = v.index.kind
        /\ R!IsReg(b, "RSP") <=> R!IsReg(v.base, "RSP")
    BY <2>1, TaggedReadLooks
  <2> HIDE DEF b, j
  <2>4. /\ u.kind = "mem" /\ u.base = b /\ u.index = j /\ u.size = v.size
        /\ u.scale = v.scale /\ u.displacement = v.displacement
    BY <1>3 DEF MemoryValue
  <2> HIDE DEF u
  <2>5. Looks(u, v)
    BY <2>1, <2>3, <2>4 DEF Looks, R!HasOperand, R!AsmOperand, R!IsStackTop
  <2>6. Looks(v, v)
    BY DEF Looks
  <2> QED BY <2>2, <2>5, <2>6
<1> QED BY <1>1, <1>2, <1>3 DEF Value

LEMMA TaggedFlatLooks ==
  ASSUME NEW e \in FlatExpression, NEW w
  PROVE  LooksFlat(TagFlat(e, w), e) /\ e.kind # "cond"
<1>1. CASE e \in Value
  <2>1. e.kind \in {"reg", "imm", "mem"} /\ Looks(TagValue(e, w), e)
    BY <1>1, KindsOfValues, TaggedLooks
  <2>2. TagFlat(e, w) = TagValue(e, w) /\ TagValue(e, w).kind = e.kind
    BY <2>1 DEF TagFlat, Looks
  <2> QED BY <2>1, <2>2 DEF LooksFlat
<1>2. CASE e \in UnaryExpression
  <2> DEFINE v == TagValue(e.operand, w)
             d == [e EXCEPT !.operand = v]
  <2>1. e.kind = "un" /\ e.operand \in Value /\ TagFlat(e, w) = d
    BY <1>2 DEF UnaryExpression, TagFlat
  <2>2. Looks(v, e.operand)
    BY <2>1, TaggedLooks
  <2> HIDE DEF v
  <2>3. d.kind = "un" /\ d.op = e.op /\ d.operand = v
    BY <1>2 DEF UnaryExpression
  <2> HIDE DEF d
  <2> QED BY <2>1, <2>2, <2>3 DEF LooksFlat
<1>3. CASE e \in BinaryExpression
  <2> DEFINE l == TagValue(e.left, w)
             r == TagValue(e.right, w)
             d == [e EXCEPT !.left = l, !.right = r]
  <2>1. e.kind = "bin" /\ e.left \in Value /\ e.right \in Value /\ TagFlat(e, w) = d
    BY <1>3 DEF BinaryExpression, TagFlat
  <2>2. Looks(l, e.left) /\ Looks(r, e.right)
    BY <2>1, TaggedLooks
  <2> HIDE DEF l, r
  <2>3. d.kind = "bin" /\ d.op = e.op /\ d.left = l /\ d.right = r
    BY <1>3 DEF BinaryExpression
  <2> HIDE DEF d
  <2> QED BY <2>1, <2>2, <2>3 DEF LooksFlat
<1> QED BY <1>1, <1>2, <1>3 DEF FlatExpression

LEMMA TaggedReadsLook ==
  ASSUME NEW e \in Expression, NEW w
  PROVE  LooksLike(TagReads(e, w), e)
<1>1. CASE e \in FlatExpression
  <2>1. LooksFlat(TagFlat(e, w), e) /\ e.kind # "cond"
    BY <1>1, TaggedFlatLooks
  <2> QED BY <2>1 DEF TagReads, LooksLike, LooksFlat
<1>2. CASE e \in ConditionalExpression
  <2>1. e.kind = "cond" /\ e.condition \in FlatExpression /\ e.true_expr \in FlatExpression
    BY <1>2 DEF ConditionalExpression
  <2>2. LooksFlat(TagFlat(e.condition, w), e.condition)
        /\ LooksFlat(TagFlat(e.true_expr, w), e.true_expr)
    BY <2>1, TaggedFlatLooks
  <2> QED BY <2>1, <2>2 DEF TagReads, Conditional, LooksLike
<1> QED BY <1>1, <1>2 DEF Expression

LEMMA AlikeFlatWrites ==
  ASSUME NEW u, NEW v, Looks(u, v), NEW d, NEW e, LooksFlat(d, e), NEW isMem \in BOOLEAN
  PROVE  R!EmitWrite(u, d, isMem) = R!EmitWrite(v, e, isMem)
<1>1. /\ R!HasOperand(u) <=> R!HasOperand(v)
      /\ R!AsmOperand(u) = R!AsmOperand(v)
      /\ d.kind = e.kind
  BY DEF Looks, LooksFlat
<1>2. R!EmitExpression(u, d, isMem) = R!EmitExpression(v, e, isMem)
  <2>1. CASE e.kind = "un"
    <3>1. /\ d.op = e.op /\ R!AsmOperand(d.operand) = R!AsmOperand(e.operand)
          /\ R!HasOperand(d.operand) <=> R!HasOperand(e.operand)
      BY <2>1 DEF LooksFlat, Looks
    <3>2. ~R!Computes(d) /\ ~R!Computes(e) /\ ~R!IsExpressionValue(d) /\ ~R!IsExpressionValue(e)
      BY <1>1, <2>1 DEF R!Computes, R!IsExpressionValue
    <3> QED BY <1>1, <2>1, <3>1, <3>2 DEF R!EmitExpression
  <2>2. CASE e.kind = "bin"
    <3>1. /\ d.op = e.op
          /\ R!AsmOperand(d.left) = R!AsmOperand(e.left)
          /\ R!AsmOperand(d.right) = R!AsmOperand(e.right)
          /\ R!HasOperand(d.left) <=> R!HasOperand(e.left)
          /\ R!HasOperand(d.right) <=> R!HasOperand(e.right)
      BY <2>2 DEF LooksFlat, Looks
    <3>2. /\ R!Computes(d) <=> R!Computes(e)
          /\ ~R!IsExpressionValue(d) /\ ~R!IsExpressionValue(e)
      BY <1>1, <2>2, <3>1 DEF R!Computes, R!IsExpressionValue
    <3> QED BY <1>1, <2>2, <3>1, <3>2 DEF R!EmitExpression
  <2>3. CASE e.kind \in {"reg", "imm", "mem"}
    <3>1. /\ R!AsmOperand(d) = R!AsmOperand(e)
          /\ R!HasOperand(d) <=> R!HasOperand(e)
      BY <2>3 DEF LooksFlat, Looks
    <3>2. ~R!Computes(d) /\ ~R!Computes(e) /\ R!IsExpressionValue(d) /\ R!IsExpressionValue(e)
      BY <1>1, <2>3 DEF R!Computes, R!IsExpressionValue
    <3> QED BY <1>1, <2>3, <3>1, <3>2 DEF R!EmitExpression
  <2>4. CASE e.kind \notin {"un", "bin", "reg", "imm", "mem"}
    <3>1. ~R!Computes(d) /\ ~R!Computes(e) /\ ~R!IsExpressionValue(d) /\ ~R!IsExpressionValue(e)
      BY <1>1, <2>4 DEF R!Computes, R!IsExpressionValue
    <3> QED BY <1>1, <2>4, <3>1 DEF R!EmitExpression
  <2> QED BY <2>1, <2>2, <2>3, <2>4
<1> QED BY <1>1, <1>2 DEF R!EmitWrite

LEMMA AlikeRipAssigns ==
  ASSUME NEW d, NEW e, LooksLike(d, e)
  PROVE  R!EmitRipAssign(d) = R!EmitRipAssign(e)
<1>1. CASE e.kind = "imm"
  <2>1. d.kind = "imm" /\ d.value = e.value
    BY <1>1 DEF LooksLike, LooksFlat, Looks
  <2> QED BY <1>1, <2>1 DEF R!EmitRipAssign
<1>2. CASE e.kind = "cond"
  <2> DEFINE c == d.condition
             b == e.condition
  <2>1. d.kind = "cond" /\ LooksFlat(c, b) /\ LooksFlat(d.true_expr, e.true_expr)
    BY <1>2 DEF LooksLike
  <2>2. /\ d.true_expr.kind = e.true_expr.kind
        /\ e.true_expr.kind = "imm" => d.true_expr.value = e.true_expr.value
        /\ c.kind = b.kind
    BY <2>1 DEF LooksFlat, Looks
  <2>3. b.kind = "bin" =>
          /\ c.op = b.op /\ c.left.kind = b.left.kind
          /\ b.left.kind = "reg" => c.left.reg = b.left.reg
          /\ R!AsmOperand(c.left) = R!AsmOperand(b.left)
          /\ R!AsmOperand(c.right) = R!AsmOperand(b.right)
          /\ R!HasOperand(c.left) <=> R!HasOperand(b.left)
          /\ R!HasOperand(c.right) <=> R!HasOperand(b.right)
    BY <2>1 DEF LooksFlat, Looks
  <2> HIDE DEF c, b
  <2>4. CASE /\ e.true_expr.kind = "imm" /\ b.kind = "bin" /\ R!HasCondCode(b.op)
    <3>1. d.true_expr.kind = "imm" /\ c.kind = "bin" /\ R!HasCondCode(c.op)
      BY <2>2, <2>3, <2>4
    <3> QED BY <1>2, <2>1, <2>2, <2>3, <2>4, <3>1 DEF R!EmitRipAssign, c, b
  <2>5. CASE ~(/\ e.true_expr.kind = "imm" /\ b.kind = "bin" /\ R!HasCondCode(b.op))
    <3>1. ~(d.true_expr.kind = "imm" /\ c.kind = "bin" /\ R!HasCondCode(c.op))
      BY <2>2, <2>3, <2>5
    <3> QED BY <1>2, <2>1, <2>5, <3>1 DEF R!EmitRipAssign, c, b
  <2> QED BY <2>4, <2>5
<1>3. CASE e.kind \notin {"imm", "cond"}
  <2>1. d.kind = e.kind
    BY DEF LooksLike
  <2> QED BY <1>3, <2>1 DEF R!EmitRipAssign
<1> QED BY <1>1, <1>2, <1>3

LEMMA AlikeStatements ==
  ASSUME NEW s, NEW t, Alike(s, t), t.kind \in {"assign", "store"}
  PROVE  R!EmitStatement(s) = R!EmitStatement(t)
<1>1. s.kind = t.kind /\ Looks(Destination(s), Destination(t)) /\ LooksLike(s.value, t.value)
  BY DEF Alike
<1>2. ASSUME NEW isMem \in BOOLEAN
      PROVE  R!EmitWrite(Destination(s), s.value, isMem) = R!EmitWrite(Destination(t), t.value, isMem)
  <2>1. CASE t.value.kind # "cond"
    BY <1>1, <2>1, AlikeFlatWrites DEF LooksLike
  <2>2. CASE t.value.kind = "cond"
    <3>1. s.value.kind = "cond"
      BY <1>1, <2>2 DEF LooksLike
    <3>2. R!HasOperand(Destination(s)) <=> R!HasOperand(Destination(t))
      BY <1>1 DEF Looks
    <3> QED BY <2>2, <3>1, <3>2 DEF R!EmitWrite, R!EmitExpression, R!Computes, R!IsExpressionValue
  <2> QED BY <2>1, <2>2
<1>3. CASE t.kind = "assign"
  <2>1. Destination(s) = s.dst /\ Destination(t) = t.dst
    BY <1>1, <1>3 DEF Destination
  <2>2. R!IsReg(s.dst, "RIP") <=> R!IsReg(t.dst, "RIP")
    BY <1>1, <2>1 DEF Looks, R!IsReg
  <2>3. R!EmitRipAssign(s.value) = R!EmitRipAssign(t.value)
    BY <1>1, AlikeRipAssigns
  <2>4. R!EmitWrite(s.dst, s.value, FALSE) = R!EmitWrite(t.dst, t.value, FALSE)
    BY <1>2, <2>1
  <2> QED BY <1>1, <1>3, <2>2, <2>3, <2>4 DEF R!EmitStatement
<1>4. CASE t.kind = "store"
  <2>1. Destination(s) = s.address /\ Destination(t) = t.address
    BY <1>1, <1>4 DEF Destination
  <2>2. R!EmitWrite(s.address, s.value, TRUE) = R!EmitWrite(t.address, t.value, TRUE)
    BY <1>2, <2>1
  <2> QED BY <1>1, <1>4, <2>2 DEF R!EmitStatement
<1> QED BY <1>3, <1>4

LEMMA AlikePairs ==
  ASSUME NEW s, NEW t, Alike(s, t), t.kind \in {"assign", "store"},
         NEW x, NEW y, Alike(x, y), y.kind \in {"assign", "store"}
  PROVE  /\ R!IsPush(s, x) <=> R!IsPush(t, y)
         /\ R!IsPop(s, x) <=> R!IsPop(t, y)
         /\ R!IsPush(t, y) \/ R!IsPop(t, y) => R!EmitPair(s, x) = R!EmitPair(t, y)
<1>1. ASSUME NEW p, NEW q, Alike(p, q), q.kind \in {"assign", "store"}, NEW op
      PROVE  R!AdjustsRsp(p, op) <=> R!AdjustsRsp(q, op)
  <2>1. p.kind = q.kind /\ Looks(Destination(p), Destination(q)) /\ LooksLike(p.value, q.value)
    BY <1>1 DEF Alike
  <2>2. q.kind = "assign" => (R!IsReg(p.dst, "RSP") <=> R!IsReg(q.dst, "RSP"))
    BY <2>1 DEF Destination, Looks, R!IsReg
  <2>3. R!IsRspAdjust(p.value, op) <=> R!IsRspAdjust(q.value, op)
    BY <2>1 DEF LooksLike, LooksFlat, Looks, R!IsRspAdjust, R!IsReg
  <2> QED BY <2>1, <2>2, <2>3 DEF R!AdjustsRsp
<1>2. ASSUME NEW p, NEW q, Alike(p, q), q.kind \in {"assign", "store"}
      PROVE  /\ R!IsExpressionValue(p.value) <=> R!IsExpressionValue(q.value)
             /\ R!IsExpressionValue(q.value) => Looks(p.value, q.value)
             /\ R!IsStackTop(p.value) <=> R!IsStackTop(q.value)
  <2>1. LooksLike(p.value, q.value)
    BY <1>2 DEF Alike
  <2> QED BY <2>1 DEF LooksLike, LooksFlat, Looks, R!IsExpressionValue, R!IsStackTop
<1>3. ASSUME NEW p, NEW q, Looks(p, q), NEW id
      PROVE  R!EmitStackOp(id, p) = R!EmitStackOp(id, q)
  BY <1>3 DEF Looks, R!EmitStackOp, R!IsReg
<1>4. /\ s.kind = t.kind /\ x.kind = y.kind
      /\ Looks(Destination(s), Destination(t)) /\ Looks(Destination(x), Destination(y))
  BY DEF Alike
<1>5. R!IsPush(s, x) <=> R!IsPush(t, y)
  <2>1. y.kind = "store" => (R!IsStackTop(x.address) <=> R!IsStackTop(y.address))
    BY <1>4 DEF Looks, Destination
  <2> QED BY <1>1, <1>2, <1>4, <2>1 DEF R!IsPush
<1>6. R!IsPop(s, x) <=> R!IsPop(t, y)
  BY <1>1, <1>2, <1>4 DEF R!IsPop
<1>7. CASE R!IsPush(t, y)
  <2>1. Looks(x.value, y.value)
    BY <1>2, <1>7 DEF R!IsPush
  <2> QED BY <1>3, <1>5, <1>6, <1>7, <2>1 DEF R!EmitPair
<1>8. CASE R!IsPop(t, y) /\ ~R!IsPush(t, y)
  <2>1. Looks(s.dst, t.dst)
    BY <1>4, <1>8 DEF R!IsPop, Destination
  <2> QED BY <1>3, <1>5, <1>6, <1>8, <2>1 DEF R!EmitPair
<1> QED BY <1>5, <1>6, <1>7, <1>8

-----------------------------------------------------------------------------
(***************************************************************************)
(* What one instruction becomes: Lifted are its statements without tags,   *)
(* Answer what the recompiler owes for them.                               *)
(***************************************************************************)
Put(dst, e) == IF dst.kind = "mem" THEN Store(dst, e) ELSE Assign(dst, e)

Adjusted(op) == Assign(RegV("RSP", 64), Binary(op, RegV("RSP", 64), ImmV(Slot)))

PushLifted(e) == <<Adjusted("Sub"), Store(StackSlot, e)>>

PopLifted(dst) == <<Put(dst, StackSlot), Adjusted("Add")>>

Selected(x) ==
  Conditional(ConditionOf(x.id), ImmV(x.ops[1].imm),
              Binary("Add", RegV("RIP", 64), ImmV(AddrSize)))

Lifted(x) ==
  CASE x.id \in MovIds      -> <<Put(Operand(x.ops[1]), Operand(x.ops[2]))>>
    [] x.id = "lea"         -> <<Assign(Operand(x.ops[1]), Operand(x.ops[2]))>>
    [] x.id \in BinaryIds   -> <<Put(Operand(x.ops[1]),
                                     Binary(BinaryOpOf(x.id), Operand(x.ops[1]), Operand(x.ops[2])))>>
    [] x.id = "neg"         -> <<Assign(Operand(x.ops[1]), Unary("Neg", Operand(x.ops[1])))>>
    [] x.id = "jmp"         -> <<Assign(RegV("RIP", 64), ImmV(x.ops[1].imm))>>
    [] x.id \in CondJumpIds -> <<Assign(RegV("RIP", 64), Selected(x))>>
    [] x.id = "push"        -> PushLifted(Operand(x.ops[1]))
    [] x.id = "pushfq"      -> PushLifted(RegV("RFLAGS", 64))
    [] x.id = "call"        -> PushLifted(RegV("RIP", 64))
    [] x.id = "pop"         -> PopLifted(Operand(x.ops[1]))
    [] x.id = "popfq"       -> PopLifted(RegV("RFLAGS", 64))
    [] x.id = "ret"         -> PopLifted(RegV("RIP", 64))

Coded(x) == [n \in DOMAIN Recompiled(x) |-> R!Encoded(Recompiled(x)[n])]

Answer(x) == IF Refused(x) THEN R!Throws ELSE Coded(x)

Usual == {x \in Insns : x.id \in HandledIds /\ Direct(x)}

LEMMA BaseCompiles ==
  ASSUME NEW r \in MemBases
  PROVE  LET v == OptionalReg(r)
         IN /\ R!GpOf(v) = r
            /\ R!HasRegOperand(v) <=> r # X86Reg("RIP")
            /\ v.kind = "null" <=> r = X86_REG_INVALID
            /\ R!IsReg(v, "RSP") <=> r.family = "RSP"
<1> USE GPRAssumption DEF R!GpOf, R!HasRegOperand, R!IsReg, R!X86_REG_INVALID, R!X86Reg,
                          X86_REG_INVALID, X86Reg
<1>1. CASE r = X86_REG_INVALID
  <2>1. OptionalReg(r) = [kind |-> "null"]
    BY <1>1 DEF OptionalReg, NullValue
  <2> QED BY <1>1, <2>1
<1>2. CASE r # X86_REG_INVALID
  <2>1. PICK f \in GPR \cup {"RIP"} : r = X86Reg(f)
    BY <1>2 DEF MemBases
  <2>2. OptionalReg(r).kind = "reg" /\ OptionalReg(r).reg = f
    BY <1>2, <2>1 DEF OptionalReg, FamilyOf, RegV
  <2> QED BY <1>2, <2>1, <2>2
<1> QED BY <1>1, <1>2

LEMMA OperandCompiles ==
  ASSUME NEW o, IsPlace(o) \/ IsImmOp(o)
  PROVE  LET v == Operand(o)
         IN /\ R!AsmOperand(v) = Recoded(o)
            /\ v.kind = o.type /\ o.type \in {"reg", "imm", "mem"}
            /\ R!HasOperand(v) <=> ~(o.type = "mem" /\ X86Reg("RIP") \in {o.base, o.index})
            /\ ~R!IsReg(v, "RIP") /\ ~R!IsReg(v, "RFLAGS")
<1> DEFINE v == Operand(o)
<1>1. CASE IsRegOp(o)
  <2>1. /\ o.type = "reg" /\ o.reg.family \in GPR /\ o.size \in Sizes
        /\ o = [type |-> "reg", reg |-> o.reg, size |-> o.size]
        /\ o.reg = [family |-> o.reg.family, high |-> o.reg.high]
    BY <1>1 DEF IsRegOp
  <2>2. v = RegV(o.reg.family, 8 * o.size)
    BY <2>1 DEF Operand, FamilyOf
  <2>3. v.kind = "reg" /\ v.reg = o.reg.family /\ v.width = 8 * o.size
    BY <2>2 DEF RegV
  <2> HIDE DEF v
  <2>4. v.width \div 8 = o.size
    BY <2>1, <2>3 DEF Sizes
  <2>5. R!AsmOperand(v) = [type |-> "reg", reg |-> [family |-> o.reg.family, high |-> FALSE],
                           size |-> o.size]
    BY <2>3, <2>4 DEF R!AsmOperand, R!RegOp, R!X86Reg
  <2>6. Recoded(o) = [type |-> "reg", reg |-> [family |-> o.reg.family, high |-> FALSE],
                      size |-> o.size]
    BY <2>1 DEF Recoded
  <2>7. R!HasOperand(v)
    BY <2>1, <2>3 DEF R!HasOperand, R!HasRegOperand
  <2> QED BY <2>1, <2>3, <2>5, <2>6, <2>7, GPRAssumption DEF v, R!IsReg
<1>2. CASE IsImmOp(o)
  <2>1. o.type = "imm" /\ v.kind = "imm" /\ v.value = o.imm % Modulus[64]
    BY <1>2 DEF IsImmOp, Operand, ImmV
  <2> HIDE DEF v
  <2> QED BY <2>1 DEF v, R!AsmOperand, Recoded, R!ImmOp, ImmOp, R!HasOperand, R!IsReg
<1>3. CASE IsMemOp(o)
  <2> DEFINE b == OptionalReg(o.base)
             j == OptionalReg(o.index)
  <2>1. /\ o.type = "mem" /\ o.base \in MemBases /\ o.index \in MemBases
        /\ o = [type |-> "mem", base |-> o.base, index |-> o.index, scale |-> o.scale,
                disp |-> o.disp, size |-> o.size]
    BY <1>3 DEF IsMemOp
  <2>2. v = MemV(o.size, b, j, o.scale, o.disp)
    BY <2>1 DEF Operand
  <2>3. /\ R!GpOf(b) = o.base /\ R!GpOf(j) = o.index
        /\ R!HasRegOperand(b) <=> o.base # X86Reg("RIP")
        /\ R!HasRegOperand(j) <=> o.index # X86Reg("RIP")
    BY <2>1, BaseCompiles
  <2> HIDE DEF b, j
  <2>4. /\ v.kind = "mem" /\ v.base = b /\ v.index = j /\ v.scale = o.scale
        /\ v.displacement = o.disp /\ v.size = o.size
    BY <2>2 DEF MemV
  <2> HIDE DEF v
  <2> DEFINE z == [type |-> "mem", base |-> o.base, index |-> o.index, scale |-> o.scale,
                   disp |-> R!Offset(o.disp), size |-> o.size]
  <2>5. R!AsmOperand(v) = z
    BY <2>3, <2>4 DEF R!AsmOperand, R!MemOp
  <2>6. Recoded(o) = z
    BY <2>1 DEF Recoded
  <2> QED BY <2>1, <2>3, <2>4, <2>5, <2>6 DEF v, R!HasOperand, R!IsReg
<1> QED BY <1>1, <1>2, <1>3 DEF IsPlace

LEMMA NamesRipIs ==
  ASSUME NEW x, \A k \in DOMAIN x.ops : IsPlace(x.ops[k]) \/ IsImmOp(x.ops[k])
  PROVE  T!NamesRip(x) <=> \E k \in DOMAIN x.ops : ~R!HasOperand(Operand(x.ops[k]))
<1>1. \A k \in DOMAIN x.ops :
        R!HasOperand(Operand(x.ops[k])) <=>
          ~(x.ops[k].type = "mem" /\ X86Reg("RIP") \in {x.ops[k].base, x.ops[k].index})
  BY OperandCompiles
<1> QED BY <1>1 DEF T!NamesRip, T!X86Reg, X86Reg

LEMMA EmittedAnswers ==
  ASSUME NEW x, x.id \notin {"call", "ret"}, ~T!NamesRip(x), ~(x.id = "pop" /\ x.ops[1].type = "mem")
  PROVE  R!Emitted(Recompiled(x)) = Answer(x)
BY DEF R!Emitted, Answer, Refused, Coded

LEMMA UsualOperands ==
  ASSUME NEW x \in Usual
  PROVE  /\ x.id \in MovIds \cup BinaryIds \cup {"lea"} =>
              /\ DOMAIN x.ops = 1..2 /\ IsPlace(x.ops[1])
              /\ IsPlace(x.ops[2]) \/ IsImmOp(x.ops[2])
         /\ x.id \in {"neg", "pop"} => DOMAIN x.ops = 1..1 /\ IsPlace(x.ops[1])
         /\ x.id = "push" => DOMAIN x.ops = 1..1 /\ (IsPlace(x.ops[1]) \/ IsImmOp(x.ops[1]))
         /\ x.id \in CondJumpIds \cup {"jmp"} => DOMAIN x.ops = 1..1 /\ IsImmOp(x.ops[1])
         /\ x.id \in {"pushfq", "popfq"} => DOMAIN x.ops = 1..0
         /\ x.id = "lea" => x.ops[1].type = "reg"
<1>1. WellFormed(x) /\ Direct(x)
  BY LifterAssumption DEF Usual
<1> QED BY <1>1 DEF WellFormed, Direct, IsPlace, IsRegOp, IsMemOp, IsImmOp,
                    MovIds, BinaryIds, CondJumpIds

LEMMA RecompiledIs ==
  ASSUME NEW x \in Usual
  PROVE  /\ x.id \in MovIds \cup {"lea"} =>
              Recompiled(x) = <<Insn("mov", <<Recoded(x.ops[1]), Recoded(x.ops[2])>>)>>
         /\ x.id \in BinaryIds /\ x.ops[1].type # "mem" =>
              Recompiled(x) = <<Insn(x.id, <<Recoded(x.ops[1]), Recoded(x.ops[2])>>)>>
         /\ x.id \in BinaryIds /\ x.ops[1].type = "mem" =>
              Recompiled(x) = <<Insn("mov", <<R!Rax64, Recoded(x.ops[1])>>),
                                Insn(x.id, <<R!Rax64, Recoded(x.ops[2])>>),
                                Insn("mov", <<Recoded(x.ops[1]), R!Rax64>>)>>
         /\ x.id \in CondJumpIds \cup {"jmp", "neg", "pop", "push"} =>
              Recompiled(x) = <<Insn(x.id, <<Recoded(x.ops[1])>>)>>
         /\ x.id \in {"pushfq", "popfq"} => Recompiled(x) = <<Insn(x.id, <<>>)>>
<1> DEFINE ops == [k \in DOMAIN x.ops |-> Recoded(x.ops[k])]
<1>1. Recompiled(x) =
        IF x.id \in BinaryIds /\ x.ops[1].type = "mem"
        THEN <<Insn("mov", <<R!Rax64, ops[1]>>), Insn(x.id, <<R!Rax64, ops[2]>>),
               Insn("mov", <<ops[1], R!Rax64>>)>>
        ELSE <<Insn(IF x.id \in {"movabs", "lea"} THEN "mov" ELSE x.id, ops)>>
  BY DEF Recompiled
<1>2. CASE x.id \in MovIds \cup BinaryIds \cup {"lea"}
  <2>1. DOMAIN x.ops = 1..2
    BY <1>2, UsualOperands
  <2>2. ops = <<Recoded(x.ops[1]), Recoded(x.ops[2])>>
    BY <2>1
  <2>3. ops[1] = Recoded(x.ops[1]) /\ ops[2] = Recoded(x.ops[2])
    BY <2>1
  <2> HIDE DEF ops
  <2> QED BY <1>1, <1>2, <2>2, <2>3 DEF MovIds, BinaryIds, CondJumpIds
<1>3. CASE x.id \in CondJumpIds \cup {"jmp", "neg", "pop", "push"}
  <2>1. DOMAIN x.ops = 1..1
    BY <1>3, UsualOperands
  <2>2. ops = <<Recoded(x.ops[1])>>
    BY <2>1
  <2> HIDE DEF ops
  <2> QED BY <1>1, <1>3, <2>2 DEF MovIds, BinaryIds, CondJumpIds
<1>4. CASE x.id \in {"pushfq", "popfq"}
  <2>1. DOMAIN x.ops = 1..0
    BY <1>4, UsualOperands
  <2>2. ops = <<>>
    BY <2>1
  <2> HIDE DEF ops
  <2> QED BY <1>1, <1>4, <2>2 DEF MovIds, BinaryIds, CondJumpIds
<1> QED BY <1>2, <1>3, <1>4

\* No operator hides behind a Value, and RIP is no destination of a handler but a jump's.
LEMMA WriteAnswers ==
  ASSUME NEW x \in Usual, x.id \in MovIds \cup {"lea"}, NEW isMem \in BOOLEAN
  PROVE  R!EmitWrite(Operand(x.ops[1]), Operand(x.ops[2]), isMem) = Answer(x)
<1> DEFINE d == Operand(x.ops[1])
           e == Operand(x.ops[2])
<1>1. DOMAIN x.ops = 1..2 /\ \A k \in DOMAIN x.ops : IsPlace(x.ops[k]) \/ IsImmOp(x.ops[k])
  BY UsualOperands
<1>2. T!NamesRip(x) <=> ~R!HasOperand(d) \/ ~R!HasOperand(e)
  BY <1>1, NamesRipIs
<1>3. /\ R!AsmOperand(d) = Recoded(x.ops[1]) /\ R!AsmOperand(e) = Recoded(x.ops[2])
      /\ e.kind \in {"reg", "imm", "mem"}
  BY <1>1, OperandCompiles
<1> HIDE DEF d, e
<1>4. ~R!Computes(e) /\ e.kind # "un" /\ R!IsExpressionValue(e)
  BY <1>3 DEF R!Computes, R!IsExpressionValue
<1>5. CASE R!HasOperand(d) /\ R!HasOperand(e)
  <2>1. R!EmitWrite(d, e, isMem) =
          R!Emitted(<<Insn("mov", <<Recoded(x.ops[1]), Recoded(x.ops[2])>>)>>)
    BY <1>3, <1>4, <1>5 DEF R!EmitWrite, R!EmitExpression, R!Insn, Insn
  <2>2. x.id \notin {"call", "ret", "pop"}
    BY DEF MovIds
  <2> QED BY <1>2, <1>5, <2>1, <2>2, RecompiledIs, EmittedAnswers DEF d, e
<1>6. CASE ~(R!HasOperand(d) /\ R!HasOperand(e))
  <2>1. R!EmitWrite(d, e, isMem) = R!Throws
    BY <1>4, <1>6 DEF R!EmitWrite, R!EmitExpression
  <2>2. Refused(x)
    BY <1>2, <1>6 DEF Refused
  <2> QED BY <2>1, <2>2 DEF Answer, d, e
<1> QED BY <1>5, <1>6 DEF d, e

LEMMA LiftedIs ==
  ASSUME NEW x
  PROVE  /\ x.id \in MovIds => Lifted(x) = <<Put(Operand(x.ops[1]), Operand(x.ops[2]))>>
         /\ x.id = "lea" => Lifted(x) = <<Assign(Operand(x.ops[1]), Operand(x.ops[2]))>>
         /\ x.id \in BinaryIds =>
              Lifted(x) = <<Put(Operand(x.ops[1]),
                                Binary(BinaryOpOf(x.id), Operand(x.ops[1]), Operand(x.ops[2])))>>
         /\ x.id = "neg" => Lifted(x) = <<Assign(Operand(x.ops[1]), Unary("Neg", Operand(x.ops[1])))>>
         /\ x.id = "jmp" => Lifted(x) = <<Assign(RegV("RIP", 64), ImmV(x.ops[1].imm))>>
         /\ x.id \in CondJumpIds => Lifted(x) = <<Assign(RegV("RIP", 64), Selected(x))>>
         /\ x.id = "push" => Lifted(x) = PushLifted(Operand(x.ops[1]))
         /\ x.id = "pushfq" => Lifted(x) = PushLifted(RegV("RFLAGS", 64))
         /\ x.id = "call" => Lifted(x) = PushLifted(RegV("RIP", 64))
         /\ x.id = "pop" => Lifted(x) = PopLifted(Operand(x.ops[1]))
         /\ x.id = "popfq" => Lifted(x) = PopLifted(RegV("RFLAGS", 64))
         /\ x.id = "ret" => Lifted(x) = PopLifted(RegV("RIP", 64))
<1> HIDE DEF Put
<1> QED BY DEF Lifted, MovIds, BinaryIds, CondJumpIds

LEMMA MovAnswers ==
  ASSUME NEW x \in Usual, x.id \in MovIds \cup {"lea"}
  PROVE  Len(Lifted(x)) = 1 /\ R!EmitStatement(Lifted(x)[1]) = Answer(x)
<1> DEFINE d == Operand(x.ops[1])
           e == Operand(x.ops[2])
<1>1. ~R!IsReg(d, "RIP") /\ d.kind = x.ops[1].type
  BY UsualOperands, OperandCompiles
<1>2. \A isMem \in BOOLEAN : R!EmitWrite(d, e, isMem) = Answer(x)
  BY WriteAnswers
<1>3. Lifted(x) = <<Put(d, e)>>
  <2>1. x.id = "lea" => Put(d, e) = Assign(d, e)
    BY <1>1, UsualOperands DEF Put
  <2>2. Lifted(x) = IF x.id = "lea" THEN <<Assign(d, e)>> ELSE <<Put(d, e)>>
    BY LiftedIs DEF MovIds
  <2> QED BY <2>1, <2>2
<1> HIDE DEF d, e
<1>4. R!EmitStatement(Put(d, e)) = Answer(x)
  BY <1>1, <1>2 DEF Put, Store, Assign, R!EmitStatement
<1> QED BY <1>3, <1>4

LEMMA InstOfBinary ==
  ASSUME NEW id \in BinaryIds
  PROVE  R!HasInst(BinaryOpOf(id)) /\ R!InstOf(BinaryOpOf(id)) = id /\ BinaryOpOf(id) \in BinaryOps
BY DEF BinaryIds, BinaryOpOf, R!HasInst, R!InstOf, BinaryOps

LEMMA InPlaceInsn ==
  ASSUME NEW d, NEW y
  PROVE  R!MoveUnlessSame(d, d) \o <<y>> = <<y>>
BY DEF R!MoveUnlessSame

LEMMA BinaryAnswers ==
  ASSUME NEW x \in Usual, x.id \in BinaryIds
  PROVE  Len(Lifted(x)) = 1 /\ R!EmitStatement(Lifted(x)[1]) = Answer(x)
<1> DEFINE d == Operand(x.ops[1])
           e == Operand(x.ops[2])
           op == BinaryOpOf(x.id)
           b == Binary(op, d, e)
           m == x.ops[1].type = "mem"
<1>1. DOMAIN x.ops = 1..2 /\ \A k \in DOMAIN x.ops : IsPlace(x.ops[k]) \/ IsImmOp(x.ops[k])
  BY UsualOperands
<1>2. T!NamesRip(x) <=> ~R!HasOperand(d) \/ ~R!HasOperand(e)
  BY <1>1, NamesRipIs
<1>3. /\ R!AsmOperand(d) = Recoded(x.ops[1]) /\ R!AsmOperand(e) = Recoded(x.ops[2])
      /\ ~R!IsReg(d, "RIP") /\ d.kind = x.ops[1].type
  BY <1>1, OperandCompiles
<1>4. R!HasInst(op) /\ R!InstOf(op) = x.id
  BY InstOfBinary
<1>5. Lifted(x) = <<Put(d, b)>>
  BY LiftedIs
<1>6. x.id \notin {"call", "ret", "pop"}
  BY DEF BinaryIds
<1> HIDE DEF d, e, op
<1>7. b.kind = "bin" /\ b.op = op /\ b.left = d /\ b.right = e
  BY DEF Binary
<1> HIDE DEF b
<1>8. (R!Computes(b) <=> R!HasOperand(e)) /\ ~R!IsExpressionValue(b)
  BY <1>4, <1>7 DEF R!Computes, R!IsExpressionValue
<1>9. R!EmitStatement(Put(d, b)) = R!EmitWrite(d, b, m)
  BY <1>3 DEF Put, Store, Assign, R!EmitStatement
<1>10. CASE R!HasOperand(d) /\ R!HasOperand(e) /\ m
  <2>1. R!EmitWrite(d, b, m) = R!EmitBinaryMem(op, R!AsmOperand(d), R!AsmOperand(e))
    BY <1>7, <1>8, <1>10 DEF R!EmitWrite, R!EmitExpression
  <2>2. R!EmitBinaryMem(op, R!AsmOperand(d), R!AsmOperand(e)) = R!Emitted(Recompiled(x))
    BY <1>3, <1>4, <1>10, RecompiledIs DEF R!EmitBinaryMem, R!Insn, Insn
  <2> QED BY <1>2, <1>5, <1>6, <1>9, <1>10, <2>1, <2>2, EmittedAnswers
<1>11. CASE R!HasOperand(d) /\ R!HasOperand(e) /\ ~m
  <2>1. R!EmitWrite(d, b, m) = R!EmitBinaryReg(op, R!AsmOperand(d), R!AsmOperand(d), R!AsmOperand(e))
    BY <1>7, <1>8, <1>11 DEF R!EmitWrite, R!EmitExpression
  <2>2. R!EmitBinaryReg(op, R!AsmOperand(d), R!AsmOperand(d), R!AsmOperand(e)) =
          R!Emitted(<<R!Insn(x.id, <<Recoded(x.ops[1]), Recoded(x.ops[2])>>)>>)
    BY <1>3, <1>4, InPlaceInsn DEF R!EmitBinaryReg
  <2>3. R!EmitBinaryReg(op, R!AsmOperand(d), R!AsmOperand(d), R!AsmOperand(e)) = R!Emitted(Recompiled(x))
    BY <1>11, <2>2, RecompiledIs DEF R!Insn, Insn
  <2> QED BY <1>2, <1>5, <1>6, <1>9, <1>11, <2>1, <2>3, EmittedAnswers
<1>12. CASE ~(R!HasOperand(d) /\ R!HasOperand(e))
  <2>1. R!EmitWrite(d, b, m) = R!Throws
    BY <1>7, <1>8, <1>12 DEF R!EmitWrite, R!EmitExpression
  <2>2. Refused(x)
    BY <1>2, <1>12 DEF Refused
  <2> QED BY <1>5, <1>9, <2>1, <2>2 DEF Answer
<1> QED BY <1>10, <1>11, <1>12

LEMMA NegAnswers ==
  ASSUME NEW x \in Usual, x.id = "neg"
  PROVE  Len(Lifted(x)) = 1 /\ R!EmitStatement(Lifted(x)[1]) = Answer(x)
<1> DEFINE d == Operand(x.ops[1])
           u == Unary("Neg", d)
<1>1. DOMAIN x.ops = 1..1 /\ \A k \in DOMAIN x.ops : IsPlace(x.ops[k]) \/ IsImmOp(x.ops[k])
  BY UsualOperands
<1>2. T!NamesRip(x) <=> ~R!HasOperand(d)
  BY <1>1, NamesRipIs
<1>3. R!AsmOperand(d) = Recoded(x.ops[1]) /\ ~R!IsReg(d, "RIP")
  BY <1>1, OperandCompiles
<1>4. Lifted(x) = <<Assign(d, u)>>
  BY LiftedIs
<1> HIDE DEF d
<1>5. u.kind = "un" /\ u.op = "Neg" /\ u.operand = d
  BY DEF Unary
<1> HIDE DEF u
<1>6. ~R!Computes(u) /\ ~R!IsExpressionValue(u)
  BY <1>5 DEF R!Computes, R!IsExpressionValue
<1>7. R!EmitStatement(Assign(d, u)) = R!EmitWrite(d, u, FALSE)
  BY <1>3 DEF Assign, R!EmitStatement
<1>8. R!HasOperand(d) => R!EmitStatement(Assign(d, u)) = Answer(x)
  <2> HAVE R!HasOperand(d)
  <2>1. R!UnaryInst(u.op) = "neg"
    BY <1>5 DEF R!UnaryInst
  <2>2. R!EmitWrite(d, u, FALSE) = R!EmitUnary("neg", R!AsmOperand(d), R!AsmOperand(d))
    BY <1>5, <1>6, <2>1 DEF R!EmitWrite, R!EmitExpression
  <2>3. R!EmitUnary("neg", R!AsmOperand(d), R!AsmOperand(d)) =
          R!Emitted(<<R!Insn("neg", <<Recoded(x.ops[1])>>)>>)
    BY <1>3, InPlaceInsn DEF R!EmitUnary
  <2>4. Recompiled(x) = <<R!Insn("neg", <<Recoded(x.ops[1])>>)>>
    BY RecompiledIs DEF R!Insn, Insn
  <2>5. R!Emitted(Recompiled(x)) = Answer(x)
    BY <1>2, EmittedAnswers
  <2> QED BY <1>7, <2>2, <2>3, <2>4, <2>5
<1>9. ~R!HasOperand(d) => R!EmitStatement(Assign(d, u)) = Answer(x)
  <2> HAVE ~R!HasOperand(d)
  <2>1. R!EmitWrite(d, u, FALSE) = R!Throws
    BY DEF R!EmitWrite
  <2>2. Refused(x)
    BY <1>2 DEF Refused
  <2> QED BY <1>7, <2>1, <2>2 DEF Answer
<1> DEFINE s == Assign(d, u)
<1>10. Lifted(x) = <<s>> /\ R!EmitStatement(s) = Answer(x)
  BY <1>4, <1>8, <1>9
<1> HIDE DEF s
<1> QED BY <1>10

LEMMA BareEncodes ==
  ASSUME NEW id \in CondJumpIds \cup {"jmp", "pushfq", "popfq"}, NEW y,
         \/ id \in {"pushfq", "popfq"} /\ y = Insn(id, <<>>)
         \/ id \in CondJumpIds \cup {"jmp"} /\ \E o : y = Insn(id, <<o>>)
  PROVE  R!Encodable(y) /\ R!Encoded(y) = y
<1>1. y.id = id /\ (Len(y.ops) = 0 \/ (Len(y.ops) = 1 /\ id \in CondJumpIds \cup {"jmp"}))
  BY DEF Insn
<1> QED BY <1>1 DEF R!Encodable, R!Encoded, R!CondJumpIds, CondJumpIds

LEMMA JumpAnswers ==
  ASSUME NEW x \in Usual, x.id \in CondJumpIds \cup {"jmp"}
  PROVE  Len(Lifted(x)) = 1 /\ R!EmitStatement(Lifted(x)[1]) = Answer(x)
<1> DEFINE n == x.ops[1].imm
           e == IF x.id = "jmp" THEN ImmV(n) ELSE Selected(x)
           y == Insn(x.id, <<Recoded(x.ops[1])>>)
<1>1. DOMAIN x.ops = 1..1 /\ x.ops[1].type = "imm" /\ IsImmOp(x.ops[1])
  BY UsualOperands DEF IsImmOp
<1>2. ~Refused(x) /\ Coded(x) = <<y>>
  <2>1. Recompiled(x) = <<y>>
    BY RecompiledIs
  <2>2. R!Encodable(y) /\ R!Encoded(y) = y
    BY BareEncodes DEF CondJumpIds
  <2>3. ~T!NamesRip(x)
    BY <1>1 DEF T!NamesRip
  <2> HIDE DEF y
  <2> QED BY <2>1, <2>2, <2>3 DEF Refused, Coded, CondJumpIds
<1>3. y = Insn(x.id, <<R!Target(n % Modulus[64])>>)
  BY <1>1 DEF Recoded, R!Target, R!ImmOp, ImmOp
<1> HIDE DEF y
<1>4. Lifted(x) = <<Assign(RegV("RIP", 64), e)>>
  BY LiftedIs DEF CondJumpIds
<1> HIDE DEF e
<1>5. R!EmitStatement(Assign(RegV("RIP", 64), e)) = R!EmitRipAssign(e)
  BY DEF Assign, RegV, R!EmitStatement, R!IsReg
<1>6. R!EmitRipAssign(e) = <<y>>
  <2>1. CASE x.id = "jmp"
    <3>1. e.kind = "imm" /\ e.value = n % Modulus[64]
      BY <2>1 DEF ImmV, e
    <3> QED BY <1>3, <2>1, <3>1 DEF R!EmitRipAssign, R!Insn, Insn
  <2>2. CASE x.id \in CondJumpIds
    <3> DEFINE c == ConditionOf(x.id)
    <3>1. /\ e.kind = "cond" /\ e.condition = c
          /\ e.true_expr.kind = "imm" /\ e.true_expr.value = n % Modulus[64]
      BY <2>2 DEF e, Selected, Conditional, ImmV, CondJumpIds
    <3>2. /\ c.kind = "bin" /\ R!HasCondCode(c.op) /\ R!CondCode(c.op) = x.id
          /\ c.left.kind = "reg" /\ c.left.reg \in R!FlagRegs /\ ~R!HasOperand(c.left)
      BY <2>2, GPRAssumption DEF R!HasOperand, R!HasRegOperand, ConditionOf, Binary, RegV, CondJumpIds, R!HasCondCode, R!CondCode, R!FlagRegs
    <3> HIDE DEF c
    <3> QED BY <1>3, <3>1, <3>2 DEF R!EmitRipAssign, R!Insn, Insn
  <2> QED BY <2>1, <2>2
<1> QED BY <1>2, <1>4, <1>5, <1>6 DEF Answer

LEMMA StackNodes ==
  /\ StackSlot.kind = "mem" /\ R!IsStackTop(StackSlot) /\ R!HasOperand(StackSlot)
  /\ R!AsmOperand(StackSlot).type = "mem"
  /\ \A op : /\ Adjusted(op).kind = "assign"
             /\ Adjusted(op).value.kind = "bin"
             /\ \A q : R!AdjustsRsp(Adjusted(op), q) <=> op = q
<1>1. StackSlot.kind = "mem" /\ R!IsStackTop(StackSlot) /\ R!HasOperand(StackSlot)
  BY GPRAssumption DEF StackSlot, MemV, RegV, NullValue, R!IsStackTop, R!IsReg, R!HasOperand,
                       R!HasRegOperand
<1>2. R!AsmOperand(StackSlot).type = "mem"
  BY <1>1 DEF R!AsmOperand, R!MemOp
<1>3. ImmV(Slot).kind = "imm" /\ ImmV(Slot).value = Slot
  BY ScaleAssumption DEF ImmV, Widths, Sizes
<1>4. ASSUME NEW op
      PROVE  /\ Adjusted(op).kind = "assign" /\ Adjusted(op).value.kind = "bin"
             /\ \A q : R!AdjustsRsp(Adjusted(op), q) <=> op = q
  <2> DEFINE v == ImmV(Slot)
             r == RegV("RSP", 64)
  <2>1. r.kind = "reg" /\ r.reg = "RSP"
    BY DEF RegV
  <2>2. v.kind = "imm" /\ v.value = Slot
    BY <1>3
  <2>3. Adjusted(op) = Assign(r, Binary(op, r, v))
    BY DEF Adjusted
  <2> HIDE DEF v, r
  <2> QED BY <2>1, <2>2, <2>3 DEF Assign, Binary, R!AdjustsRsp, R!IsRspAdjust, R!IsReg
<1> QED BY <1>1, <1>2, <1>4

LEMMA PushesPair ==
  ASSUME NEW e, e.kind \in {"reg", "imm", "mem"}
  PROVE  LET L == PushLifted(e)
         IN Len(L) = 2 /\ R!IsPush(L[1], L[2]) /\ R!EmitPair(L[1], L[2]) = R!EmitStackOp("push", e)
<1> DEFINE f == Adjusted("Sub")
           s == Store(StackSlot, e)
<1>1. s.kind = "store" /\ s.address = StackSlot /\ s.value = e
  BY DEF Store
<1>2. PushLifted(e) = <<f, s>>
  BY DEF PushLifted
<1>3. R!AdjustsRsp(f, "Sub") /\ R!IsStackTop(StackSlot)
  BY StackNodes
<1> HIDE DEF f, s
<1>4. R!IsPush(f, s)
  BY <1>1, <1>3 DEF R!IsPush, R!IsExpressionValue
<1>5. R!EmitPair(f, s) = R!EmitStackOp("push", e)
  BY <1>1, <1>4 DEF R!EmitPair
<1> QED BY <1>2, <1>4, <1>5

LEMMA PushAnswers ==
  ASSUME NEW x \in Usual, x.id \in {"push", "pushfq", "call"}
  PROVE  LET L == Lifted(x)
         IN Len(L) = 2 /\ R!IsPush(L[1], L[2]) /\ R!EmitPair(L[1], L[2]) = Answer(x)
<1>1. CASE x.id = "push"
  <2> DEFINE e == Operand(x.ops[1])
  <2>1. DOMAIN x.ops = 1..1 /\ \A k \in DOMAIN x.ops : IsPlace(x.ops[k]) \/ IsImmOp(x.ops[k])
    BY <1>1, UsualOperands
  <2>2. T!NamesRip(x) <=> ~R!HasOperand(e)
    BY <2>1, NamesRipIs
  <2>3. /\ R!AsmOperand(e) = Recoded(x.ops[1]) /\ ~R!IsReg(e, "RFLAGS")
        /\ e.kind \in {"reg", "imm", "mem"}
    BY <2>1, OperandCompiles
  <2>4. Lifted(x) = PushLifted(e)
    BY <1>1, LiftedIs
  <2> HIDE DEF e
  <2>5. R!HasOperand(e) => R!EmitStackOp("push", e) = Answer(x)
    <3> HAVE R!HasOperand(e)
    <3>1. R!EmitStackOp("push", e) = R!Emitted(<<R!Insn("push", <<Recoded(x.ops[1])>>)>>)
      BY <2>3 DEF R!EmitStackOp
    <3>2. Recompiled(x) = <<R!Insn("push", <<Recoded(x.ops[1])>>)>>
      BY <1>1, RecompiledIs DEF R!Insn, Insn
    <3>3. R!Emitted(Recompiled(x)) = Answer(x)
      BY <1>1, <2>2, EmittedAnswers
    <3> QED BY <3>1, <3>2, <3>3
  <2>6. ~R!HasOperand(e) => R!EmitStackOp("push", e) = Answer(x)
    BY <2>2, <2>3 DEF R!EmitStackOp, Answer, Refused
  <2> QED BY <2>3, <2>4, <2>5, <2>6, PushesPair
<1>2. CASE x.id = "pushfq"
  <2> DEFINE e == RegV("RFLAGS", 64)
             y == Insn("pushfq", <<>>)
  <2>1. Lifted(x) = PushLifted(e) /\ e.kind = "reg" /\ R!IsReg(e, "RFLAGS")
    BY <1>2, LiftedIs DEF RegV, R!IsReg
  <2>2. Recompiled(x) = <<y>> /\ R!Encodable(y) /\ R!Encoded(y) = y
    BY <1>2, RecompiledIs, BareEncodes
  <2>3. DOMAIN x.ops = 1..0
    BY <1>2, UsualOperands
  <2> HIDE DEF e
  <2>4. R!EmitStackOp("push", e) = <<y>>
    BY <2>1, GPRAssumption DEF R!EmitStackOp, R!IsReg, R!HasOperand, R!HasRegOperand, R!Insn, Insn
  <2> HIDE DEF y
  <2>5. Answer(x) = <<y>>
    BY <1>2, <2>2, <2>3 DEF Answer, Refused, Coded, T!NamesRip
  <2> QED BY <2>1, <2>4, <2>5, PushesPair
<1>3. CASE x.id = "call"
  <2> DEFINE e == RegV("RIP", 64)
  <2>1. Lifted(x) = PushLifted(e) /\ e.kind = "reg" /\ e.reg = "RIP"
    BY <1>3, LiftedIs DEF RegV
  <2> HIDE DEF e
  <2>2. R!EmitStackOp("push", e) = R!Throws
    BY <2>1, GPRAssumption DEF R!EmitStackOp, R!IsReg, R!HasOperand, R!HasRegOperand
  <2>3. Answer(x) = R!Throws
    BY <1>3 DEF Answer, Refused
  <2> QED BY <2>1, <2>2, <2>3, PushesPair
<1> QED BY <1>1, <1>2, <1>3

LEMMA PopsPair ==
  ASSUME NEW d, d.kind = "reg"
  PROVE  LET L == PopLifted(d)
         IN Len(L) = 2 /\ R!IsPop(L[1], L[2]) /\ R!EmitPair(L[1], L[2]) = R!EmitStackOp("pop", d)
<1> DEFINE f == Assign(d, StackSlot)
           s == Adjusted("Add")
<1>1. f.kind = "assign" /\ f.dst = d /\ f.value = StackSlot
  BY DEF Assign
<1>2. PopLifted(d) = <<f, s>>
  BY DEF PopLifted, Put
<1>3. R!AdjustsRsp(s, "Add") /\ R!IsStackTop(StackSlot) /\ StackSlot.kind = "mem"
  BY StackNodes
<1> HIDE DEF f, s
<1>4. R!IsPop(f, s)
  BY <1>1, <1>3 DEF R!IsPop
<1>5. ~R!IsPush(f, s)
  BY <1>1, <1>3 DEF R!IsPush, R!AdjustsRsp, R!IsRspAdjust
<1>6. R!EmitPair(f, s) = R!EmitStackOp("pop", d)
  BY <1>1, <1>5 DEF R!EmitPair
<1> QED BY <1>2, <1>4, <1>6

LEMMA PopAnswers ==
  ASSUME NEW x \in Usual, x.id \in {"pop", "popfq", "ret"},
         x.id = "pop" => x.ops[1].type = "reg"
  PROVE  LET L == Lifted(x)
         IN Len(L) = 2 /\ R!IsPop(L[1], L[2]) /\ R!EmitPair(L[1], L[2]) = Answer(x)
<1>1. CASE x.id = "pop"
  <2> DEFINE d == Operand(x.ops[1])
  <2>1. DOMAIN x.ops = 1..1 /\ \A k \in DOMAIN x.ops : IsPlace(x.ops[k]) \/ IsImmOp(x.ops[k])
    BY <1>1, UsualOperands
  <2>2. T!NamesRip(x) <=> ~R!HasOperand(d)
    BY <2>1, NamesRipIs
  <2>3. /\ R!AsmOperand(d) = Recoded(x.ops[1]) /\ ~R!IsReg(d, "RFLAGS")
        /\ d.kind = "reg" /\ x.ops[1].type = "reg" /\ R!HasOperand(d)
    BY <1>1, <2>1, OperandCompiles
  <2>4. Lifted(x) = PopLifted(d)
    BY <1>1, LiftedIs
  <2> HIDE DEF d
  <2>5. R!EmitStackOp("pop", d) = Answer(x)
    <3>1. R!EmitStackOp("pop", d) = R!Emitted(<<R!Insn("pop", <<Recoded(x.ops[1])>>)>>)
      BY <2>3 DEF R!EmitStackOp
    <3>2. Recompiled(x) = <<R!Insn("pop", <<Recoded(x.ops[1])>>)>>
      BY <1>1, RecompiledIs DEF R!Insn, Insn
    <3>3. R!Emitted(Recompiled(x)) = Answer(x)
      BY <1>1, <2>2, <2>3, EmittedAnswers
    <3> QED BY <3>1, <3>2, <3>3
  <2> QED BY <2>3, <2>4, <2>5, PopsPair
<1>2. CASE x.id = "popfq"
  <2> DEFINE d == RegV("RFLAGS", 64)
             y == Insn("popfq", <<>>)
  <2>1. Lifted(x) = PopLifted(d) /\ d.kind = "reg" /\ R!IsReg(d, "RFLAGS")
    BY <1>2, LiftedIs DEF RegV, R!IsReg
  <2>2. Recompiled(x) = <<y>> /\ R!Encodable(y) /\ R!Encoded(y) = y
    BY <1>2, RecompiledIs, BareEncodes
  <2>3. DOMAIN x.ops = 1..0
    BY <1>2, UsualOperands
  <2> HIDE DEF d
  <2>4. R!EmitStackOp("pop", d) = <<y>>
    BY <2>1, GPRAssumption DEF R!EmitStackOp, R!IsReg, R!HasOperand, R!HasRegOperand, R!Insn, Insn
  <2> HIDE DEF y
  <2>5. Answer(x) = <<y>>
    BY <1>2, <2>2, <2>3 DEF Answer, Refused, Coded, T!NamesRip
  <2> QED BY <2>1, <2>4, <2>5, PopsPair
<1>3. CASE x.id = "ret"
  <2> DEFINE d == RegV("RIP", 64)
  <2>1. Lifted(x) = PopLifted(d) /\ d.kind = "reg" /\ d.reg = "RIP"
    BY <1>3, LiftedIs DEF RegV
  <2> HIDE DEF d
  <2>2. R!EmitStackOp("pop", d) = R!Throws
    BY <2>1, GPRAssumption DEF R!EmitStackOp, R!IsReg, R!HasOperand, R!HasRegOperand
  <2>3. Answer(x) = R!Throws
    BY <1>3 DEF Answer, Refused
  <2> QED BY <2>1, <2>2, <2>3, PopsPair
<1> QED BY <1>1, <1>2, <1>3

\* A pop to memory has no window and a mov that does not encode.
LEMMA MemoryPopAnswers ==
  ASSUME NEW x \in Usual, x.id = "pop", x.ops[1].type # "reg"
  PROVE  LET L == Lifted(x)
         IN /\ Len(L) = 2 /\ ~R!IsPush(L[1], L[2]) /\ ~R!IsPop(L[1], L[2])
            /\ R!EmitStatement(L[1]) = R!Throws /\ Answer(x) = R!Throws
<1> DEFINE d == Operand(x.ops[1])
           f == Store(d, StackSlot)
           s == Adjusted("Add")
<1>1. d.kind = "mem" /\ x.ops[1].type = "mem"
  BY UsualOperands, OperandCompiles DEF IsPlace, IsRegOp, IsMemOp
<1>2. Lifted(x) = <<f, s>>
  BY <1>1, LiftedIs DEF PopLifted, Put
<1>3. f.kind = "store" /\ f.address = d /\ f.value = StackSlot
  BY DEF Store
<1>4. StackSlot.kind = "mem" /\ R!AsmOperand(StackSlot).type = "mem"
  BY StackNodes
<1> HIDE DEF d, f, s
<1>5. ~R!IsPush(f, s) /\ ~R!IsPop(f, s)
  BY <1>3 DEF R!IsPush, R!IsPop, R!AdjustsRsp
<1>6. R!EmitStatement(f) = R!Throws
  <2> DEFINE y == R!Insn("mov", <<R!AsmOperand(d), R!AsmOperand(StackSlot)>>)
  <2>1. R!EmitStatement(f) = R!EmitWrite(d, StackSlot, TRUE)
    BY <1>3 DEF R!EmitStatement
  <2>2. R!AsmOperand(d).type = "mem"
    BY <1>1 DEF R!AsmOperand, R!MemOp
  <2>3. ~R!Encodable(y)
    BY <1>4, <2>2 DEF R!Encodable, R!EncodableBinary, R!Insn
  <2> HIDE DEF y
  <2>4. R!Emitted(<<y>>) = R!Throws
    BY <2>3 DEF R!Emitted
  <2>5. ~R!Computes(StackSlot) /\ R!IsExpressionValue(StackSlot)
    BY <1>4 DEF R!Computes, R!IsExpressionValue
  <2> QED BY <1>4, <2>1, <2>4, <2>5 DEF R!EmitWrite, R!EmitExpression, y
<1>7. Answer(x) = R!Throws
  BY <1>1 DEF Answer, Refused
<1> QED BY <1>2, <1>5, <1>6, <1>7

LEMMA TopIsTop ==
  ASSUME NEW o, IsPlace(o) \/ IsImmOp(o), R!IsStackTop(Operand(o))
  PROVE  T!IsTop(o)
<1> DEFINE v == Operand(o)
           b == OptionalReg(o.base)
           j == OptionalReg(o.index)
<1>1. v.kind = "mem" /\ v.size = 8 /\ v.displacement = 0 /\ v.index.kind = "null" /\ R!IsReg(v.base, "RSP")
  BY DEF R!IsStackTop
<1>2. o.type = "mem" /\ o.base \in MemBases /\ o.index \in MemBases
  BY <1>1, OperandCompiles DEF IsPlace, IsRegOp, IsMemOp, IsImmOp
<1>3. v = MemV(o.size, b, j, o.scale, o.disp)
  BY <1>2 DEF Operand
<1>4. (j.kind = "null" => o.index = X86_REG_INVALID) /\ (R!IsReg(b, "RSP") => o.base.family = "RSP")
  BY <1>2, BaseCompiles
<1> HIDE DEF b, j
<1>5. v.base = b /\ v.index = j /\ v.size = o.size /\ v.displacement = o.disp
  BY <1>3 DEF MemV
<1> QED BY <1>1, <1>2, <1>4, <1>5 DEF T!IsTop, T!X86_REG_INVALID, T!X86Reg, X86_REG_INVALID, X86Reg

OpensPush(s) == R!AdjustsRsp(s, "Sub")
ClosesPush(s) == s.kind = "store" /\ R!IsStackTop(s.address) /\ R!IsExpressionValue(s.value)
OpensPop(s) == s.kind = "assign" /\ R!IsStackTop(s.value)
ClosesPop(s) == R!AdjustsRsp(s, "Add")

LEMMA MovEnds ==
  ASSUME NEW x \in Usual, x.id \in MovIds \cup {"lea"}, NEW s, <<s>> = Lifted(x)
  PROVE  /\ s.kind \in {"assign", "store"} /\ ~OpensPush(s) /\ ~ClosesPop(s)
         /\ OpensPop(s) \/ ClosesPush(s) => T!MovesTop(x)
<1> DEFINE d == Operand(x.ops[1])
           e == Operand(x.ops[2])
<1>1. /\ IsPlace(x.ops[1]) \/ IsImmOp(x.ops[1])
      /\ IsPlace(x.ops[2]) \/ IsImmOp(x.ops[2])
  BY UsualOperands
<1>2. e.kind \in {"reg", "imm", "mem"}
  BY <1>1, OperandCompiles
<1>3. R!IsStackTop(d) \/ R!IsStackTop(e) => T!MovesTop(x)
  BY <1>1, TopIsTop DEF T!MovesTop, T!MovIds, MovIds
<1>4. s = Put(d, e) \/ s = Assign(d, e)
  BY LiftedIs
<1> HIDE DEF d, e
<1>5. \/ s.kind = "assign" /\ s.dst = d /\ s.value = e
      \/ s.kind = "store" /\ s.address = d /\ s.value = e
  BY <1>4 DEF Put, Assign, Store
<1> QED BY <1>2, <1>3, <1>5 DEF OpensPush, ClosesPush, OpensPop, ClosesPop, R!AdjustsRsp, R!IsRspAdjust

LEMMA BinaryEnds ==
  ASSUME NEW x \in Usual, x.id \in BinaryIds, NEW s, <<s>> = Lifted(x)
  PROVE  /\ s.kind \in {"assign", "store"} /\ ~OpensPop(s) /\ ~ClosesPush(s)
         /\ OpensPush(s) \/ ClosesPop(s) => T!AdjustsByASlot(x)
<1> DEFINE d == Operand(x.ops[1])
           e == Operand(x.ops[2])
           b == Binary(BinaryOpOf(x.id), d, e)
<1>1. IsPlace(x.ops[1]) /\ (IsPlace(x.ops[2]) \/ IsImmOp(x.ops[2]))
  BY UsualOperands
<1>2. s = Put(d, b)
  BY LiftedIs
<1>3. R!IsReg(d, "RSP") => x.ops[1].type = "reg" /\ x.ops[1].reg.family = "RSP"
  <2>1. d.kind = x.ops[1].type
    BY <1>1, OperandCompiles
  <2>2. x.ops[1].type = "reg" => d.reg = x.ops[1].reg.family
    BY DEF Operand, RegV, FamilyOf
  <2> QED BY <2>1, <2>2 DEF R!IsReg
<1>4. e.kind = "imm" /\ e.value = Slot => x.ops[2].type = "imm" /\ x.ops[2].imm % Modulus[64] = Slot
  <2>1. e.kind = x.ops[2].type
    BY <1>1, OperandCompiles
  <2>2. x.ops[2].type = "imm" => e.value = x.ops[2].imm % Modulus[64]
    BY DEF Operand, ImmV
  <2> QED BY <2>1, <2>2
<1>5. BinaryOpOf(x.id) \in {"Add", "Sub"} => x.id \in {"add", "sub"}
  BY DEF BinaryOpOf, BinaryIds
<1> DEFINE op == BinaryOpOf(x.id)
<1>6. b.kind = "bin" /\ b.op = op /\ b.left = d /\ b.right = e
  BY DEF Binary
<1> HIDE DEF d, e, b, op
<1>7. \/ s.kind = "assign" /\ s.dst = d /\ s.value = b
      \/ s.kind = "store" /\ s.address = d /\ s.value = b
  BY <1>2 DEF Put, Assign, Store
<1>8. ~OpensPop(s) /\ ~ClosesPush(s)
  BY <1>6, <1>7 DEF OpensPop, ClosesPush, R!IsStackTop, R!IsExpressionValue
<1>9. ASSUME OpensPush(s) \/ ClosesPop(s) PROVE T!AdjustsByASlot(x)
  <2>1. /\ s.kind = "assign" /\ R!IsReg(d, "RSP") /\ e.kind = "imm" /\ e.value = Slot
        /\ op \in {"Add", "Sub"}
    BY <1>6, <1>7, <1>9 DEF OpensPush, ClosesPop, R!AdjustsRsp, R!IsRspAdjust
  <2> QED BY <1>3, <1>4, <1>5, <2>1 DEF T!AdjustsByASlot, T!Imm, op
<1> QED BY <1>7, <1>8, <1>9

LEMMA OtherEnds ==
  ASSUME NEW x \in Usual, x.id \in CondJumpIds \cup {"jmp", "neg"}, NEW s, <<s>> = Lifted(x)
  PROVE  s.kind = "assign" /\ ~OpensPush(s) /\ ~ClosesPush(s) /\ ~OpensPop(s) /\ ~ClosesPop(s)
<1> DEFINE d == IF x.id = "neg" THEN Operand(x.ops[1]) ELSE RegV("RIP", 64)
           e == IF x.id = "neg" THEN Unary("Neg", Operand(x.ops[1]))
                ELSE IF x.id = "jmp" THEN ImmV(x.ops[1].imm) ELSE Selected(x)
<1>1. s = Assign(d, e)
  BY LiftedIs DEF CondJumpIds
<1>2. e.kind \in {"un", "imm", "cond"}
  BY DEF Unary, ImmV, Selected, Conditional
<1> HIDE DEF d, e
<1>3. s.kind = "assign" /\ s.value = e
  BY <1>1 DEF Assign
<1> QED BY <1>2, <1>3 DEF OpensPush, ClosesPush, OpensPop, ClosesPop, R!AdjustsRsp, R!IsRspAdjust,
                          R!IsStackTop

LEMMA StackEnds ==
  ASSUME NEW x \in Usual, x.id \in {"push", "pushfq", "call", "pop", "popfq", "ret"},
         NEW s, NEW t, <<s, t>> = Lifted(x)
  PROVE  /\ s.kind \in {"assign", "store"} /\ t.kind \in {"assign", "store"}
         /\ ~OpensPush(t) /\ ~OpensPop(t) /\ ~ClosesPop(s)
         /\ ClosesPush(s) => T!PopsToTop(x)
<1> USE DEF OpensPush, OpensPop, ClosesPop, ClosesPush
<1>1. StackSlot.kind = "mem" /\ R!IsStackTop(StackSlot)
  BY StackNodes
<1>2. CASE x.id \in {"push", "pushfq", "call"}
  <2>1. PICK e : Lifted(x) = PushLifted(e)
    BY <1>2, LiftedIs
  <2>2. s = Adjusted("Sub") /\ t = Store(StackSlot, e)
    BY <2>1 DEF PushLifted
  <2>3. s.kind = "assign" /\ ~R!AdjustsRsp(s, "Add") /\ t.kind = "store"
    BY <2>2, StackNodes DEF Store
  <2> QED BY <2>3 DEF R!AdjustsRsp
<1>3. CASE x.id \in {"pop", "popfq", "ret"}
  <2> DEFINE d == IF x.id = "pop" THEN Operand(x.ops[1])
                  ELSE IF x.id = "popfq" THEN RegV("RFLAGS", 64) ELSE RegV("RIP", 64)
  <2>1. Lifted(x) = PopLifted(d)
    BY <1>3, LiftedIs
  <2>2. R!IsStackTop(d) => x.id = "pop" /\ T!IsTop(x.ops[1])
    <3>1. x.id = "pop" => IsPlace(x.ops[1])
      BY UsualOperands
    <3> QED BY <3>1, TopIsTop DEF RegV, R!IsStackTop
  <2> HIDE DEF d
  <2>3. s = Put(d, StackSlot) /\ t = Adjusted("Add")
    BY <2>1 DEF PopLifted
  <2>4. t.kind = "assign" /\ ~R!AdjustsRsp(t, "Sub") /\ t.value.kind = "bin"
    BY <2>3, StackNodes
  <2>5. \/ s.kind = "assign" /\ s.value = StackSlot
        \/ s.kind = "store" /\ s.address = d
    BY <2>3 DEF Put, Assign, Store
  <2> QED BY <1>1, <2>2, <2>4, <2>5 DEF R!AdjustsRsp, R!IsRspAdjust, R!IsStackTop, T!PopsToTop
<1> QED BY <1>2, <1>3

LEMMA AnswersAll ==
  ASSUME NEW x \in Usual
  PROVE  LET L == Lifted(x)
         IN /\ Len(L) \in {1, 2}
            /\ \/ \E s : L = <<s>>
               \/ \E s, t : L = <<s, t>>
            /\ Len(L) = 1 => R!EmitStatement(L[1]) = Answer(x)
            /\ Len(L) = 2 /\ (R!IsPush(L[1], L[2]) \/ R!IsPop(L[1], L[2])) =>
                 R!EmitPair(L[1], L[2]) = Answer(x)
            /\ Len(L) = 2 /\ ~(R!IsPush(L[1], L[2]) \/ R!IsPop(L[1], L[2])) =>
                 R!EmitStatement(L[1]) = R!Throws /\ Answer(x) = R!Throws
<1> DEFINE L == Lifted(x)
<1>1. x.id \in HandledIds
  BY DEF Usual
<1>2. CASE x.id \in MovIds \cup {"lea"} \cup BinaryIds \cup CondJumpIds \cup {"jmp", "neg"}
  <2>1. \E s : L = <<s>>
    BY <1>2, LiftedIs
  <2>2. Len(L) = 1 /\ R!EmitStatement(L[1]) = Answer(x)
    BY <1>2, MovAnswers, BinaryAnswers, JumpAnswers, NegAnswers
  <2> HIDE DEF L
  <2> QED BY <2>1, <2>2 DEF L
<1>3. CASE x.id \in {"push", "pushfq", "call", "pop", "popfq", "ret"}
  <2>1. \E s, t : L = <<s, t>>
    BY <1>3, LiftedIs DEF PushLifted, PopLifted
  <2>2. CASE x.id \in {"push", "pushfq", "call"}
    <3>1. Len(L) = 2 /\ R!IsPush(L[1], L[2]) /\ R!EmitPair(L[1], L[2]) = Answer(x)
      BY <2>2, PushAnswers
    <3> HIDE DEF L
    <3> QED BY <2>1, <3>1 DEF L
  <2>3. CASE x.id \in {"pop", "popfq", "ret"} /\ (x.id = "pop" => x.ops[1].type = "reg")
    <3>1. Len(L) = 2 /\ R!IsPop(L[1], L[2]) /\ R!EmitPair(L[1], L[2]) = Answer(x)
      BY <2>3, PopAnswers
    <3> HIDE DEF L
    <3> QED BY <2>1, <3>1 DEF L
  <2>4. CASE x.id = "pop" /\ x.ops[1].type # "reg"
    <3>1. /\ Len(L) = 2 /\ ~R!IsPush(L[1], L[2]) /\ ~R!IsPop(L[1], L[2])
          /\ R!EmitStatement(L[1]) = R!Throws /\ Answer(x) = R!Throws
      BY <2>4, MemoryPopAnswers
    <3> HIDE DEF L
    <3> QED BY <2>1, <3>1 DEF L
  <2> QED BY <1>3, <2>2, <2>3, <2>4
<1> QED BY <1>1, <1>2, <1>3 DEF HandledIds, BareIds

StackIds == {"push", "pushfq", "call", "pop", "popfq", "ret"}

LEMMA LiftedShape ==
  ASSUME NEW x \in Usual
  PROVE  /\ x.id \in StackIds => \E s, t : Lifted(x) = <<s, t>>
         /\ x.id \notin StackIds =>
              /\ \E s : Lifted(x) = <<s>>
              /\ x.id \in MovIds \cup {"lea"} \cup BinaryIds \cup CondJumpIds \cup {"jmp", "neg"}
<1>1. CASE x.id \in StackIds
  BY <1>1, LiftedIs DEF StackIds, PushLifted, PopLifted
<1>2. CASE x.id \notin StackIds
  <2>1. x.id \in MovIds \cup {"lea"} \cup BinaryIds \cup CondJumpIds \cup {"jmp", "neg"}
    BY <1>2 DEF StackIds, Usual, HandledIds, BareIds
  <2> QED BY <1>2, <2>1, LiftedIs
<1> QED BY <1>1, <1>2

\* No window spans two instructions, unless one adjusts RSP by a slot and the
\* other one moves the top of the stack.
LEMMA NoStraddle ==
  ASSUME NEW x \in Usual, NEW y \in Usual,
         LET s == Lifted(x)[Len(Lifted(x))]
             t == Lifted(y)[1]
         IN R!IsPush(s, t) \/ R!IsPop(s, t)
  PROVE  \/ T!AdjustsByASlot(x) /\ (T!MovesTop(y) \/ T!PopsToTop(y))
         \/ T!MovesTop(x) /\ T!AdjustsByASlot(y)
<1> DEFINE s == Lifted(x)[Len(Lifted(x))]
           t == Lifted(y)[1]
<1>1. \/ OpensPush(s) /\ ClosesPush(t)
      \/ OpensPop(s) /\ ClosesPop(t)
  BY DEF R!IsPush, R!IsPop, OpensPush, ClosesPush, OpensPop, ClosesPop
<1>2. /\ OpensPush(s) => T!AdjustsByASlot(x)
      /\ OpensPop(s) => T!MovesTop(x)
  <2>1. CASE x.id \notin StackIds
    <3>1. Lifted(x) = <<s>>
      BY <2>1, LiftedShape
    <3> HIDE DEF s
    <3> QED BY <2>1, <3>1, LiftedShape, MovEnds, BinaryEnds, OtherEnds
  <2>2. CASE x.id \in StackIds
    <3>1. PICK u, v : Lifted(x) = <<u, v>>
      BY <2>2, LiftedShape
    <3>2. s = v
      BY <3>1
    <3> HIDE DEF s
    <3> QED BY <2>2, <3>1, <3>2, StackEnds DEF StackIds
  <2> QED BY <2>1, <2>2
<1>3. /\ ClosesPush(t) => T!MovesTop(y) \/ T!PopsToTop(y)
      /\ ClosesPop(t) => T!AdjustsByASlot(y)
  <2>1. CASE y.id \notin StackIds
    <3>1. Lifted(y) = <<t>>
      BY <2>1, LiftedShape
    <3> HIDE DEF t
    <3> QED BY <2>1, <3>1, LiftedShape, MovEnds, BinaryEnds, OtherEnds
  <2>2. CASE y.id \in StackIds
    <3>1. PICK u, v : Lifted(y) = <<u, v>>
      BY <2>2, LiftedShape
    <3>2. t = u
      BY <3>1
    <3> HIDE DEF t
    <3> QED BY <2>2, <3>1, <3>2, StackEnds DEF StackIds
  <2> QED BY <2>1, <2>2
<1> HIDE DEF s, t
<1> QED BY <1>1, <1>2, <1>3

LEMMA LiftedKinds ==
  ASSUME NEW x \in Usual, NEW n \in 1..Len(Lifted(x))
  PROVE  Lifted(x)[n].kind \in {"assign", "store"}
<1>1. CASE x.id \notin StackIds
  <2>1. PICK s : Lifted(x) = <<s>>
    BY <1>1, LiftedShape
  <2>2. s.kind \in {"assign", "store"}
    BY <1>1, <2>1, LiftedShape, MovEnds, BinaryEnds, OtherEnds
  <2> QED BY <2>1, <2>2
<1>2. CASE x.id \in StackIds
  <2>1. PICK s, t : Lifted(x) = <<s, t>>
    BY <1>2, LiftedShape
  <2>2. s.kind \in {"assign", "store"} /\ t.kind \in {"assign", "store"}
    BY <1>2, <2>1, StackEnds DEF StackIds
  <2> QED BY <2>1, <2>2
<1> QED BY <1>1, <1>2

LEMMA AnswerThrows ==
  ASSUME NEW x \in Usual
  PROVE  Answer(x) = R!Throws <=> Refused(x)
<1>1. ASSUME ~Refused(x) PROVE Answer(x) # R!Throws
  <2>1. 1 \in DOMAIN Recompiled(x) /\ Recompiled(x)[1].id \in {"mov", x.id}
    BY DEF Recompiled, Insn
  <2>2. R!Encoded(Recompiled(x)[1]).id = Recompiled(x)[1].id
    BY DEF R!Encoded, R!Insn
  <2>3. Coded(x)[1].id \in {"mov", x.id}
    BY <2>1, <2>2 DEF Coded
  <2>4. x.id # "throw"
    BY DEF Usual, HandledIds, BareIds, MovIds, BinaryIds, CondJumpIds
  <2>5. R!Throws[1].id = "throw"
    BY DEF R!Throws, R!Insn
  <2> QED BY <1>1, <2>3, <2>4, <2>5 DEF Answer
<1> QED BY <1>1 DEF Answer

-----------------------------------------------------------------------------
(***************************************************************************)
(* The lifter appends, up to tags, Lifted of the instruction it handles.   *)
(***************************************************************************)
Extends(st, next, L) ==
  \E ts \in Seq(Statement) :
    /\ next.statements = st.statements \o ts
    /\ Len(ts) = Len(L)
    /\ \A n \in 1..Len(L) : Alike(ts[n], L[n])

LEMMA ExtendedByOne ==
  ASSUME NEW st, NEW next, NEW t \in Statement, NEW s, Alike(t, s),
         next.statements = Append(st.statements, t), st.statements \in Seq(Statement)
  PROVE  Extends(st, next, <<s>>)
<1>1. <<t>> \in Seq(Statement) /\ Append(st.statements, t) = st.statements \o <<t>>
  OBVIOUS
<1>2. \A n \in 1..Len(<<s>>) : Alike(<<t>>[n], <<s>>[n])
  <2>1. \A n \in 1..Len(<<s>>) : n = 1
    OBVIOUS
  <2> QED BY <2>1
<1> QED BY <1>1, <1>2 DEF Extends

LEMMA SingletonSeq ==
  ASSUME NEW Item, NEW ts \in Seq(Item), Len(ts) = 1
  PROVE  ts = <<ts[1]>> /\ ts[1] \in Item
<1> DEFINE us == <<ts[1]>>
<1>1. ts[1] \in Item /\ us \in Seq(Item) /\ Len(us) = 1 /\ us[1] = ts[1]
  OBVIOUS
<1> HIDE DEF us
<1>2. \A n \in 1..Len(ts) : ts[n] = us[n]
  BY <1>1
<1> QED BY <1>1, <1>2, SeqEqual DEF us

LEMMA ExtensionOfOne ==
  ASSUME NEW st, NEW next, NEW s, Extends(st, next, <<s>>)
  PROVE  \E t \in Statement : next.statements = st.statements \o <<t>> /\ Alike(t, s)
<1>1. PICK ts \in Seq(Statement) :
        /\ next.statements = st.statements \o ts
        /\ Len(ts) = Len(<<s>>)
        /\ \A n \in 1..Len(<<s>>) : Alike(ts[n], <<s>>[n])
  BY Zenon DEF Extends
<1>2. 1 \in 1..Len(<<s>>) /\ Len(<<s>>) = 1 /\ <<s>>[1] = s
  OBVIOUS
<1>3. ts = <<ts[1]>> /\ ts[1] \in Statement
  BY <1>1, <1>2, SingletonSeq
<1>4. Alike(ts[1], s)
  BY <1>1, <1>2
<1> QED BY <1>1, <1>3, <1>4

LEMMA AppendTwo ==
  ASSUME NEW Item, NEW ss \in Seq(Item), NEW u \in Item, NEW v \in Item
  PROVE  (ss \o <<u>>) \o <<v>> = ss \o <<u, v>> /\ <<u, v>> \in Seq(Item)
<1> DEFINE a == <<u>>
           b == <<v>>
           c == <<u, v>>
<1>1. /\ a \in Seq(Item) /\ Len(a) = 1 /\ a[1] = u
      /\ b \in Seq(Item) /\ Len(b) = 1 /\ b[1] = v
      /\ c \in Seq(Item) /\ Len(c) = 2 /\ c[1] = u /\ c[2] = v
  OBVIOUS
<1> HIDE DEF a, b, c
<1>2. /\ a \o b \in Seq(Item) /\ Len(a \o b) = 2
      /\ \A n \in 1..2 : (a \o b)[n] = IF n <= 1 THEN a[n] ELSE b[n - 1]
  <2>1. /\ a \o b \in Seq(Item) /\ Len(a \o b) = Len(a) + Len(b)
        /\ \A n \in 1..Len(a) + Len(b) : (a \o b)[n] = IF n <= Len(a) THEN a[n] ELSE b[n - Len(a)]
    BY <1>1, ConcatProperties, Zenon
  <2> QED BY <1>1, <2>1
<1>3. \A n \in 1..2 : (a \o b)[n] = c[n]
  BY <1>1, <1>2
<1>4. a \o b = c
  BY <1>1, <1>2, <1>3, SeqEqual
<1>5. (ss \o a) \o b = ss \o (a \o b)
  <2>1. \A p, q, r \in Seq(Item) : (p \o q) \o r = p \o (q \o r)
    BY ConcatAssociative
  <2> QED BY <1>1, <2>1
<1> QED BY <1>1, <1>4, <1>5 DEF a, b, c

LEMMA ExtendedByTwo ==
  ASSUME NEW st, NEW mid, NEW next, NEW s, NEW t,
         Extends(st, mid, <<s>>), Extends(mid, next, <<t>>), st.statements \in Seq(Statement)
  PROVE  Extends(st, next, <<s, t>>)
<1>1. PICK u \in Statement : mid.statements = st.statements \o <<u>> /\ Alike(u, s)
  BY ExtensionOfOne
<1>2. PICK v \in Statement : next.statements = mid.statements \o <<v>> /\ Alike(v, t)
  BY ExtensionOfOne
<1> DEFINE ss == st.statements
<1>3. (ss \o <<u>>) \o <<v>> = ss \o <<u, v>> /\ <<u, v>> \in Seq(Statement)
  <2>1. ss \in Seq(Statement)
    OBVIOUS
  <2> HIDE DEF ss
  <2> QED BY <2>1, AppendTwo
<1>4. Len(<<u, v>>) = Len(<<s, t>>) /\ \A n \in 1..Len(<<s, t>>) : n = 1 \/ n = 2
  OBVIOUS
<1>5. \A n \in 1..Len(<<s, t>>) : Alike(<<u, v>>[n], <<s, t>>[n])
  <2>1. /\ <<u, v>>[1] = u /\ <<u, v>>[2] = v
        /\ <<s, t>>[1] = s /\ <<s, t>>[2] = t
    OBVIOUS
  <2> QED BY <1>1, <1>2, <1>4, <2>1
<1>6. Len(<<u, v>>) = Len(<<s, t>>)
  OBVIOUS
<1>7. next.statements = st.statements \o <<u, v>>
  BY <1>1, <1>2, <1>3
<1> QED BY <1>3, <1>5, <1>6, <1>7 DEF Extends

LEMMA AssignsAlike ==
  ASSUME NEW st, StateInv(st), NEW dst \in Value, NEW e \in Expression
  PROVE  Extends(st, NewAssign(st, dst, e), <<Assign(dst, e)>>)
<1> DEFINE w == Bumped(st.versions, dst)
           d == TagWrite(dst, w)
           v == TagReads(e, st.versions)
           t == Assign(d, v)
           next == NewAssign(st, dst, e)
<1>1. Looks(d, dst) /\ LooksLike(v, e)
  BY TaggedLooks, TaggedReadsLook
<1>2. next.statements = Append(st.statements, t)
  BY DEF NewAssign
<1>3. st.statements \in Seq(Statement) /\ next.statements \in Seq(Statement)
  BY NewAssignKeepsInv DEF StateInv, LifterState
<1> HIDE DEF next, d, v
<1>4. Alike(t, Assign(dst, e))
  BY <1>1 DEF Alike, Assign, Destination
<1> HIDE DEF t
<1>5. t \in Statement
  <2> DEFINE ss == Append(st.statements, t)
  <2>1. ss[Len(ss)] = t /\ Len(ss) \in 1..Len(ss)
    BY <1>3
  <2> QED BY <1>2, <1>3, <2>1
<1> QED BY <1>2, <1>3, <1>4, <1>5, ExtendedByOne DEF next

LEMMA StoresAlike ==
  ASSUME NEW st, StateInv(st), NEW dst \in MemoryValue, NEW e \in Expression
  PROVE  Extends(st, NewStore(st, dst, e), <<Store(dst, e)>>)
<1> DEFINE d == TagValue(dst, st.versions)
           v == TagReads(e, st.versions)
           t == Store(d, v)
           next == NewStore(st, dst, e)
<1>1. Looks(d, dst) /\ LooksLike(v, e)
  BY TaggedLooks, TaggedReadsLook DEF Value
<1>2. next.statements = Append(st.statements, t)
  BY DEF NewStore, StateInv, LifterState
<1>3. st.statements \in Seq(Statement) /\ next.statements \in Seq(Statement)
  BY NewStoreKeepsInv DEF StateInv, LifterState
<1> HIDE DEF next, d, v
<1>4. Alike(t, Store(dst, e))
  BY <1>1 DEF Alike, Store, Destination
<1> HIDE DEF t
<1>5. t \in Statement
  <2> DEFINE ss == Append(st.statements, t)
  <2>1. ss[Len(ss)] = t /\ Len(ss) \in 1..Len(ss)
    BY <1>3
  <2> QED BY <1>2, <1>3, <2>1
<1> QED BY <1>2, <1>3, <1>4, <1>5, ExtendedByOne DEF next

LEMMA PutsAlike ==
  ASSUME NEW st, StateInv(st), NEW dst \in Value, NEW e \in Expression
  PROVE  Extends(st, EmitAssignmentOrStore(st, dst, e), <<Put(dst, e)>>)
<1>1. CASE dst.kind = "mem"
  <2>1. dst \in MemoryValue
    BY <1>1 DEF Value, RegValue, ImmValue
  <2> QED BY <1>1, <2>1, StoresAlike DEF EmitAssignmentOrStore, Put
<1>2. CASE dst.kind # "mem"
  BY <1>2, AssignsAlike DEF EmitAssignmentOrStore, Put
<1> QED BY <1>1, <1>2

LEMMA AdjustsAlike ==
  ASSUME NEW st, StateInv(st), NEW op \in {"Add", "Sub"}
  PROVE  Extends(st, AdjustRsp(st, op), <<Adjusted(op)>>)
<1>1. RegV("RSP", 64) \in Value /\ ImmV(Slot) \in Value
  BY BuiltValues, ScaleAssumption DEF Value
<1>2. Binary(op, RegV("RSP", 64), ImmV(Slot)) \in Expression
  BY <1>1, BinaryType DEF BinaryOps
<1> QED BY <1>1, <1>2, AssignsAlike DEF AdjustRsp, Adjusted

LEMMA PushesAlike ==
  ASSUME NEW st, StateInv(st), NEW e \in Value
  PROVE  Extends(st, EmitStackPush(st, e), PushLifted(e))
<1> DEFINE mid == AdjustRsp(st, "Sub")
<1>1. StateInv(mid) /\ Extends(st, mid, <<Adjusted("Sub")>>)
  BY AdjustRspKeepsInv, AdjustsAlike
<1>2. StackSlot \in Value /\ e \in Expression /\ StackSlot.kind = "mem"
  BY BuiltValues, ValueIsExpression DEF Value, MemoryValue
<1> HIDE DEF mid
<1>3. Extends(mid, EmitAssignmentOrStore(mid, StackSlot, e), <<Put(StackSlot, e)>>)
  BY <1>1, <1>2, PutsAlike
<1>4. PushLifted(e) = <<Adjusted("Sub"), Put(StackSlot, e)>>
  BY <1>2 DEF PushLifted, Put
<1>5. st.statements \in Seq(Statement)
  BY DEF StateInv, LifterState
<1> QED BY <1>1, <1>3, <1>4, <1>5, ExtendedByTwo DEF EmitStackPush, mid

LEMMA PopsAlike ==
  ASSUME NEW st, StateInv(st), NEW d \in Value
  PROVE  Extends(st, EmitStackPop(st, d), PopLifted(d))
<1> DEFINE mid == EmitAssignmentOrStore(st, d, StackSlot)
<1>1. StackSlot \in Expression
  BY BuiltValues, ValueIsExpression DEF Value
<1>2. StateInv(mid) /\ Extends(st, mid, <<Put(d, StackSlot)>>)
  BY <1>1, EmitKeepsInv, PutsAlike
<1> HIDE DEF mid
<1>3. Extends(mid, AdjustRsp(mid, "Add"), <<Adjusted("Add")>>)
  BY <1>2, AdjustsAlike
<1>4. st.statements \in Seq(Statement)
  BY DEF StateInv, LifterState
<1> QED BY <1>2, <1>3, <1>4, ExtendedByTwo DEF EmitStackPop, PopLifted, mid

LEMMA SelectedType ==
  ASSUME NEW x, x.id \in CondJumpIds, x.ops[1].imm \in Int
  PROVE  Selected(x) \in Expression
<1> DEFINE c == ConditionOf(x.id)
           v == ImmV(x.ops[1].imm)
           f == Binary("Add", RegV("RIP", 64), ImmV(AddrSize))
<1>1. /\ RegV("RIP", 64) \in Value /\ RegV("ZF", 64) \in Value
      /\ ImmV(AddrSize) \in Value /\ v \in Value
      /\ ImmV(0) \in Value /\ ImmV(1) \in Value
  BY BuiltValues, LifterAssumption DEF Value
<1>2. c \in FlatExpression
  BY <1>1, BinaryType DEF CondJumpIds, ConditionOf, BinaryOps
<1>3. f \in FlatExpression
  BY <1>1, BinaryType DEF BinaryOps
<1>4. Selected(x) = Conditional(c, v, f)
  BY DEF Selected
<1> HIDE DEF c, f, v
<1> QED BY <1>1, <1>2, <1>3, <1>4, ValueIsExpression
        DEF Conditional, ConditionalExpression, Expression

LEMMA HandledAlike ==
  ASSUME IInv, NEW x \in Usual, HandleInsn(x)
  PROVE  \E st : Handle(x, st) /\ Extends(Current, st, Lifted(x))
<1>1. StateInv(Current) /\ x \in Insns /\ x.id \in HandledIds /\ Direct(x)
  BY DEF IInv, Usual
<1>2. {"RSP", "RIP", "RFLAGS", "ZF"} \subseteq Reg /\ \A r \in Reg : RegV(r, 64) \in Value
  BY BuiltValues DEF Value
<1>3. \A o : IsPlace(o) \/ IsImmOp(o) => Operand(o) \in Value /\ Operand(o) \in Expression
  BY OperandType, ValueIsExpression
<1> DEFINE d == Operand(x.ops[1])
           e == Operand(x.ops[2])
<1>4. CASE HandleMov(x)
  <2>1. x.id \in MovIds /\ Handle(x, EmitAssignmentOrStore(Current, d, e))
    BY <1>4 DEF HandleMov
  <2>2. d \in Value /\ e \in Expression
    BY <1>3, <2>1, UsualOperands
  <2>3. Lifted(x) = <<Put(d, e)>>
    BY <2>1, LiftedIs
  <2> HIDE DEF d, e
  <2> QED BY <1>1, <2>1, <2>2, <2>3, PutsAlike
<1>5. CASE HandleLea(x)
  <2>1. x.id = "lea" /\ Handle(x, NewAssign(Current, d, e))
    BY <1>5 DEF HandleLea
  <2>2. d \in Value /\ e \in Expression
    BY <1>3, <2>1, UsualOperands
  <2>3. Lifted(x) = <<Assign(d, e)>>
    BY <2>1, LiftedIs
  <2> HIDE DEF d, e
  <2> QED BY <1>1, <2>1, <2>2, <2>3, AssignsAlike
<1>6. CASE HandleBinary(x)
  <2> DEFINE b == Binary(BinaryOpOf(x.id), d, e)
  <2>1. x.id \in BinaryIds /\ Handle(x, EmitAssignmentOrStore(Current, d, b))
    BY <1>6 DEF HandleBinary, EmitBinaryOperation
  <2>2. d \in Value /\ e \in Value
    BY <1>3, <2>1, UsualOperands
  <2>3. b \in Expression
    BY <2>1, <2>2, InstOfBinary, BinaryType
  <2>4. Lifted(x) = <<Put(d, b)>>
    BY <2>1, LiftedIs
  <2> HIDE DEF d, b
  <2> QED BY <1>1, <2>1, <2>2, <2>3, <2>4, PutsAlike
<1>7. CASE HandleNeg(x)
  <2> DEFINE u == Unary("Neg", d)
  <2>1. x.id = "neg" /\ Handle(x, NewAssign(Current, d, u))
    BY <1>7 DEF HandleNeg, EmitOperation
  <2>2. d \in Value
    BY <1>3, <2>1, UsualOperands
  <2>3. u \in Expression
    BY <2>2 DEF Unary, UnaryExpression, UnaryOps, FlatExpression, Expression
  <2>4. Lifted(x) = <<Assign(d, u)>>
    BY <2>1, LiftedIs
  <2> HIDE DEF d, u
  <2> QED BY <1>1, <2>1, <2>2, <2>3, <2>4, AssignsAlike
<1>8. CASE HandleJmp(x)
  <2> DEFINE v == ImmV(x.ops[1].imm)
  <2>1. x.id = "jmp" /\ x.ops[1].type = "imm" /\ x.ops[1].imm \in Int
    BY <1>1, <1>8, UsualOperands DEF HandleJmp, Direct, IsImmOp
  <2>2. Handle(x, NewAssign(Current, RegV("RIP", 64), v))
    BY <1>8, <2>1 DEF HandleJmp, JumpTargets
  <2>3. v \in Expression
    BY <2>1, BuiltValues, ValueIsExpression DEF Value
  <2>4. Lifted(x) = <<Assign(RegV("RIP", 64), v)>>
    BY <2>1, LiftedIs
  <2> HIDE DEF v
  <2> QED BY <1>1, <1>2, <2>2, <2>3, <2>4, AssignsAlike
<1>9. CASE HandleConditionalJump(x)
  <2> DEFINE v == Selected(x)
  <2>1. x.id \in CondJumpIds /\ x.ops[1].imm \in Int
    BY <1>9, UsualOperands DEF HandleConditionalJump, IsImmOp
  <2>2. Handle(x, NewAssign(Current, RegV("RIP", 64), v))
    BY <1>9 DEF HandleConditionalJump, EmitConditionalJump, Selected
  <2>3. v \in Expression
    BY <2>1, SelectedType
  <2>4. Lifted(x) = <<Assign(RegV("RIP", 64), v)>>
    BY <2>1, LiftedIs
  <2> HIDE DEF v
  <2> QED BY <1>1, <1>2, <2>2, <2>3, <2>4, AssignsAlike
<1>10. CASE HandlePush(x)
  <2>1. x.id = "push" /\ Handle(x, EmitStackPush(Current, d))
    BY <1>10 DEF HandlePush
  <2>2. d \in Value
    BY <1>3, <2>1, UsualOperands
  <2>3. Lifted(x) = PushLifted(d)
    BY <2>1, LiftedIs
  <2> HIDE DEF d
  <2> QED BY <1>1, <2>1, <2>2, <2>3, PushesAlike
<1>11. CASE HandlePushfq(x)
  BY <1>1, <1>2, <1>11, PushesAlike, LiftedIs DEF HandlePushfq
<1>12. CASE HandleCall(x)
  BY <1>1, <1>2, <1>12, PushesAlike, LiftedIs DEF HandleCall
<1>13. CASE HandlePop(x)
  <2>1. x.id = "pop" /\ Handle(x, EmitStackPop(Current, d))
    BY <1>13 DEF HandlePop
  <2>2. d \in Value
    BY <1>3, <2>1, UsualOperands
  <2>3. Lifted(x) = PopLifted(d)
    BY <2>1, LiftedIs
  <2> HIDE DEF d
  <2> QED BY <1>1, <2>1, <2>2, <2>3, PopsAlike
<1>14. CASE HandlePopfq(x)
  BY <1>1, <1>2, <1>14, PopsAlike, LiftedIs DEF HandlePopfq
<1>15. CASE HandleRet(x)
  BY <1>1, <1>2, <1>15, PopsAlike, LiftedIs DEF HandleRet
<1>16. CASE SkipUnhandled(x)
  BY <1>1, <1>16 DEF SkipUnhandled
<1> QED BY <1>4, <1>5, <1>6, <1>7, <1>8, <1>9, <1>10, <1>11, <1>12, <1>13, <1>14, <1>15, <1>16
        DEF HandleInsn

-----------------------------------------------------------------------------
(***************************************************************************)
(* The instructions of a block cut the stream: those up to the k-th one    *)
(* are the statements up to c[k].                                          *)
(***************************************************************************)
Covers(x, ss, p, q) ==
  /\ q = p + Len(Lifted(x))
  /\ \A n \in 1..Len(Lifted(x)) : Alike(ss[p + n], Lifted(x)[n])

Cuts(c, ks, ss) ==
  /\ c \in [0..Len(ks) -> 0..Len(ss)]
  /\ c[0] = 0 /\ c[Len(ks)] = Len(ss)
  /\ \A k \in 1..Len(ks) : Covers(ks[k], ss, c[k - 1], c[k])

LEMMA NoCuts == Cuts([k \in {0} |-> 0], <<>>, <<>>)
<1> DEFINE c == [k \in {0} |-> 0]
<1>1. 0..Len(<<>>) = {0} /\ Len(<<>>) = 0 /\ 1..Len(<<>>) = {}
  OBVIOUS
<1>2. c \in [0..Len(<<>>) -> 0..Len(<<>>)] /\ c[0] = 0 /\ c[Len(<<>>)] = Len(<<>>)
  BY <1>1
<1> HIDE DEF c
<1>3. Cuts(c, <<>>, <<>>)
  BY <1>1, <1>2 DEF Cuts
<1> QED BY <1>3 DEF c

LEMMA CutsExtend ==
  ASSUME NEW ks \in Seq(Usual), NEW ss \in Seq(Statement), NEW c, Cuts(c, ks, ss),
         NEW x \in Usual, NEW ts \in Seq(Statement), Len(ts) = Len(Lifted(x)),
         \A n \in 1..Len(Lifted(x)) : Alike(ts[n], Lifted(x)[n])
  PROVE  \E d : Cuts(d, Append(ks, x), ss \o ts)
<1> DEFINE more == Append(ks, x)
           longer == ss \o ts
           d == [k \in 0..(Len(ks) + 1) |-> IF k <= Len(ks) THEN c[k] ELSE Len(longer)]
<1>1. /\ Len(more) = Len(ks) + 1 /\ Len(ks) \in Nat /\ more[Len(ks) + 1] = x
      /\ \A k \in 1..Len(ks) : more[k] = ks[k]
  OBVIOUS
<1>2. /\ Len(longer) = Len(ss) + Len(ts) /\ Len(ss) \in Nat /\ Len(ts) \in Nat
      /\ \A n \in 1..Len(ss) : longer[n] = ss[n]
      /\ \A n \in 1..Len(ts) : longer[Len(ss) + n] = ts[n]
  <2>1. /\ Len(ss \o ts) = Len(ss) + Len(ts)
        /\ \A n \in 1..Len(ss) + Len(ts) :
             (ss \o ts)[n] = IF n <= Len(ss) THEN ss[n] ELSE ts[n - Len(ss)]
    BY ConcatProperties, Zenon
  <2>2. Len(ss) \in Nat /\ Len(ts) \in Nat
    OBVIOUS
  <2> HIDE DEF longer
  <2>3. ASSUME NEW n \in 1..Len(ts) PROVE longer[Len(ss) + n] = ts[n]
    <3>1. Len(ss) + n \in 1..Len(ss) + Len(ts) /\ ~(Len(ss) + n <= Len(ss)) /\ (Len(ss) + n) - Len(ss) = n
      BY <2>2
    <3> QED BY <2>1, <3>1 DEF longer
  <2>4. ASSUME NEW n \in 1..Len(ss) PROVE longer[n] = ss[n]
    BY <2>1, <2>2 DEF longer
  <2> QED BY <2>1, <2>2, <2>3, <2>4 DEF longer
<1>3. /\ c \in [0..Len(ks) -> 0..Len(ss)] /\ c[0] = 0 /\ c[Len(ks)] = Len(ss)
      /\ \A k \in 1..Len(ks) : Covers(ks[k], ss, c[k - 1], c[k])
  BY DEF Cuts
<1> HIDE DEF more, longer
<1>4. /\ d \in [0..Len(more) -> 0..Len(longer)] /\ d[0] = 0 /\ d[Len(more)] = Len(longer)
      /\ \A k \in 0..Len(ks) : d[k] = c[k]
      /\ d[Len(ks) + 1] = Len(longer)
  BY <1>1, <1>2, <1>3
<1> HIDE DEF d
<1>5. ASSUME NEW k \in 1..Len(more) PROVE Covers(more[k], longer, d[k - 1], d[k])
  <2>1. CASE k \in 1..Len(ks)
    <3>1. k \in 0..Len(ks) /\ k - 1 \in 0..Len(ks) /\ ks[k] \in Usual
      BY <1>1, <2>1
    <3>2. more[k] = ks[k] /\ d[k] = c[k] /\ d[k - 1] = c[k - 1]
      BY <1>1, <1>4, <2>1, <3>1
    <3>3. c[k] \in 0..Len(ss) /\ c[k - 1] \in 0..Len(ss)
      BY <1>3, <3>1
    <3> DEFINE y == ks[k]
               p == c[k - 1]
               q == c[k]
    <3>4. Covers(y, ss, p, q)
      BY <1>3, <2>1
    <3>5. p \in 0..Len(ss) /\ q \in 0..Len(ss) /\ Len(Lifted(y)) \in {1, 2}
      BY <3>1, <3>3, AnswersAll
    <3> HIDE DEF y, p, q
    <3>6. ASSUME NEW n \in 1..Len(Lifted(y)) PROVE longer[p + n] = ss[p + n]
      <4>1. p + n \in 1..Len(ss)
        BY <1>2, <3>4, <3>5 DEF Covers
      <4> QED BY <1>2, <4>1
    <3>7. Covers(y, longer, p, q)
      BY <3>4, <3>6 DEF Covers
    <3> QED BY <3>2, <3>7 DEF y, p, q
  <2>2. CASE k = Len(ks) + 1
    <3>1. k - 1 = Len(ks) /\ Len(ks) \in 0..Len(ks)
      BY <1>1, <2>2
    <3>2. more[k] = x /\ d[k] = Len(ss) + Len(ts) /\ d[k - 1] = Len(ss)
      BY <1>1, <1>2, <1>3, <1>4, <2>2, <3>1
    <3>3. Covers(x, longer, Len(ss), Len(ss) + Len(ts))
      BY <1>2 DEF Covers
    <3> QED BY <3>2, <3>3
  <2>3. k \in 1..Len(ks) \/ k = Len(ks) + 1
    BY <1>1
  <2> QED BY <2>1, <2>2, <2>3
<1>6. Cuts(d, more, longer)
  BY <1>4, <1>5 DEF Cuts
<1> QED BY <1>6 DEF more, longer

LEMMA FlattenNone ==
  ASSUME NEW f, Len(f) = 0, f = <<>>
  PROVE  FlattenSeq(f) = <<>>
BY DEF FlattenSeq

LEMMA KeptOfNone ==
  ASSUME NEW b, b = <<>>
  PROVE  FlattenSeq([k \in DOMAIN b |-> IF b[k].id \in HandledIds THEN <<b[k]>> ELSE <<>>]) = <<>>
<1> DEFINE f == [k \in DOMAIN b |-> IF b[k].id \in HandledIds THEN <<b[k]>> ELSE <<>>]
<1>1. DOMAIN b = {} /\ DOMAIN f = 1..0 /\ f \in [1..0 -> {}]
  OBVIOUS
<1> HIDE DEF f
<1>2. f = <<>> /\ Len(f) = 0
  BY <1>1
<1>3. FlattenSeq(f) = <<>>
  BY <1>2, FlattenNone
<1> QED BY <1>3 DEF f

LEMMA KeptNext ==
  ASSUME source \in Seq(Insns), NEW x \in Insns, source' = Append(source, x)
  PROVE  Kept' = Kept \o (IF x.id \in HandledIds THEN <<x>> ELSE <<>>)
<1> DEFINE One(y) == IF y.id \in HandledIds THEN <<y>> ELSE <<>>
           g == [k \in 1..Len(source) |-> One(source[k])]
           f == [k \in 1..(Len(source) + 1) |-> One(source'[k])]
<1>1. /\ Len(source) \in Nat /\ Len(source') = Len(source) + 1 /\ source'[Len(source) + 1] = x
      /\ DOMAIN source = 1..Len(source) /\ DOMAIN source' = 1..(Len(source) + 1)
      /\ source' \in Seq(Insns)
      /\ \A k \in 1..Len(source) : source'[k] = source[k]
  OBVIOUS
<1>2. \A y \in Insns : One(y) \in Seq(Insns)
  OBVIOUS
<1>3. Kept = FlattenSeq(g) /\ Kept' = FlattenSeq(f)
  BY <1>1 DEF Kept
<1> HIDE DEF One
<1>4. g \in [1..Len(source) -> Seq(Insns)] /\ f \in [1..(Len(source) + 1) -> Seq(Insns)]
  <2>1. /\ \A k \in 1..Len(source) : source[k] \in Insns
        /\ \A k \in 1..(Len(source) + 1) : source'[k] \in Insns
    BY <1>1
  <2> QED BY <1>2, <2>1
<1>5. (\A k \in 1..Len(source) : f[k] = g[k]) /\ f[Len(source) + 1] = One(x)
  BY <1>1
<1> HIDE DEF f, g
<1>6. FlattenSeq(f) = FlattenSeq(g) \o f[Len(source) + 1]
  BY <1>1, <1>4, <1>5, FlattenStep
<1> QED BY <1>3, <1>5, <1>6 DEF One

-----------------------------------------------------------------------------
(***************************************************************************)
(* The stream of a lifted block is cut by the instructions that were kept. *)
(***************************************************************************)
DirectSource == \A k \in DOMAIN source : Direct(source[k])

CutInv ==
  DirectSource => Kept \in Seq(Usual) /\ \E c : Cuts(c, Kept, statements)

LEMMA CutInvInit == source = <<>> /\ statements = <<>> => CutInv
<1>1. source = <<>> => Kept = <<>>
  BY KeptOfNone DEF Kept
<1> QED BY <1>1, NoCuts DEF CutInv

LEMMA CutInvNext == IInv /\ CutInv /\ [Next]_vars => CutInv'
<1> SUFFICES ASSUME IInv, CutInv, [Next]_vars, DirectSource'
             PROVE  (Kept \in Seq(Usual) /\ \E c : Cuts(c, Kept, statements))'
  BY DEF CutInv
<1>1. CASE StartLift
  <2>1. source' = <<>> /\ statements' = <<>>
    BY <1>1 DEF StartLift
  <2>2. Kept' = <<>>
    BY <2>1, KeptOfNone DEF Kept
  <2> QED BY <2>1, <2>2, NoCuts
<1>2. CASE DisassemblyFails \/ FinishLift \/ UNCHANGED vars
  <2>1. source' = source /\ statements' = statements
    BY <1>2 DEF DisassemblyFails, FinishLift, vars
  <2> QED BY <2>1 DEF CutInv, DirectSource, Kept
<1>3. ASSUME NEW x \in Insns, HandleInsn(x)
      PROVE  (Kept \in Seq(Usual) /\ \E c : Cuts(c, Kept, statements))'
  <2>1. source' = Append(source, x) /\ source \in Seq(Insns) /\ statements \in Seq(Statement)
    BY <1>3 DEF HandleInsn, HandleMov, HandlePush, HandlePop, HandlePushfq, HandlePopfq,
                HandleLea, HandleJmp, HandleCall, HandleRet, HandleBinary, HandleNeg,
                HandleConditionalJump, SkipUnhandled, Handle, IInv, TypeOK
  <2>2. DirectSource /\ Direct(x)
    <3>1. /\ DOMAIN source = 1..Len(source) /\ DOMAIN source' = 1..(Len(source) + 1)
          /\ Len(source) \in Nat /\ source'[Len(source) + 1] = x
          /\ \A k \in 1..Len(source) : source'[k] = source[k]
      BY <2>1
    <3>2. \A k \in 1..(Len(source) + 1) : Direct(source'[k])
      BY <3>1 DEF DirectSource
    <3> QED BY <3>1, <3>2 DEF DirectSource
  <2>3. Kept \in Seq(Usual) /\ \E c : Cuts(c, Kept, statements)
    BY <2>2 DEF CutInv
  <2>4. Kept' = Kept \o (IF x.id \in HandledIds THEN <<x>> ELSE <<>>)
    BY <2>1, KeptNext
  <2>5. CASE x.id \in HandledIds
    <3>1. x \in Usual
      BY <2>2, <2>5 DEF Usual
    <3>2. Kept' = Append(Kept, x) /\ Kept' \in Seq(Usual)
      BY <2>3, <2>4, <2>5, <3>1
    <3>3. PICK st : Handle(x, st) /\ Extends(Current, st, Lifted(x))
      BY <1>3, <3>1, HandledAlike
    <3>4. PICK ts \in Seq(Statement) :
            /\ statements' = statements \o ts
            /\ Len(ts) = Len(Lifted(x))
            /\ \A n \in 1..Len(Lifted(x)) : Alike(ts[n], Lifted(x)[n])
      BY <3>3 DEF Extends, Handle, Current
    <3>5. PICK c : Cuts(c, Kept, statements)
      BY <2>3
    <3>6. \E d : Cuts(d, Append(Kept, x), statements \o ts)
      BY <2>1, <2>3, <3>1, <3>4, <3>5, CutsExtend
    <3> QED BY <3>2, <3>4, <3>6
  <2>6. CASE x.id \notin HandledIds
    <3>1. Kept' = Kept
      BY <2>3, <2>4, <2>6
    <3>2. SkipUnhandled(x)
      BY <1>3, <2>6 DEF HandleInsn, HandleMov, HandlePush, HandlePop, HandlePushfq, HandlePopfq,
                HandleLea, HandleJmp, HandleCall, HandleRet, HandleBinary, HandleNeg,
                HandleConditionalJump, HandledIds, BareIds
    <3>3. statements' = statements
      BY <3>2 DEF SkipUnhandled, Handle, Current
    <3> QED BY <2>3, <3>1, <3>3
  <2> QED BY <2>5, <2>6
<1> QED BY <1>1, <1>2, <1>3 DEF Next

-----------------------------------------------------------------------------
(***************************************************************************)
(* compile() answers the instructions one after the other: between two of  *)
(* its steps the cursor stands at a cut and the code is that of the        *)
(* instructions before it.                                                 *)
(***************************************************************************)
CodeOf(ks, k) == FlattenSeq([m \in 1..k |-> Coded(ks[m])])

LEMMA CodeOfNone == \A ks : CodeOf(ks, 0) = <<>>
<1> SUFFICES ASSUME NEW ks PROVE CodeOf(ks, 0) = <<>>
  OBVIOUS
<1> DEFINE f == [m \in 1..0 |-> Coded(ks[m])]
<1>1. f \in [1..0 -> {}]
  OBVIOUS
<1> HIDE DEF f
<1>2. f = <<>> /\ Len(f) = 0
  BY <1>1
<1> QED BY <1>2, FlattenNone DEF CodeOf, f

Coding == {Coded(x)[n] : x \in Usual, n \in Nat}

LEMMA CodedType == ASSUME NEW x \in Usual PROVE Coded(x) \in Seq(Coding)
<1>1. \E n \in Nat : DOMAIN Recompiled(x) = 1..n
  <2>1. DOMAIN Recompiled(x) = 1..1 \/ DOMAIN Recompiled(x) = 1..3
    BY DEF Recompiled
  <2> QED BY <2>1
<1>2. PICK n \in Nat : DOMAIN Coded(x) = 1..n
  BY <1>1 DEF Coded
<1>3. \A m \in 1..n : Coded(x)[m] \in Coding
  BY DEF Coding
<1>4. Coded(x) = [m \in 1..n |-> Coded(x)[m]]
  BY <1>2 DEF Coded
<1> HIDE DEF Coding
<1>5. Coded(x) \in [1..n -> Coding]
  BY <1>3, <1>4
<1> QED BY <1>5

LEMMA CodeOfNext ==
  ASSUME NEW ks \in Seq(Usual), NEW k \in 0..(Len(ks) - 1)
  PROVE  CodeOf(ks, k + 1) = CodeOf(ks, k) \o Coded(ks[k + 1])
<1> DEFINE f == [m \in 1..(k + 1) |-> Coded(ks[m])]
           g == [m \in 1..k |-> Coded(ks[m])]
<1>1. k \in Nat /\ \A m \in 1..(k + 1) : ks[m] \in Usual
  OBVIOUS
<1>2. \A m \in 1..(k + 1) : Coded(ks[m]) \in Seq(Coding)
  BY <1>1, CodedType
<1>3. /\ f \in [1..(k + 1) -> Seq(Coding)] /\ g \in [1..k -> Seq(Coding)]
      /\ (\A m \in 1..k : f[m] = g[m]) /\ f[k + 1] = Coded(ks[k + 1])
  BY <1>1, <1>2
<1>4. CodeOf(ks, k + 1) = FlattenSeq(f) /\ CodeOf(ks, k) = FlattenSeq(g)
  BY DEF CodeOf
<1> HIDE DEF f, g
<1>5. FlattenSeq(f) = FlattenSeq(g) \o f[k + 1]
  BY <1>1, <1>3, FlattenStep
<1> QED BY <1>3, <1>4, <1>5

LEMMA CutBounds ==
  ASSUME NEW ks \in Seq(Usual), NEW ss \in Seq(Statement), NEW c, Cuts(c, ks, ss),
         NEW k \in 0..(Len(ks) - 1)
  PROVE  LET L == Lifted(ks[k + 1])
         IN /\ ks[k + 1] \in Usual /\ Len(L) \in {1, 2}
            /\ c[k] \in Nat /\ c[k + 1] = c[k] + Len(L) /\ c[k + 1] \in 0..Len(ss)
            /\ \A n \in 1..Len(L) : /\ Alike(ss[c[k] + n], L[n])
                                    /\ L[n].kind \in {"assign", "store"}
<1>1. /\ k \in 0..Len(ks) /\ k + 1 \in 1..Len(ks) /\ k + 1 \in 0..Len(ks) /\ (k + 1) - 1 = k
      /\ ks[k + 1] \in Usual
  OBVIOUS
<1> DEFINE x == ks[k + 1]
<1>2. Covers(x, ss, c[(k + 1) - 1], c[k + 1]) /\ c[k] \in 0..Len(ss) /\ c[k + 1] \in 0..Len(ss)
  BY <1>1 DEF Cuts
<1>3. Covers(x, ss, c[k], c[k + 1])
  BY <1>1, <1>2
<1>4. x \in Usual /\ Len(Lifted(x)) \in {1, 2}
  BY <1>1, AnswersAll
<1> HIDE DEF x
<1>5. \A n \in 1..Len(Lifted(x)) : Lifted(x)[n].kind \in {"assign", "store"}
  BY <1>4, LiftedKinds
<1>6. c[k] \in Nat
  BY <1>2
<1> QED BY <1>2, <1>3, <1>4, <1>5, <1>6 DEF Covers, x

LEMMA NoWindowAcross ==
  ASSUME NEW ks \in Seq(Usual), NEW c, Cuts(c, ks, ir), ir \in Seq(Statement),
         \A k \in DOMAIN ks : ~T!IdiomAt(ks, k),
         NEW k \in 0..(Len(ks) - 1), Len(Lifted(ks[k + 1])) = 1
  PROVE  ~R!IsPair(c[k] + 1)
<1> DEFINE x == ks[k + 1]
           y == ks[k + 2]
           p == c[k]
<1>1. SUFFICES ASSUME R!IsPair(p + 1) PROVE FALSE
  OBVIOUS
<1>2. /\ x \in Usual /\ Len(Lifted(x)) = 1 /\ p \in Nat /\ c[k + 1] = p + 1
      /\ Alike(ir[p + 1], Lifted(x)[1]) /\ Lifted(x)[1].kind \in {"assign", "store"}
  <2>1. /\ x \in Usual /\ p \in Nat /\ c[k + 1] = p + Len(Lifted(x))
        /\ \A n \in 1..Len(Lifted(x)) : /\ Alike(ir[p + n], Lifted(x)[n])
                                        /\ Lifted(x)[n].kind \in {"assign", "store"}
    BY CutBounds, Zenon
  <2>2. Len(Lifted(x)) = 1 /\ 1 \in 1..1
    OBVIOUS
  <2> HIDE DEF x, p
  <2> QED BY <2>1, <2>2
<1>3. (p + 1) + 1 <= Len(ir) /\ Len(ir) \in Nat
  BY <1>1 DEF R!IsPair
<1>4. k + 1 # Len(ks)
  <2>1. c[Len(ks)] = Len(ir)
    BY DEF Cuts
  <2> QED BY <1>2, <1>3, <2>1
<1>5. k + 1 \in 0..(Len(ks) - 1) /\ (k + 1) + 1 = k + 2 /\ k + 1 \in 1..(Len(ks) - 1) /\ k + 1 \in DOMAIN ks
  BY <1>4
<1>6. /\ y \in Usual /\ Len(Lifted(y)) \in {1, 2}
      /\ \A n \in 1..Len(Lifted(y)) : /\ Alike(ir[c[k + 1] + n], Lifted(y)[n])
                                      /\ Lifted(y)[n].kind \in {"assign", "store"}
  <2>1. ks[(k + 1) + 1] = y
    BY <1>5
  <2> HIDE DEF y
  <2> QED BY <1>5, <2>1, CutBounds
<1>7. Alike(ir[(p + 1) + 1], Lifted(y)[1]) /\ Lifted(y)[1].kind \in {"assign", "store"}
  BY <1>2, <1>6
<1>8. ~T!IdiomAt(ks, k + 1)
  BY <1>5
<1>9. ~(\/ T!AdjustsByASlot(x) /\ (T!MovesTop(y) \/ T!PopsToTop(y))
        \/ T!MovesTop(x) /\ T!AdjustsByASlot(y))
  <2>1. k + 1 \in 1..(Len(ks) - 1) /\ ks[(k + 1) + 1] = y /\ ks[k + 1] = x
    BY <1>5
  <2> HIDE DEF x, y
  <2> QED BY <1>8, <2>1 DEF T!IdiomAt
<1> HIDE DEF x, y, p
<1>10. R!IsPush(ir[p + 1], ir[(p + 1) + 1]) \/ R!IsPop(ir[p + 1], ir[(p + 1) + 1])
  BY <1>1 DEF R!IsPair
<1>11. R!IsPush(Lifted(x)[1], Lifted(y)[1]) \/ R!IsPop(Lifted(x)[1], Lifted(y)[1])
  BY <1>2, <1>7, <1>10, AlikePairs
<1>12. Lifted(x)[Len(Lifted(x))] = Lifted(x)[1]
  BY <1>2
<1> QED BY <1>2, <1>6, <1>9, <1>11, <1>12, NoStraddle

LEMMA CursorBounds ==
  ASSUME NEW p \in Nat, NEW w \in {1, 2}, NEW n \in Nat, p + w \in 0..n
  PROVE  /\ p + 1 \in Nat /\ p + 1 <= n /\ (p + 1) + w = (p + w) + 1 /\ 1 \in 1..w
         /\ w = 2 => 2 \in 1..w /\ p + 2 = (p + 1) + 1 /\ (p + 1) + 1 <= n
OBVIOUS

LEMMA OneAnswered ==
  ASSUME NEW ks \in Seq(Usual), NEW c, Cuts(c, ks, ir), ir \in Seq(Statement),
         \A k \in DOMAIN ks : ~T!IdiomAt(ks, k),
         NEW k \in 0..(Len(ks) - 1), i = c[k] + 1, status = "compiling", R!Next
  PROVE  /\ Refused(ks[k + 1]) => status' = "threw"
         /\ ~Refused(ks[k + 1]) => /\ status' = "compiling" /\ i' = c[k + 1] + 1
                                   /\ code' = code \o Coded(ks[k + 1])
<1> DEFINE x == ks[k + 1]
           L == Lifted(x)
<1>1. /\ x \in Usual /\ Len(L) \in {1, 2} /\ c[k] \in Nat /\ c[k + 1] = c[k] + Len(L)
      /\ c[k + 1] \in 0..Len(ir)
      /\ \A n \in 1..Len(L) : Alike(ir[c[k] + n], L[n]) /\ L[n].kind \in {"assign", "store"}
  BY CutBounds
<1>2. /\ Len(ir) \in Nat /\ i \in Nat /\ i <= Len(ir) /\ i + Len(L) = c[k + 1] + 1
      /\ 1 \in 1..Len(L)
      /\ Len(L) = 2 => 2 \in 1..Len(L) /\ c[k] + 2 = i + 1 /\ i + 1 <= Len(ir)
  <2> DEFINE p == c[k]
             q == c[k + 1]
             w == Len(L)
  <2>1. w \in {1, 2} /\ p \in Nat /\ q = p + w /\ q \in 0..Len(ir) /\ Len(ir) \in Nat /\ i = p + 1
    BY <1>1
  <2> HIDE DEF p, q, w
  <2>2. /\ Len(ir) \in Nat /\ i \in Nat /\ i <= Len(ir) /\ i + w = q + 1 /\ 1 \in 1..w
        /\ w = 2 => 2 \in 1..w /\ p + 2 = i + 1 /\ i + 1 <= Len(ir)
    <3>1. /\ p + 1 \in Nat /\ p + 1 <= Len(ir) /\ (p + 1) + w = (p + w) + 1 /\ 1 \in 1..w
          /\ w = 2 => 2 \in 1..w /\ p + 2 = (p + 1) + 1 /\ (p + 1) + 1 <= Len(ir)
      BY <2>1, CursorBounds
    <3>2. i = p + 1 /\ q = p + w
      BY <2>1
    <3> QED BY <2>1, <3>1, <3>2, Zenon
  <2> QED BY <2>2 DEF p, q, w
<1>3. /\ Len(L) = 1 => R!EmitStatement(L[1]) = Answer(x)
      /\ Len(L) = 2 /\ (R!IsPush(L[1], L[2]) \/ R!IsPop(L[1], L[2])) =>
           R!EmitPair(L[1], L[2]) = Answer(x)
      /\ Len(L) = 2 /\ ~(R!IsPush(L[1], L[2]) \/ R!IsPop(L[1], L[2])) =>
           R!EmitStatement(L[1]) = R!Throws /\ Answer(x) = R!Throws
  BY <1>1, AnswersAll
<1>4. Len(L) = 1 => ~R!IsPair(i)
  BY NoWindowAcross
<1>5. Answer(x) = R!Throws <=> Refused(x)
  BY <1>1, AnswerThrows
<1>6. SUFFICES ASSUME R!Emit(Answer(x), Len(L)) \/ (Refused(x) /\ \E w : R!Emit(R!Throws, w))
               PROVE  /\ Refused(x) => status' = "threw"
                      /\ ~Refused(x) => /\ status' = "compiling" /\ i' = c[k + 1] + 1
                                        /\ code' = code \o Coded(x)
  <2> HIDE DEF x, L
  <2>1. Alike(ir[i], L[1]) /\ L[1].kind \in {"assign", "store"}
    <3>1. Alike(ir[c[k] + 1], L[1]) /\ L[1].kind \in {"assign", "store"}
      BY <1>1, <1>2, Zenon
    <3> QED BY <3>1
  <2>2. R!EmitStatement(ir[i]) = R!EmitStatement(L[1])
    BY <2>1, AlikeStatements
  <2>3. CASE Len(L) = 1
    <3>1. R!Emit(R!EmitStatement(ir[i]), 1)
      BY <1>2, <1>4, <2>3 DEF R!Next, R!CompilePair, R!CompileStatement, R!Finalize
    <3> QED BY <1>3, <1>6, <2>2, <2>3, <3>1 DEF x
  <2>4. CASE Len(L) = 2
    <3>1. Alike(ir[i + 1], L[2]) /\ L[2].kind \in {"assign", "store"} /\ i + 1 <= Len(ir)
      <4>1. 2 \in 1..Len(L) /\ c[k] + 2 = i + 1 /\ i + 1 <= Len(ir)
        BY <1>2, <2>4
      <4>2. Alike(ir[c[k] + 2], L[2]) /\ L[2].kind \in {"assign", "store"}
        BY <1>1, <4>1, Zenon
      <4> QED BY <4>1, <4>2
    <3>2. /\ R!IsPush(ir[i], ir[i + 1]) <=> R!IsPush(L[1], L[2])
          /\ R!IsPop(ir[i], ir[i + 1]) <=> R!IsPop(L[1], L[2])
          /\ R!IsPush(L[1], L[2]) \/ R!IsPop(L[1], L[2]) =>
               R!EmitPair(ir[i], ir[i + 1]) = R!EmitPair(L[1], L[2])
      BY <2>1, <3>1, AlikePairs
    <3>3. R!IsPair(i) <=> R!IsPush(L[1], L[2]) \/ R!IsPop(L[1], L[2])
      BY <3>1, <3>2 DEF R!IsPair
    <3>4. CASE R!IsPair(i)
      <4>1. R!Emit(R!EmitPair(ir[i], ir[i + 1]), 2)
        BY <1>2, <3>4 DEF R!Next, R!CompilePair, R!CompileStatement, R!Finalize
      <4> QED BY <1>3, <1>6, <2>4, <3>2, <3>3, <3>4, <4>1 DEF x
    <3>5. CASE ~R!IsPair(i)
      <4>1. R!Emit(R!EmitStatement(ir[i]), 1)
        BY <1>2, <3>5 DEF R!Next, R!CompilePair, R!CompileStatement, R!Finalize
      <4> QED BY <1>3, <1>5, <1>6, <2>2, <2>4, <3>3, <3>5, <4>1 DEF x
    <3> QED BY <3>4, <3>5
  <2> QED BY <1>1, <2>3, <2>4
<1> HIDE DEF x, L
<1>7. CASE Refused(x)
  BY <1>5, <1>6, <1>7 DEF R!Emit
<1>8. CASE ~Refused(x)
  <2>1. Answer(x) = Coded(x) /\ Answer(x) # R!Throws
    BY <1>5, <1>8 DEF Answer
  <2>2. status' = status /\ code' = code \o Coded(x) /\ i' = i + Len(L)
    BY <1>6, <1>8, <2>1 DEF R!Emit
  <2> QED BY <1>2, <1>8, <2>2
<1> QED BY <1>7, <1>8

LEMMA CutsEnd ==
  ASSUME NEW ks \in Seq(Usual), NEW ss \in Seq(Statement), NEW c, Cuts(c, ks, ss),
         NEW k \in 0..Len(ks)
  PROVE  c[k] + 1 > Len(ss) <=> k = Len(ks)
<1>1. Len(ks) \in Nat /\ Len(ss) \in Nat /\ c[Len(ks)] = Len(ss)
  BY DEF Cuts
<1>2. ASSUME k # Len(ks) PROVE ~(c[k] + 1 > Len(ss))
  <2> DEFINE p == c[k]
             q == c[k + 1]
             w == Len(Lifted(ks[k + 1]))
  <2>1. k \in 0..(Len(ks) - 1)
    BY <1>1, <1>2
  <2>2. w \in {1, 2} /\ p \in Nat /\ q = p + w /\ q \in 0..Len(ss)
    BY <2>1, CutBounds
  <2> HIDE DEF p, q, w
  <2>3. ~(p + 1 > Len(ss))
    BY <1>1, <2>2
  <2> QED BY <2>3 DEF p
<1> QED BY <1>1, <1>2

\* How far compile() has come with the instructions ks, cut by c.
Progress(ks, c) ==
  CASE status = "compiling" ->
         \E k \in 0..Len(ks) : /\ i = c[k] + 1
                               /\ code = CodeOf(ks, k)
                               /\ \A m \in 1..k : ~Refused(ks[m])
    [] status = "threw" -> \E k \in 1..Len(ks) : Refused(ks[k])
    [] status = "done"  -> /\ code = CodeOf(ks, Len(ks))
                           /\ \A m \in 1..Len(ks) : ~Refused(ks[m])

LEMMA CompileProgresses ==
  ASSUME NEW ks \in Seq(Usual), NEW c, Cuts(c, ks, ir), ir \in Seq(Statement),
         \A k \in DOMAIN ks : ~T!IdiomAt(ks, k), Progress(ks, c), R!Next
  PROVE  Progress(ks, c)'
<1>1. status = "compiling"
  BY DEF R!Next, R!CompilePair, R!CompileStatement, R!Finalize
<1>2. PICK k \in 0..Len(ks) : /\ i = c[k] + 1
                              /\ code = CodeOf(ks, k)
                              /\ \A m \in 1..k : ~Refused(ks[m])
  BY <1>1 DEF Progress
<1>3. CASE k = Len(ks)
  <2>1. i > Len(ir)
    BY <1>2, <1>3, CutsEnd
  <2>2. Len(ir) \in Nat /\ i \in Nat
    <3>1. c[k] \in Nat
      BY DEF Cuts
    <3> QED BY <1>2, <3>1
  <2>3. R!Finalize
    BY <2>1, <2>2 DEF R!Next, R!CompilePair, R!CompileStatement
  <2>4. status' = "done" /\ code' = code
    BY <2>3 DEF R!Finalize
  <2> QED BY <1>2, <1>3, <2>4 DEF Progress
<1>4. CASE k # Len(ks)
  <2>1. /\ Len(ks) \in Nat /\ k \in 0..(Len(ks) - 1) /\ k + 1 \in 0..Len(ks) /\ k + 1 \in 1..Len(ks)
        /\ \A m \in 1..(k + 1) : m = k + 1 \/ m \in 1..k
    BY <1>4
  <2>2. /\ Refused(ks[k + 1]) => status' = "threw"
        /\ ~Refused(ks[k + 1]) => /\ status' = "compiling" /\ i' = c[k + 1] + 1
                                  /\ code' = code \o Coded(ks[k + 1])
    BY <1>1, <1>2, <2>1, OneAnswered
  <2>3. CASE Refused(ks[k + 1])
    BY <2>1, <2>2, <2>3 DEF Progress
  <2>4. CASE ~Refused(ks[k + 1])
    <3>1. code' = CodeOf(ks, k + 1)
      BY <1>2, <2>1, <2>2, <2>4, CodeOfNext
    <3>2. \A m \in 1..(k + 1) : ~Refused(ks[m])
      BY <1>2, <2>1, <2>4
    <3> QED BY <2>1, <2>2, <2>4, <3>1, <3>2 DEF Progress
  <2> QED BY <2>3, <2>4
<1> QED BY <1>3, <1>4

\* The inductive invariant: while the block is lifted its stream is cut by the
\* instructions, and compile() advances from cut to cut of what it was handed.
RoundInv ==
  /\ stage \in {"lift", "simplify", "compile"}
  /\ stage = "lift" => IInv /\ CutInv /\ i = 1 /\ code = <<>> /\ status = "compiling"
  /\ stage = "compile" /\ passes = 0 /\ Undisturbed =>
       /\ Kept \in Seq(Usual) /\ ir \in Seq(Statement)
       /\ \E c : Cuts(c, Kept, ir) /\ Progress(Kept, c)

LEMMA RoundInvInit == PipelineInit => RoundInv
BY InitEstablishesIInv, CutInvInit DEF PipelineInit, Init, RoundInv

LEMMA RoundInvNext == RoundInv /\ [PipelineNext]_pipelineVars => RoundInv'
<1> SUFFICES ASSUME RoundInv, [PipelineNext]_pipelineVars PROVE RoundInv'
  OBVIOUS
<1>1. CASE Lift
  <2>1. stage = "lift" /\ stage' = "lift" /\ i' = i /\ code' = code /\ status' = status /\ Next
    BY <1>1 DEF Lift, laterVars
  <2>2. IInv' /\ CutInv'
    BY <2>1, NextKeepsIInv, CutInvNext DEF RoundInv
  <2> QED BY <2>1, <2>2 DEF RoundInv
<1>2. CASE SkipSimplify
  <2>1. /\ stage = "lift" /\ stage' = "compile" /\ ir' = statements /\ source' = source
        /\ i' = i /\ code' = code /\ status' = status
        /\ IInv /\ CutInv /\ i = 1 /\ code = <<>> /\ status = "compiling"
    BY <1>2 DEF SkipSimplify, HandOver, RoundInv, vars
  <2>2. ASSUME Undisturbed'
        PROVE  /\ Kept' \in Seq(Usual) /\ ir' \in Seq(Statement)
               /\ \E c : Cuts(c, Kept', ir') /\ Progress(Kept, c)'
    <3>1. Kept' = Kept
      BY <2>1 DEF Kept
    <3>2. DirectSource
      BY <2>1, <2>2 DEF Undisturbed, DirectSource
    <3>3. Kept \in Seq(Usual) /\ statements \in Seq(Statement)
      BY <2>1, <3>2 DEF CutInv, IInv, TypeOK
    <3>4. PICK c : Cuts(c, Kept, statements)
      BY <2>1, <3>2 DEF CutInv
    <3>5. c[0] = 0 /\ 0 \in 0..Len(Kept) /\ 1..0 = {}
      BY <3>3, <3>4 DEF Cuts
    <3>6. code' = CodeOf(Kept', 0)
      BY <2>1, CodeOfNone
    <3>7. Progress(Kept, c)'
      BY <2>1, <3>1, <3>5, <3>6 DEF Progress
    <3> QED BY <2>1, <3>1, <3>3, <3>4, <3>7
  <2> QED BY <2>1, <2>2 DEF RoundInv
<1>3. CASE BeginSimplify \/ Simplify
  BY <1>3 DEF BeginSimplify, HandOver, Simplify, RoundInv
<1>4. CASE BeginCompile
  BY <1>4 DEF BeginCompile, RoundInv
<1>5. CASE Compile
  <2>1. stage = "compile" /\ stage' = stage /\ passes' = passes /\ source' = source /\ R!Next
    BY <1>5 DEF Compile, vars
  <2>2. ir' = ir
    BY <2>1 DEF R!Next, R!CompilePair, R!CompileStatement, R!Finalize, R!Emit
  <2>3. Kept' = Kept /\ (Undisturbed' <=> Undisturbed)
    BY <2>1 DEF Kept, Undisturbed
  <2>4. ASSUME passes = 0, Undisturbed
        PROVE  /\ Kept' \in Seq(Usual) /\ ir' \in Seq(Statement)
               /\ \E c : Cuts(c, Kept', ir') /\ Progress(Kept, c)'
    <3>1. Kept \in Seq(Usual) /\ ir \in Seq(Statement)
      BY <2>1, <2>4 DEF RoundInv
    <3>2. PICK c : Cuts(c, Kept, ir) /\ Progress(Kept, c)
      BY <2>1, <2>4 DEF RoundInv
    <3>3. \A k \in DOMAIN Kept : ~T!IdiomAt(Kept, k)
      BY <2>4 DEF Undisturbed
    <3>4. Progress(Kept, c)'
      BY <2>1, <2>3, <3>1, <3>2, <3>3, CompileProgresses
    <3> QED BY <2>2, <2>3, <3>1, <3>2, <3>4
  <2> QED BY <2>1, <2>3, <2>4 DEF RoundInv
<1>6. CASE UNCHANGED pipelineVars
  <2>1. UNCHANGED vars /\ UNCHANGED <<stage, passes, ir, i, code, status>> /\ source' = source
    BY <1>6 DEF pipelineVars, laterVars, vars
  <2>2. stage = "lift" => IInv' /\ CutInv'
    BY <2>1, NextKeepsIInv, CutInvNext DEF RoundInv
  <2>3. Kept' = Kept /\ (Undisturbed' <=> Undisturbed)
    BY <2>1 DEF Kept, Undisturbed
  <2>4. \A c : Progress(Kept, c)' <=> Progress(Kept, c)
    BY <2>1, <2>3 DEF Progress
  <2> QED BY <2>1, <2>2, <2>3, <2>4 DEF RoundInv
<1> QED BY <1>1, <1>2, <1>3, <1>4, <1>5, <1>6 DEF PipelineNext

\* For a block of any length over any set of instructions, compiled without the
\* simplifier and with no hand-written push or pop hidden in it: the code is, in
\* order, what each instruction that has a handler is recompiled to on its own,
\* however try_emit_push and try_emit_pop group the statements, and compile()
\* throws exactly if one of the instructions is refused.
THEOREM RoundTripHolds == PipelineSpec => []RoundTrip
<1>1. RoundInv => RoundTrip
  <2> SUFFICES ASSUME RoundInv, stage = "compile", passes = 0, Undisturbed
               PROVE  /\ status = "threw" => \E k \in DOMAIN Kept : Refused(Kept[k])
                      /\ status = "done" =>
                           /\ \A k \in DOMAIN Kept : ~Refused(Kept[k])
                           /\ code = FlattenSeq([k \in DOMAIN Kept |->
                                [n \in DOMAIN Recompiled(Kept[k]) |-> R!Encoded(Recompiled(Kept[k])[n])]])
    BY DEF RoundTrip
  <2>1. Kept \in Seq(Usual)
    BY DEF RoundInv
  <2>2. PICK c : Progress(Kept, c)
    BY DEF RoundInv
  <2>3. DOMAIN Kept = 1..Len(Kept)
    BY <2>1
  <2>4. CodeOf(Kept, Len(Kept)) =
          FlattenSeq([k \in DOMAIN Kept |->
            [n \in DOMAIN Recompiled(Kept[k]) |-> R!Encoded(Recompiled(Kept[k])[n])]])
    BY <2>3 DEF CodeOf, Coded
  <2> QED BY <2>2, <2>3, <2>4 DEF Progress
<1> QED BY <1>1, RoundInvInit, RoundInvNext, PTL DEF PipelineSpec
=============================================================================
