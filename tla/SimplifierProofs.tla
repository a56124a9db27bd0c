-------------------------- MODULE SimplifierProofs --------------------------
(***************************************************************************)
(* Proofs about the simplifier, for streams of any length and any number   *)
(* of calls: it keeps the types, no statement reads what it did not read,  *)
(* a statement that was visited is in normal form, and none changes its    *)
(* meaning in any environment.  Of the word it is used that the widths     *)
(* nest and the laws of exclusive or.                                      *)
(***************************************************************************)
EXTENDS SimplifierMeaning, ExecutionProofs

-----------------------------------------------------------------------------
(***************************************************************************)
(* The rewrite of one expression.                                          *)
(***************************************************************************)

LEMMA ImmediateType == \A n \in Int : ImmV(n) \in ImmValue
<1>1. 64 \in Widths
  BY DEF Widths, Sizes
<1>2. PICK m \in Nat \ {0} : m = Modulus[64]
  BY <1>1, ScaleAssumption
<1>3. \A n \in Int : n % m \in 0..(m - 1)
  OBVIOUS
<1> QED BY <1>2, <1>3 DEF ImmV, ImmValue, Word

\* Only a BinaryExpression has the kind by which the rules are chosen.
LEMMA BinaryKind ==
  ASSUME NEW e \in Expression
  PROVE  e \in BinaryExpression <=> e.kind = "bin"
BY DEF Expression, FlatExpression, Value, RegValue, ImmValue, MemoryValue,
       UnaryExpression, BinaryExpression, ConditionalExpression

\* Rule 2 keeps a binary expression one, with the same left operand.
LEMMA SubtractsInsteadType ==
  ASSUME NEW e \in BinaryExpression
  PROVE  /\ SubtractsInstead(e) \in BinaryExpression
         /\ SubtractsInstead(e).left = e.left
         /\ SubtractsInstead(e) = e \/ ( /\ SubtractsInstead(e).op = "Sub"
                                         /\ SubtractsInstead(e).right \in ImmValue )
<1>1. CASE e.op = "Add" /\ Negatable(e.right)
  <2>1. e.left \in Value /\ e.right \in Value
    BY DEF BinaryExpression
  <2>2. e.right.kind = "imm"
    BY <1>1 DEF Negatable
  <2>3. e.right \in ImmValue
    BY <2>1, <2>2 DEF Value, RegValue, ImmValue, MemoryValue
  <2>4. e.right.value \in Int
    BY <2>3 DEF ImmValue, Word
  <2> DEFINE i == ImmV(-e.right.value)
  <2>5. i \in ImmValue
    BY <2>4, ImmediateType
  <2>6. SubtractsInstead(e) = Binary("Sub", e.left, i)
    BY <1>1 DEF SubtractsInstead
  <2> HIDE DEF i
  <2> QED BY <2>1, <2>5, <2>6 DEF Binary, BinaryExpression, BinaryOps, Value
<1>2. CASE ~(e.op = "Add" /\ Negatable(e.right))
  BY <1>2, Zenon DEF SubtractsInstead
<1> QED BY <1>1, <1>2

\* The conditions of rules 1a, 1b and 3.
AllOnesMask(e) == /\ e.op = "BitXor" /\ e.left.kind = "reg" /\ e.right.kind = "imm"
                  /\ IsAllOnes(e.right.value, e.left.width)
Cancels(e) == e.op = "BitXor" /\ SameValue(e.left, e.right)
Vanishes(e) == e.op = "Sub" /\ SameValue(e.left, e.right)

\* The three shapes a binary expression may be rewritten to.
LEMMA SimplifyBinaryShape ==
  ASSUME NEW e
  PROVE  /\ AllOnesMask(e) => SimplifyBinary(e) = Unary("LogicalNot", e.left)
         /\ ~AllOnesMask(e) /\ Cancels(e) => SimplifyBinary(e) = ImmV(0)
         /\ ~AllOnesMask(e) /\ ~Cancels(e) =>
              SimplifyBinary(e) =
                IF Vanishes(SubtractsInstead(e)) THEN ImmV(0) ELSE SubtractsInstead(e)
<1>1. SimplifyBinary(e) =
        CASE AllOnesMask(e) -> Unary("LogicalNot", e.left)
          [] Cancels(e) -> ImmV(0)
          [] OTHER -> IF Vanishes(SubtractsInstead(e)) THEN ImmV(0) ELSE SubtractsInstead(e)
  BY Zenon DEF SimplifyBinary, AllOnesMask, Cancels, Vanishes
<1>2. AllOnesMask(e) => ~Cancels(e)
  BY DEF AllOnesMask, Cancels, SameValue, SameRegister
<1> QED BY <1>1, <1>2, Zenon

\* A rewrite stays an expression and reads no register the expression did not
\* read, under the same SSA id.
LEMMA SimplifyExprShrinks ==
  ASSUME NEW e \in Expression
  PROVE  SimplifyExpr(e) \in Expression /\ Reads(SimplifyExpr(e)) \subseteq Reads(e)
<1>1. CASE e.kind # "bin"
  BY <1>1 DEF SimplifyExpr
<1>2. CASE e.kind = "bin"
  <2>1. e \in BinaryExpression /\ e.left \in Value /\ e.right \in Value
    BY <1>2, BinaryKind DEF BinaryExpression
  <2>2. SimplifyExpr(e) = SimplifyBinary(e)
    BY <1>2 DEF SimplifyExpr
  <2>3. Reads(e) = ValueReads(e.left) \cup ValueReads(e.right)
    BY <1>2 DEF Reads, FlatReads
  <2>4. ImmV(0) \in ImmValue
    BY ImmediateType
  <2>5. CASE SimplifyBinary(e) = ImmV(0)
    <3>1. Reads(ImmV(0)) = {}
      BY <2>4 DEF ImmValue, Reads, FlatReads, ValueReads
    <3> QED BY <2>2, <2>4, <2>5, <3>1 DEF Value, FlatExpression, Expression
  <2>6. CASE SimplifyBinary(e) = Unary("LogicalNot", e.left)
    <3>1. Unary("LogicalNot", e.left) \in Expression
      BY <2>1 DEF Unary, UnaryExpression, UnaryOps, FlatExpression, Expression
    <3>2. Reads(Unary("LogicalNot", e.left)) = ValueReads(e.left)
      BY DEF Unary, Reads, FlatReads
    <3> QED BY <2>2, <2>3, <2>6, <3>1, <3>2
  <2>7. CASE SimplifyBinary(e) = SubtractsInstead(e)
    <3> DEFINE d == SubtractsInstead(e)
    <3>1. d \in BinaryExpression /\ d.left = e.left /\ (d = e \/ d.right \in ImmValue)
      BY <2>1, SubtractsInsteadType
    <3> HIDE DEF d
    <3>2. d.kind = "bin" /\ d \in Expression
      BY <3>1 DEF BinaryExpression, FlatExpression, Expression
    <3>3. Reads(d) = ValueReads(d.left) \cup ValueReads(d.right)
      BY <3>2 DEF Reads, FlatReads
    <3>4. d.right \in ImmValue => ValueReads(d.right) = {}
      BY DEF ImmValue, ValueReads
    <3>5. SimplifyExpr(e) = d
      BY <2>2, <2>7 DEF d
    <3> QED BY <2>3, <3>1, <3>2, <3>3, <3>4, <3>5
  <2> QED BY <2>1, <2>5, <2>6, <2>7, SimplifyBinaryShape
<1> QED BY <1>1, <1>2

\* A rewritten expression is a fixed point: no rule applies to what a rule made.
LEMMA SimplifyExprIdempotent ==
  ASSUME NEW e \in Expression
  PROVE  SimplifyExpr(SimplifyExpr(e)) = SimplifyExpr(e)
<1>1. CASE e.kind # "bin"
  BY <1>1 DEF SimplifyExpr
<1>2. CASE e.kind = "bin"
  <2>1. e \in BinaryExpression
    BY <1>2, BinaryKind
  <2>2. SimplifyExpr(e) = SimplifyBinary(e)
    BY <1>2 DEF SimplifyExpr
  <2>3. CASE SimplifyBinary(e) = ImmV(0) \/ SimplifyBinary(e) = Unary("LogicalNot", e.left)
    BY <2>2, <2>3 DEF ImmV, Unary, SimplifyExpr
  <2>4. CASE ~(SimplifyBinary(e) = ImmV(0) \/ SimplifyBinary(e) = Unary("LogicalNot", e.left))
    <3> DEFINE d == SubtractsInstead(e)
    <3>1. SimplifyBinary(e) = d /\ ~AllOnesMask(e) /\ ~Cancels(e) /\ ~Vanishes(d)
      BY <2>4, SimplifyBinaryShape
    <3>2. d \in BinaryExpression /\ (d = e \/ d.op = "Sub")
      BY <2>1, SubtractsInsteadType
    <3>3. SubtractsInstead(d) = d
      BY <3>2, Zenon DEF SubtractsInstead
    <3> HIDE DEF d
    <3>4. ~AllOnesMask(d) /\ ~Cancels(d)
      BY <3>1, <3>2 DEF AllOnesMask, Cancels
    <3>5. SimplifyBinary(d) = d
      BY <3>1, <3>3, <3>4, SimplifyBinaryShape
    <3>6. SimplifyExpr(d) = d
      BY <3>2, <3>5, BinaryKind DEF SimplifyExpr, BinaryExpression
    <3> QED BY <2>2, <3>1, <3>6
  <2> QED BY <2>3, <2>4
<1> QED BY <1>1, <1>2

-----------------------------------------------------------------------------
(***************************************************************************)
(* The rewrite of a statement.                                             *)
(***************************************************************************)

\* A statement keeps its class and its destination, its value is the rewritten
\* expression, and it reads what it read or less.
LEMMA SimplifyStatementKeeps ==
  ASSUME NEW s \in Statement, NEW t, t = SimplifyStatement(s)
  PROVE  /\ t \in Statement
         /\ StatementReads(t) \subseteq StatementReads(s)
         /\ t.kind = s.kind
         /\ \A v : [t EXCEPT !.value = v] = [s EXCEPT !.value = v]
         /\ SimplifyStatement(t) = t
<1> DEFINE x == SimplifyExpr(s.value)
<1>1. s.value \in Expression /\ t = [s EXCEPT !.value = x]
  BY DEF Statement, AssignStatement, StoreStatement, SimplifyStatement
<1>2. x \in Expression /\ Reads(x) \subseteq Reads(s.value) /\ SimplifyExpr(x) = x
  BY <1>1, SimplifyExprShrinks, SimplifyExprIdempotent
<1> HIDE DEF x
<1>3. t \in Statement /\ t.kind = s.kind /\ t.value = x
  BY <1>1, <1>2 DEF Statement, AssignStatement, StoreStatement
<1>4. s.kind = "store" => t.address = s.address
  BY <1>1 DEF Statement, AssignStatement, StoreStatement
<1>5. StatementReads(t) \subseteq StatementReads(s)
  BY <1>2, <1>3, <1>4 DEF StatementReads
<1>6. \A v : [t EXCEPT !.value = v] = [s EXCEPT !.value = v]
  BY <1>1 DEF Statement, AssignStatement, StoreStatement
<1>7. SimplifyStatement(t) = t
  <2>1. SimplifyStatement(t) = [t EXCEPT !.value = x]
    BY <1>2, <1>3 DEF SimplifyStatement
  <2> QED BY <1>3, <2>1 DEF Statement, AssignStatement, StoreStatement
<1> QED BY <1>3, <1>5, <1>6, <1>7

-----------------------------------------------------------------------------
(***************************************************************************)
(* The theorems.                                                           *)
(***************************************************************************)

\* The statements the current walk has passed, all of them after a first walk,
\* are in normal form.
Normalised ==
  \A n \in DOMAIN ir : passes > 0 \/ n < pos => SimplifyStatement(ir[n]) = ir[n]

SimplifierInv == TypeOK /\ ReadsShrink /\ Normalised

LEMMA InitEstablishesInv == Init => SimplifierInv
<1> SUFFICES ASSUME Init PROVE SimplifierInv
  OBVIOUS
<1>1. ir = original /\ ir \in Seq(Statement) /\ pos = 1 /\ passes = 0 /\ original \in Blocks
  BY SimplifierAssumption DEF Init
<1>2. TypeOK
  BY <1>1, SimplifierAssumption DEF TypeOK
<1>3. ReadsShrink
  <2> SUFFICES ASSUME NEW n \in DOMAIN ir
               PROVE  [ir[n] EXCEPT !.value = ir[n].value] = ir[n]
    BY <1>1 DEF ReadsShrink
  <2>1. ir[n] \in Statement
    BY <1>1
  <2> QED BY <2>1 DEF Statement, AssignStatement, StoreStatement
<1>4. Normalised
  BY <1>1 DEF Normalised
<1> QED BY <1>2, <1>3, <1>4 DEF SimplifierInv

LEMMA VisitPreservesInv == SimplifierInv /\ VisitStatement => SimplifierInv'
<1> SUFFICES ASSUME SimplifierInv, VisitStatement PROVE SimplifierInv'
  OBVIOUS
<1>1. /\ ir \in Seq(Statement) /\ pos \in 1..Len(ir) /\ passes \in 0..MaxPasses
      /\ original \in Blocks /\ MaxPasses \in Nat
  BY SimplifierAssumption DEF SimplifierInv, TypeOK, VisitStatement
<1>2. ir[pos] \in Statement
  BY <1>1
<1> DEFINE t == SimplifyStatement(ir[pos])
<1>3. ir' = [ir EXCEPT ![pos] = t] /\ pos' = pos + 1 /\ passes' = passes /\ original' = original
  BY DEF VisitStatement
<1>4. /\ t \in Statement /\ t.kind = ir[pos].kind /\ SimplifyStatement(t) = t
      /\ StatementReads(t) \subseteq StatementReads(ir[pos])
      /\ \A v : [t EXCEPT !.value = v] = [ir[pos] EXCEPT !.value = v]
  BY <1>2, SimplifyStatementKeeps
<1> HIDE DEF t
<1>5. ir' \in Seq(Statement) /\ Len(ir') = Len(ir) /\ DOMAIN ir' = DOMAIN ir
  BY <1>1, <1>3, <1>4
<1>6. TypeOK'
  BY <1>1, <1>3, <1>5 DEF TypeOK
<1>7. ASSUME NEW n \in DOMAIN ir
      PROVE  ir'[n] = IF n = pos THEN t ELSE ir[n]
  BY <1>1, <1>3
<1>8. ReadsShrink'
  <2>1. Len(ir') = Len(original')
    BY <1>3, <1>5 DEF SimplifierInv, ReadsShrink
  <2>2. ASSUME NEW n \in DOMAIN ir
        PROVE  /\ StatementReads(ir'[n]) \subseteq StatementReads(original[n])
               /\ ir'[n].kind = original[n].kind
               /\ [ir'[n] EXCEPT !.value = original[n].value] = original[n]
    BY <1>4, <1>7, <2>2 DEF SimplifierInv, ReadsShrink
  <2> QED BY <1>3, <1>5, <2>1, <2>2 DEF ReadsShrink
<1>9. Normalised'
  <2> SUFFICES ASSUME NEW n \in DOMAIN ir, passes > 0 \/ n < pos + 1
               PROVE  SimplifyStatement(ir'[n]) = ir'[n]
    BY <1>3, <1>5 DEF Normalised
  <2>1. n = pos \/ passes > 0 \/ n < pos
    BY <1>1
  <2> QED BY <1>4, <1>7, <2>1 DEF SimplifierInv, Normalised
<1> QED BY <1>6, <1>8, <1>9 DEF SimplifierInv

LEMMA NextPreservesInv == SimplifierInv /\ [Next]_vars => SimplifierInv'
<1> SUFFICES ASSUME SimplifierInv, [Next]_vars PROVE SimplifierInv'
  OBVIOUS
<1>1. CASE VisitStatement
  BY <1>1, VisitPreservesInv
<1>2. CASE FinishPass
  <2>1. /\ ir' = ir /\ original' = original /\ pos' = 1 /\ passes' = passes + 1
        /\ passes < MaxPasses /\ pos > Len(ir)
    BY <1>2 DEF FinishPass
  <2>2. ir \in Seq(Statement) /\ passes \in 0..MaxPasses /\ MaxPasses \in Nat
    BY SimplifierAssumption DEF SimplifierInv, TypeOK
  <2>3. TypeOK'
    BY <2>1, <2>2 DEF SimplifierInv, TypeOK
  <2>4. ReadsShrink'
    BY <2>1 DEF SimplifierInv, ReadsShrink
  <2>5. Normalised'
    <3>1. pos \in Int /\ \A n \in DOMAIN ir : n < pos
      BY <2>1, <2>2 DEF SimplifierInv, TypeOK
    <3>2. \A n \in DOMAIN ir : SimplifyStatement(ir[n]) = ir[n]
      BY <3>1 DEF SimplifierInv, Normalised
    <3> QED BY <2>1, <3>2 DEF Normalised
  <2> QED BY <2>3, <2>4, <2>5 DEF SimplifierInv
<1>3. CASE UNCHANGED vars
  BY <1>3 DEF SimplifierInv, TypeOK, ReadsShrink, Normalised, vars
<1> QED BY <1>1, <1>2, <1>3 DEF Next

\* The stream stays a stream of well-formed statements under simplify().
THEOREM SimplifierTypeCorrect == Spec => []TypeOK
<1>1. SimplifierInv => TypeOK
  BY DEF SimplifierInv
<1> QED BY <1>1, InitEstablishesInv, NextPreservesInv, PTL DEF Spec

\* However often simplify() is called, every statement keeps its destination and
\* reads, with the same SSA ids, a part of what the lifted statement read.
THEOREM ReadsShrinkHolds == Spec => []ReadsShrink
<1>1. SimplifierInv => ReadsShrink
  BY DEF SimplifierInv
<1> QED BY <1>1, InitEstablishesInv, NextPreservesInv, PTL DEF Spec

\* A second call of simplify() changes nothing, whatever the stream.
THEOREM OnePassSufficesHolds == Spec => OnePassSuffices
<1>1. SimplifierInv /\ [Next]_vars => [passes > 0 => UNCHANGED ir]_vars
  <2> SUFFICES ASSUME SimplifierInv, VisitStatement, passes > 0 PROVE UNCHANGED ir
    BY DEF Next, FinishPass, vars
  <2>1. ir \in Seq(Statement) /\ pos \in DOMAIN ir
    BY DEF SimplifierInv, TypeOK, VisitStatement
  <2>2. SimplifyStatement(ir[pos]) = ir[pos]
    BY <2>1 DEF SimplifierInv, Normalised
  <2>3. ir' = [ir EXCEPT ![pos] = ir[pos]]
    BY <2>2 DEF VisitStatement
  <2> QED BY <2>1, <2>3
<1> QED BY <1>1, InitEstablishesInv, NextPreservesInv, PTL DEF Spec, OnePassSuffices

-----------------------------------------------------------------------------
(***************************************************************************)
(* Values.                                                                 *)
(***************************************************************************)

\* What same_value finds equal has the same width and the same value.
LEMMA SameRegisterMeans ==
  ASSUME NEW env, NEW a \in OptReg, NEW b \in OptReg, SameRegister(a, b)
  PROVE  RegisterOf(a, env) = RegisterOf(b, env)
BY DEF SameRegister, RegisterOf, OptReg, RegValue, NullValue

LEMMA SameValueMeans ==
  ASSUME NEW env \in Env, NEW a \in Value, NEW b \in Value, SameValue(a, b)
  PROVE  WidthOf(a) = WidthOf(b) /\ EvalValue(a, env) = EvalValue(b, env)
<1>1. CASE a \in RegValue
  BY <1>1 DEF RegValue, SameValue, SameRegister, WidthOf, EvalValue
<1>2. CASE a \in ImmValue
  BY <1>2 DEF ImmValue, SameValue, WidthOf, EvalValue
<1>3. CASE a \in MemoryValue
  <2>1. /\ a.kind = "mem" /\ b.kind = "mem" /\ a.size = b.size /\ a.scale = b.scale
        /\ a.displacement = b.displacement
        /\ SameRegister(a.base, b.base) /\ SameRegister(a.index, b.index)
    BY <1>3 DEF MemoryValue, SameValue
  <2>2. b \in MemoryValue
    BY <2>1 DEF Value, RegValue, ImmValue
  <2>3. /\ RegisterOf(a.base, env) = RegisterOf(b.base, env)
        /\ RegisterOf(a.index, env) = RegisterOf(b.index, env)
    BY <1>3, <2>1, <2>2, SameRegisterMeans DEF MemoryValue
  <2>4. Address(a, env) = Address(b, env)
    BY <2>1, <2>3 DEF Address
  <2> QED BY <2>1, <2>4 DEF WidthOf, EvalValue
<1> QED BY <1>1, <1>2, <1>3 DEF Value

-----------------------------------------------------------------------------
(***************************************************************************)
(* The rules.                                                              *)
(***************************************************************************)
LEMMA ZeroMeans == \A env : EvalFlat(ImmV(0), env) = 0
<1>1. PICK M \in Nat \ {0} : M = Modulus[64]
  BY WidthFacts
<1>2. 0 % M = 0
  BY <1>1
<1> QED BY <1>1, <1>2 DEF ImmV, EvalFlat, EvalValue

\* Rule 1a: exclusive or with the mask of the operand's width is not.
LEMMA MaskMeans ==
  ASSUME NEW env \in Env, NEW e \in BinaryExpression, AllOnesMask(e)
  PROVE  EvalFlat(Unary("LogicalNot", e.left), env) = EvalFlat(e, env)
<1>1. /\ e.kind = "bin" /\ e.op = "BitXor" /\ e.left.kind = "reg" /\ e.right.kind = "imm"
      /\ e.left \in Value /\ e.right \in Value
  BY DEF BinaryExpression, AllOnesMask
<1> DEFINE w == WidthOf(e.left)
           a == EvalValue(e.left, env)
           m == Modulus[w]
<1>2. w \in Widths /\ a \in 0..(m - 1) /\ m \in Nat \ {0}
  BY <1>1, ValueFitsWidth, WidthFacts
<1>3. EvalValue(e.right, env) = m - 1
  BY <1>1 DEF AllOnesMask, IsAllOnes, WidthOf, EvalValue
<1>4. EvalFlat(e, env) = XorWord(a, (m - 1) % m)
  BY <1>1, <1>3 DEF EvalFlat, EvalBinary
<1>5. EvalFlat(Unary("LogicalNot", e.left), env) = m - 1 - a
  BY DEF Unary, EvalFlat, EvalUnary
<1>6. XorWord(a, m - 1) = m - 1 - a
  BY <1>2, XorAssumption
<1>7. (m - 1) % m = m - 1
  BY <1>2
<1> QED BY <1>4, <1>5, <1>6, <1>7

\* Rules 1b and 3: a value exclusive-ored with itself or subtracted from itself.
LEMMA CancelMeans ==
  ASSUME NEW env \in Env, NEW e \in BinaryExpression, Cancels(e) \/ Vanishes(e)
  PROVE  EvalFlat(e, env) = 0
<1>1. /\ e.kind = "bin" /\ e.left \in Value /\ e.right \in Value
      /\ e.op \in {"BitXor", "Sub"} /\ SameValue(e.left, e.right)
  BY DEF BinaryExpression, Cancels, Vanishes
<1> DEFINE w == WidthOf(e.left)
           a == EvalValue(e.left, env)
           m == Modulus[w]
<1>2. w \in Widths /\ a \in 0..(m - 1) /\ m \in Nat \ {0}
  BY <1>1, ValueFitsWidth, WidthFacts
<1>3. EvalValue(e.right, env) = a
  BY <1>1, SameValueMeans
<1>4. EvalFlat(e, env) = EvalBinary(e.op, a, a, m)
  BY <1>1, <1>3 DEF EvalFlat
<1>5. XorWord(a, a) = 0
  BY <1>2, XorAssumption
<1> HIDE DEF w, a, m
<1>6. a % m = a /\ (a - a) % m = 0
  BY <1>2
<1>7. EvalBinary("BitXor", a, a, m) = 0
  BY <1>5, <1>6 DEF EvalBinary
<1>8. EvalBinary("Sub", a, a, m) = 0
  BY <1>6 DEF EvalBinary
<1> QED BY <1>1, <1>4, <1>7, <1>8

\* Rule 2: adding a negative immediate is subtracting its magnitude.
LEMMA SubtractMeans ==
  ASSUME NEW env \in Env, NEW e \in BinaryExpression
  PROVE  EvalFlat(SubtractsInstead(e), env) = EvalFlat(e, env)
<1>1. CASE e.op = "Add" /\ Negatable(e.right)
  <2>1. /\ e.kind = "bin" /\ e.left \in Value /\ e.right \in ImmValue /\ e.right \in Value
    BY <1>1 DEF BinaryExpression, Negatable, Value, RegValue, ImmValue, MemoryValue
  <2> DEFINE w == WidthOf(e.left)
             a == EvalValue(e.left, env)
             m == Modulus[w]
             M == Modulus[64]
             c == e.right.value
             d == (-c) % M
  <2>2. w \in Widths /\ a \in 0..(m - 1) /\ m \in Nat \ {0} /\ M \in Nat \ {0}
    BY <2>1, ValueFitsWidth, WidthFacts
  <2>3. PICK k \in Int : M = m * k
    BY <2>2, WidthFacts
  <2>4. e.right.kind = "imm" /\ c \in 0..(M - 1) /\ 2 * c > M
    BY <1>1, <2>1 DEF ImmValue, Word, Negatable
  <2>5. d = M - c
    <3>1. d \in 0..(M - 1) /\ d \in Int
      BY <2>2, <2>4
    <3>0. -c \in Int /\ M \in Nat \ {0}
      BY <2>2, <2>4
    <3>2. PICK q \in Int : -c = M * q + d
      BY <3>0, ModQuotient
    <3>3. M * q + d = M * (-1) + (M - c)
      BY <2>2, <2>4, <3>2
    <3>4. M - c \in 0..(M - 1)
      BY <2>2, <2>4
    <3> HIDE DEF d, M, c
    <3> QED BY <2>2, <3>1, <3>3, <3>4, ModUnique
  <2>6. SubtractsInstead(e) = Binary("Sub", e.left, ImmV(-c))
    BY <1>1 DEF SubtractsInstead
  <2>7. EvalFlat(SubtractsInstead(e), env) = (a - d) % m
    <3> DEFINE i == ImmV(-c)
    <3>1. EvalValue(i, env) = d
      BY DEF ImmV, EvalValue
    <3> HIDE DEF i, d
    <3> DEFINE b == Binary("Sub", e.left, i)
    <3>2. b.kind = "bin" /\ b.op = "Sub" /\ b.left = e.left /\ b.right = i
      BY DEF Binary
    <3> HIDE DEF b
    <3>3. EvalFlat(b, env) = EvalBinary("Sub", a, d, m)
      BY <3>1, <3>2 DEF EvalFlat
    <3>4. EvalBinary("Sub", a, d, m) = (a - d) % m
      BY DEF EvalBinary
    <3> QED BY <2>6, <3>3, <3>4 DEF b, i
  <2>8. EvalFlat(e, env) = (a + c) % m
    BY <1>1, <2>1, <2>4 DEF EvalFlat, EvalBinary, EvalValue
  <2> HIDE DEF w, a, m, M, c, d
  <2>9. a - d = (a + c) - m * k /\ a + c \in Int
    BY <2>2, <2>3, <2>4, <2>5
  <2>10. ((a + c) - m * k) % m = (a + c) % m
    BY <2>2, <2>9, ModShift
  <2> QED BY <2>7, <2>8, <2>9, <2>10
<1>2. CASE ~(e.op = "Add" /\ Negatable(e.right))
  BY <1>2, Zenon DEF SubtractsInstead
<1> QED BY <1>1, <1>2

LEMMA SimplifyExprMeans ==
  ASSUME NEW env \in Env, NEW e \in Expression
  PROVE  Eval(SimplifyExpr(e), env) = Eval(e, env)
<1>1. CASE e.kind # "bin"
  BY <1>1 DEF SimplifyExpr
<1>2. CASE e.kind = "bin"
  <2> DEFINE s == SimplifyBinary(e)
             d == SubtractsInstead(e)
  <2>1. e \in BinaryExpression /\ SimplifyExpr(e) = s
    BY <1>2, BinaryKind DEF SimplifyExpr
  <2>2. d \in BinaryExpression /\ EvalFlat(d, env) = EvalFlat(e, env)
    BY <2>1, SubtractsInsteadType, SubtractMeans
  <2>3. CASE s = ImmV(0) /\ (Cancels(e) \/ Vanishes(d))
    <3>1. EvalFlat(e, env) = 0
      BY <2>1, <2>2, <2>3, CancelMeans
    <3>2. EvalFlat(s, env) = 0 /\ s.kind = "imm"
      BY <2>3, ZeroMeans DEF ImmV
    <3> HIDE DEF s
    <3> QED BY <1>2, <2>1, <3>1, <3>2 DEF Eval
  <2>4. CASE s = Unary("LogicalNot", e.left) /\ AllOnesMask(e)
    <3>1. EvalFlat(s, env) = EvalFlat(e, env)
      BY <2>1, <2>4, MaskMeans
    <3>2. s.kind = "un"
      BY <2>4 DEF Unary
    <3> HIDE DEF s
    <3> QED BY <1>2, <2>1, <3>1, <3>2 DEF Eval
  <2>5. CASE s = d
    <3>1. d.kind = "bin"
      BY <2>2 DEF BinaryExpression
    <3> HIDE DEF s, d
    <3> QED BY <1>2, <2>1, <2>2, <2>5, <3>1 DEF Eval
  <2> QED BY <2>3, <2>4, <2>5, SimplifyBinaryShape
<1> QED BY <1>1, <1>2

LEMMA SimplifyStatementMeans ==
  ASSUME NEW env \in Env, NEW s \in Statement
  PROVE  ExecStatement(SimplifyStatement(s), env) = ExecStatement(s, env)
<1> DEFINE x == SimplifyExpr(s.value)
           t == [s EXCEPT !.value = x]
<1>1. s.value \in Expression /\ SimplifyStatement(s) = t
  BY DEF Statement, AssignStatement, StoreStatement, SimplifyStatement
<1>2. Eval(x, env) = Eval(s.value, env)
  BY <1>1, SimplifyExprMeans
<1> HIDE DEF x
<1>3. /\ t.value = x /\ t.kind = s.kind
      /\ s.kind = "store" => t.address = s.address
      /\ s.kind = "assign" => t.dst = s.dst
  BY DEF Statement, AssignStatement, StoreStatement
<1>4. Destination(t) = Destination(s)
  BY <1>3 DEF Statement, AssignStatement, StoreStatement, Destination
<1> HIDE DEF t
<1> QED BY <1>1, <1>2, <1>3, <1>4 DEF ExecStatement

-----------------------------------------------------------------------------
(***************************************************************************)
(* The specification.                                                      *)
(***************************************************************************)
SameMeaning ==
  /\ DOMAIN ir = DOMAIN original
  /\ \A n \in DOMAIN original : \A env \in Env :
       ExecStatement(ir[n], env) = ExecStatement(original[n], env)

LEMMA VisitKeepsMeaning == TypeOK /\ SameMeaning /\ VisitStatement => SameMeaning'
<1> SUFFICES ASSUME TypeOK, SameMeaning, VisitStatement PROVE SameMeaning'
  OBVIOUS
<1>1. /\ ir \in Seq(Statement) /\ pos \in DOMAIN ir /\ original' = original
      /\ ir' = [ir EXCEPT ![pos] = SimplifyStatement(ir[pos])]
  BY DEF TypeOK, VisitStatement
<1>2. DOMAIN ir' = DOMAIN original'
  BY <1>1 DEF SameMeaning
<1>3. ASSUME NEW n \in DOMAIN original, NEW env \in Env
      PROVE  ExecStatement(ir'[n], env) = ExecStatement(original[n], env)
  <2>1. n \in DOMAIN ir /\ ExecStatement(ir[n], env) = ExecStatement(original[n], env)
    BY DEF SameMeaning
  <2>2. CASE n = pos
    <3>1. ir'[n] = SimplifyStatement(ir[n]) /\ ir[n] \in Statement
      BY <1>1, <2>1, <2>2
    <3> QED BY <2>1, <3>1, SimplifyStatementMeans
  <2>3. CASE n # pos
    <3>1. ir'[n] = ir[n]
      BY <1>1, <2>1, <2>3
    <3> QED BY <2>1, <3>1
  <2> QED BY <2>2, <2>3
<1> QED BY <1>1, <1>2, <1>3 DEF SameMeaning

\* Simplifying never changes what a statement does to an environment.
THEOREM MeaningPreservedHolds == Spec => []MeaningPreserved
<1>1. Init => SameMeaning
  BY DEF Init, SameMeaning
<1>2. TypeOK /\ SameMeaning /\ [Next]_vars => SameMeaning'
  <2>1. SameMeaning /\ (FinishPass \/ UNCHANGED vars) => SameMeaning'
    BY DEF FinishPass, vars, SameMeaning
  <2> QED BY <2>1, VisitKeepsMeaning DEF Next
<1>3. SameMeaning => MeaningPreserved
  BY EnvsAssumption DEF SameMeaning, MeaningPreserved
<1> QED BY <1>1, <1>2, <1>3, SimplifierTypeCorrect, PTL DEF Spec
=============================================================================
