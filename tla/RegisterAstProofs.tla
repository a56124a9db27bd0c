-------------------------- MODULE RegisterAstProofs --------------------------
(***************************************************************************)
(* Proofs about RegisterAst, for streams of any length, any depth limit    *)
(* and any environment: an answer computes the value it is about, and what *)
(* keeps a call from giving one.                                           *)
(***************************************************************************)
EXTENDS RegisterAstMeaning, ExecutionProofs, SequenceTheorems

-----------------------------------------------------------------------------
(***************************************************************************)
(* The levels of resolve().                                                *)
(***************************************************************************)
Nothing == [e \in Expression |-> [at \in Nat |-> TooDeep]]

Level(ss, gone, below, under) ==
  [e \in Expression |-> [at \in Nat |-> ResolveExpression(ss, gone, e, at, below, under)]]

AreLevels(f, ss, gone, k) ==
  f = [n \in 0..k |-> IF n = 0 THEN Nothing ELSE Level(ss, gone, f[n - 1], f[Down(n - 1)])]

LEMMA LevelsExist ==
  ASSUME NEW ss, NEW gone
  PROVE  \A k \in Nat : \E f : AreLevels(f, ss, gone, k)
<1> DEFINE T == {k \in Nat : \E f : AreLevels(f, ss, gone, k)}
<1>1. 0 \in T
  <2> DEFINE f == [n \in 0..0 |-> Nothing]
  <2>1. f = [n \in 0..0 |-> IF n = 0 THEN Nothing ELSE Level(ss, gone, f[n - 1], f[Down(n - 1)])]
    OBVIOUS
  <2> QED BY <2>1 DEF AreLevels
<1>2. ASSUME NEW k \in Nat, k \in T PROVE k + 1 \in T
  <2>1. PICK g : AreLevels(g, ss, gone, k)
    BY <1>2
  <2> DEFINE f == [n \in 0..(k + 1) |-> IF n = k + 1 THEN Level(ss, gone, g[k], g[Down(k)]) ELSE g[n]]
  <2>2. ASSUME NEW n \in 0..(k + 1)
        PROVE  f[n] = IF n = 0 THEN Nothing ELSE Level(ss, gone, f[n - 1], f[Down(n - 1)])
    <3>1. CASE n = k + 1
      <4>1. Down(k) \in 0..k /\ n - 1 = k /\ n # 0
        BY <3>1 DEF Down
      <4>2. f[k] = g[k] /\ f[Down(k)] = g[Down(k)]
        BY <4>1
      <4> QED BY <3>1, <4>1, <4>2
    <3>2. CASE n # k + 1
      <4>1. n \in 0..k /\ f[n] = g[n]
        BY <3>2
      <4>2. g[n] = IF n = 0 THEN Nothing ELSE Level(ss, gone, g[n - 1], g[Down(n - 1)])
        BY <2>1, <4>1 DEF AreLevels
      <4>3. n # 0 => n - 1 \in 0..k /\ Down(n - 1) \in 0..k
        BY <4>1 DEF Down
      <4>4. n # 0 => f[n - 1] = g[n - 1] /\ f[Down(n - 1)] = g[Down(n - 1)]
        BY <4>3
      <4> QED BY <4>1, <4>2, <4>4
    <3> QED BY <3>1, <3>2
  <2>3. AreLevels(f, ss, gone, k + 1)
    BY <2>2 DEF AreLevels
  <2> QED BY <2>3
<1>3. Nat \subseteq T
  <2> HIDE DEF T
  <2> QED BY <1>1, <1>2, SetInduction
<1> QED BY <1>3

LEMMA ResolverUnfolds ==
  ASSUME NEW ss, NEW gone
  PROVE  AreLevels(Resolver(ss, gone), ss, gone, MaxDepth + 1)
<1>1. \E f : AreLevels(f, ss, gone, MaxDepth + 1)
  <2>1. MaxDepth + 1 \in Nat
    BY RegisterAstAssumption
  <2> QED BY <2>1, LevelsExist
<1>2. Resolver(ss, gone) = CHOOSE f : AreLevels(f, ss, gone, MaxDepth + 1)
  BY DEF Resolver, AreLevels, Nothing, Level
<1> QED BY <1>1, <1>2

\* What is resolved with n levels left.
Resolved(ss, n, e, at) == Resolver(ss, {})[n][e][at]

Levels == 0..(MaxDepth + 1)

LEMMA OneLevel ==
  ASSUME NEW ss, NEW n \in Levels, NEW e \in Expression, NEW at \in Nat
  PROVE  /\ n = 0 => Resolved(ss, n, e, at) = TooDeep
         /\ n # 0 => /\ n - 1 \in Levels /\ Down(n - 1) \in Levels
                     /\ Resolved(ss, n, e, at) =
                          ResolveExpression(ss, {}, e, at, Resolver(ss, {})[n - 1],
                                                       Resolver(ss, {})[Down(n - 1)])
<1> DEFINE f == Resolver(ss, {})
<1>1. f = [k \in Levels |-> IF k = 0 THEN Nothing
                            ELSE Level(ss, {}, f[k - 1], f[Down(k - 1)])]
  BY ResolverUnfolds DEF AreLevels, Levels
<1> HIDE DEF f
<1>2. f[n] = IF n = 0 THEN Nothing ELSE Level(ss, {}, f[n - 1], f[Down(n - 1)])
  BY <1>1
<1>3. n # 0 => n - 1 \in Levels /\ Down(n - 1) \in Levels
  BY RegisterAstAssumption DEF Levels, Down
<1> QED BY <1>2, <1>3 DEF Resolved, f, Nothing, Level


-----------------------------------------------------------------------------
(***************************************************************************)
(* Answers.                                                                *)
(***************************************************************************)
AnswerNode ==
  [kind : {"reg"}, reg : Reg, width : {64}, ssa_id : {0}] \cup ImmValue \cup
  [kind : {"un"}, op : UnaryOps \cup {"Load"}] \cup
  [kind : {"bin"}, op : BinaryOps \cup {"Mul"}] \cup {ConditionalNode}

Answers == {a \in Seq(AnswerNode) : a # <<>>}

\* What a call gives as long as nothing was freed.
Outcome == Answers \cup {TooDeep}

Outcomes(f) == \A e \in Expression : \A at \in Nat : f[e][at] \in Outcome

LEMMA AnswersDoNotFail ==
  /\ TooDeep \notin Answers /\ Dangling \notin Outcome /\ TooDeep # Dangling
  /\ <<>> \notin Outcome
  /\ \A x \in AnswerNode : <<x>> \in Answers
<1>1. [kind |-> "throw"] \notin AnswerNode /\ [kind |-> "dangling"] \notin AnswerNode
  BY DEF AnswerNode, ImmValue, ConditionalNode
<1>2. \A a \in Answers : \A k \in DOMAIN a : a[k] \in AnswerNode
  BY DEF Answers
<1>3. DOMAIN TooDeep = {1} /\ DOMAIN Dangling = {1}
      /\ TooDeep[1] = [kind |-> "throw"] /\ Dangling[1] = [kind |-> "dangling"]
  BY DEF TooDeep, Dangling
<1>4. TooDeep \notin Answers /\ Dangling \notin Answers
  BY <1>1, <1>2, <1>3
<1>5. TooDeep # Dangling
  BY <1>3
<1>6. <<>> \notin Answers /\ TooDeep # <<>>
  BY DEF Answers, TooDeep
<1>7. \A x \in AnswerNode : <<x>> \in Answers
  BY DEF Answers
<1> QED BY <1>4, <1>5, <1>6, <1>7 DEF Outcome

LEMMA ImmediateType == \A n \in Int : ImmV(n) \in ImmValue
<1>1. PICK m \in Nat \ {0} : m = Modulus[64]
  BY WidthFacts
<1>2. \A n \in Int : n % m \in 0..(m - 1)
  BY ModRange
<1> QED BY <1>1, <1>2 DEF ImmV, ImmValue, Word

LEMMA NodesAnswer ==
  /\ \A r \in Reg : InputLeaf(r) \in AnswerNode
  /\ \A v \in ImmValue : v \in AnswerNode
  /\ \A n \in Int : ImmV(n) \in AnswerNode
  /\ \A op \in UnaryOps \cup {"Load"} : UnaryNode(op) \in AnswerNode
  /\ \A op \in BinaryOps \cup {"Mul"} : BinaryNode(op) \in AnswerNode
  /\ ConditionalNode \in AnswerNode
BY ImmediateType DEF AnswerNode, InputLeaf, UnaryNode, BinaryNode

LEMMA ConcatAnswers ==
  ASSUME NEW a \in Answers, NEW b \in Answers
  PROVE  a \o b \in Answers
<1>1. a \in Seq(AnswerNode) /\ b \in Seq(AnswerNode) /\ Len(a) # 0
  BY DEF Answers
<1>2. a \o b \in Seq(AnswerNode) /\ Len(a \o b) = Len(a) + Len(b)
  BY <1>1
<1>3. Len(a) \in Nat /\ Len(b) \in Nat
  BY <1>1
<1>4. Len(a \o b) # 0
  BY <1>1, <1>2, <1>3
<1> QED BY <1>2, <1>4 DEF Answers

LEMMA JoinedIs ==
  ASSUME NEW a \in Outcome, NEW b \in Outcome
  PROVE  /\ Joined(a, b) \in Outcome
         /\ Joined(a, b) = TooDeep <=> TooDeep \in {a, b}
         /\ Joined(a, b) # TooDeep => /\ Joined(a, b) = a \o b
                                      /\ a \in Answers /\ b \in Answers
<1>1. Dangling \notin {a, b}
  BY AnswersDoNotFail
<1>2. CASE TooDeep \in {a, b}
  BY <1>1, <1>2 DEF Joined, Outcome
<1>3. CASE TooDeep \notin {a, b}
  <2>1. a \in Answers /\ b \in Answers /\ Joined(a, b) = a \o b
    BY <1>1, <1>3 DEF Joined, Outcome
  <2> QED BY <1>3, <2>1, ConcatAnswers, AnswersDoNotFail DEF Outcome
<1> QED BY <1>2, <1>3

LEMMA PlusIs ==
  ASSUME NEW a \in Outcome \cup {<<>>}, NEW b \in Outcome \cup {<<>>}
  PROVE  /\ Plus(a, b) \in Outcome \cup {<<>>}
         /\ Plus(a, b) = <<>> <=> a = <<>> /\ b = <<>>
         /\ Plus(a, b) = TooDeep <=> TooDeep \in {a, b}
         /\ b = <<>> => Plus(a, b) = a
         /\ a = <<>> => Plus(a, b) = b
         /\ a # <<>> /\ b # <<>> /\ Plus(a, b) # TooDeep
              => Plus(a, b) = (a \o b) \o <<BinaryNode("Add")>> /\ a \in Answers /\ b \in Answers
<1>0. TooDeep # <<>> /\ <<BinaryNode("Add")>> \in Outcome /\ <<BinaryNode("Add")>> # TooDeep
      /\ <<>> \notin Outcome
  <2>1. BinaryNode("Add") \in AnswerNode
    BY NodesAnswer DEF BinaryOps
  <2>2. <<BinaryNode("Add")>> \in Answers
    BY <2>1, AnswersDoNotFail
  <2> QED BY <2>2, AnswersDoNotFail DEF Outcome
<1>1. CASE a = <<>>
  BY <1>0, <1>1 DEF Plus
<1>2. CASE a # <<>> /\ b = <<>>
  BY <1>0, <1>2 DEF Plus
<1>3. CASE a # <<>> /\ b # <<>>
  <2> DEFINE ab == Joined(a, b)
             c == <<BinaryNode("Add")>>
  <2>1. Plus(a, b) = Joined(ab, c)
    BY <1>3 DEF Plus
  <2>2. /\ ab \in Outcome /\ (ab = TooDeep <=> TooDeep \in {a, b})
        /\ ab # TooDeep => ab = a \o b /\ a \in Answers /\ b \in Answers
    BY <1>3, JoinedIs
  <2> HIDE DEF ab, c
  <2>3. /\ Joined(ab, c) \in Outcome /\ (Joined(ab, c) = TooDeep <=> TooDeep \in {ab, c})
        /\ Joined(ab, c) # TooDeep => Joined(ab, c) = ab \o c
    BY <1>0, <2>2, JoinedIs DEF c
  <2>4. Joined(ab, c) # <<>>
    BY <1>0, <2>3
  <2> QED BY <1>0, <1>3, <2>1, <2>2, <2>3, <2>4 DEF c
<1> QED BY <1>1, <1>2, <1>3


LEMMA LatestIs ==
  ASSUME NEW n \in Nat, NEW P \in SUBSET (1..n), P # {}
  PROVE  Latest(P) \in P /\ \A m \in P : m <= Latest(P)
<1> DEFINE Bounded(k) == \A Q \in SUBSET (1..k) : Q # {} => \E x \in Q : \A m \in Q : m <= x
           T == {k \in Nat : Bounded(k)}
<1>1. 0 \in T
  <2>1. 1..0 = {}
    OBVIOUS
  <2> QED BY <2>1
<1>2. ASSUME NEW k \in Nat, k \in T PROVE k + 1 \in T
  <2>1. SUFFICES ASSUME NEW Q \in SUBSET (1..(k + 1)), Q # {}
                 PROVE  \E x \in Q : \A m \in Q : m <= x
    OBVIOUS
  <2>2. CASE k + 1 \in Q
    BY <2>2
  <2>3. CASE k + 1 \notin Q
    <3>1. Q \in SUBSET (1..k)
      BY <2>3
    <3> QED BY <1>2, <2>1, <3>1
  <2> QED BY <2>2, <2>3
<1>3. Nat \subseteq T
  <2> HIDE DEF T
  <2> QED BY <1>1, <1>2, SetInduction
<1>4. \E x \in P : \A m \in P : m <= x
  BY <1>3
<1> QED BY <1>4 DEF Latest

LEMMA ValuesAreExpressions ==
  /\ Value \subseteq Expression /\ RegValue \subseteq Value /\ ImmValue \subseteq Value
  /\ MemoryValue \subseteq Value
  /\ FlatExpression \subseteq Expression
BY DEF Value, FlatExpression, Expression

\* The address of an operand is a sum of what its registers are resolved to.
Terms(mv) == {mv.base, mv.index} \ {NullValue}

LEMMA TermsAreRegisters ==
  ASSUME NEW mv \in MemoryValue
  PROVE  /\ mv.base \in OptReg /\ mv.index \in OptReg /\ Terms(mv) \subseteq RegValue
         /\ mv.scale \in Int /\ mv.displacement \in Int
         /\ \A v \in OptReg : v # NullValue => v \in RegValue
BY DEF MemoryValue, OptReg, Terms, Scales

LEMMA AddressIs ==
  ASSUME NEW mv \in MemoryValue, NEW at \in Nat, NEW f, Outcomes(f)
  PROVE  /\ ResolveAddress(mv, at, f) \in Outcome
         /\ ResolveAddress(mv, at, f) = TooDeep <=> \E v \in Terms(mv) : f[v][at] = TooDeep
         /\ Base(mv, at, f) \in Outcome \cup {<<>>} /\ Index(mv, at, f) \in Outcome \cup {<<>>}
         /\ Base(mv, at, f) = TooDeep <=> mv.base # NullValue /\ f[mv.base][at] = TooDeep
         /\ Index(mv, at, f) = TooDeep <=> mv.index # NullValue /\ f[mv.index][at] = TooDeep
         /\ Displacement(mv) \in Answers \cup {<<>>}
<1> DEFINE b == Base(mv, at, f)
           i == Index(mv, at, f)
           d == Displacement(mv)
<1>0. /\ TooDeep # <<>> /\ <<>> \notin Outcome
      /\ \A n \in Int : <<ImmV(n)>> \in Answers
      /\ <<BinaryNode("Mul")>> \in Answers /\ TooDeep \notin Answers
  BY AnswersDoNotFail, NodesAnswer DEF TooDeep
<1>1. \A v \in RegValue : f[v][at] \in Outcome
  BY ValuesAreExpressions DEF Outcomes
<1>2. /\ b \in Outcome \cup {<<>>}
      /\ b = TooDeep <=> mv.base # NullValue /\ f[mv.base][at] = TooDeep
  BY <1>0, <1>1, TermsAreRegisters DEF Base
<1>3. /\ i \in Outcome \cup {<<>>}
      /\ i = TooDeep <=> mv.index # NullValue /\ f[mv.index][at] = TooDeep
  <2>1. CASE mv.index = NullValue
    BY <1>0, <2>1 DEF Index
  <2>2. CASE mv.index # NullValue /\ mv.scale = 1
    BY <1>1, <2>2, TermsAreRegisters DEF Index
  <2>3. CASE mv.index # NullValue /\ mv.scale # 1
    <3> DEFINE x == f[mv.index][at]
               k == <<ImmV(mv.scale)>>
               c == <<BinaryNode("Mul")>>
    <3>1. x \in Outcome /\ k \in Outcome /\ k # TooDeep /\ c \in Outcome /\ c # TooDeep
      BY <1>0, <1>1, <2>3, TermsAreRegisters DEF Outcome
    <3>2. i = Joined(Joined(x, k), c)
      BY <2>3 DEF Index
    <3> HIDE DEF x, k, c
    <3>3. Joined(x, k) \in Outcome /\ (Joined(x, k) = TooDeep <=> x = TooDeep)
      BY <3>1, JoinedIs
    <3>4. i \in Outcome /\ (i = TooDeep <=> x = TooDeep)
      BY <3>1, <3>2, <3>3, JoinedIs
    <3> QED BY <2>3, <3>4 DEF x
  <2> QED BY <2>1, <2>2, <2>3
<1>4. d \in Answers \cup {<<>>}
  BY <1>0, TermsAreRegisters DEF Displacement
<1>5. d \in Outcome \cup {<<>>} /\ d # TooDeep
  BY <1>0, <1>4 DEF Outcome
<1> HIDE DEF b, i, d
<1>6. /\ Plus(b, i) \in Outcome \cup {<<>>}
      /\ Plus(b, i) = TooDeep <=> b = TooDeep \/ i = TooDeep
  BY <1>2, <1>3, PlusIs
<1>7. /\ Plus(Plus(b, i), d) \in Outcome \cup {<<>>}
      /\ Plus(Plus(b, i), d) = TooDeep <=> b = TooDeep \/ i = TooDeep
  BY <1>5, <1>6, PlusIs
<1>8. ResolveAddress(mv, at, f) =
        IF Plus(Plus(b, i), d) = <<>> THEN <<ImmV(0)>> ELSE Plus(Plus(b, i), d)
  BY DEF ResolveAddress, b, i, d
<1>9. /\ ResolveAddress(mv, at, f) \in Outcome
      /\ ResolveAddress(mv, at, f) = TooDeep <=> b = TooDeep \/ i = TooDeep
  <2>1. <<ImmV(0)>> \in Outcome /\ <<ImmV(0)>> # TooDeep
    BY <1>0 DEF Outcome
  <2> QED BY <1>0, <1>7, <1>8, <2>1
<1>10. (b = TooDeep \/ i = TooDeep) <=> \E v \in Terms(mv) : f[v][at] = TooDeep
  BY <1>2, <1>3 DEF Terms
<1> QED BY <1>2, <1>3, <1>4, <1>9, <1>10 DEF b, i, d


-----------------------------------------------------------------------------
(***************************************************************************)
(* A use, and a load: which definition and which store it is given.        *)
(***************************************************************************)
LEMMA StatementParts ==
  ASSUME NEW ss \in Seq(Statement), NEW k \in 1..Len(ss)
  PROVE  /\ ss[k] \in Statement /\ ss[k].value \in Expression
         /\ ss[k].kind \in {"assign", "store"}
         /\ ss[k].kind = "store" => ss[k].address \in MemoryValue
         /\ ss[k].kind = "assign" => ss[k].dst \in Value
<1>1. ss[k] \in Statement
  OBVIOUS
<1> QED BY <1>1 DEF Statement, AssignStatement, StoreStatement

LEMMA DefsArePositions ==
  ASSUME NEW ss \in Seq(Statement), NEW r
  PROVE  /\ DefsOf(ss, r) \subseteq 1..Len(ss) /\ Len(ss) \in Nat
         /\ \A at : DefsBefore(ss, r, at) \subseteq DefsOf(ss, r)
         /\ \A at : DefsBefore(ss, r, at) = {k \in 1..Len(ss) : Defines(ss[k], r) /\ k < at}
BY DEF DefsOf, DefsBefore

Reaching(ss, r, at, f) ==
  \/ /\ \A k \in 1..Len(ss) : k < at => ~Defines(ss[k], r)
     /\ ResolveUse(ss, r, at, f) = <<InputLeaf(r)>>
     /\ <<InputLeaf(r)>> \in Answers
  \/ \E k \in 1..Len(ss) :
       /\ k < at /\ Defines(ss[k], r)
       /\ \A j \in 1..Len(ss) : k < j /\ j < at => ~Defines(ss[j], r)
       /\ ResolveUse(ss, r, at, f) = f[ss[k].value][k]

LEMMA UseIs ==
  ASSUME NEW ss \in Seq(Statement), NEW r \in Reg, NEW at \in Nat, NEW f, Outcomes(f)
  PROVE  ResolveUse(ss, r, at, f) \in Outcome /\ Reaching(ss, r, at, f)
<1> DEFINE defs == DefsBefore(ss, r, at)
<1>1. defs = {k \in 1..Len(ss) : Defines(ss[k], r) /\ k < at} /\ Len(ss) \in Nat
  BY DefsArePositions
<1>2. CASE defs = {}
  <2>1. <<InputLeaf(r)>> \in Answers
    BY NodesAnswer, AnswersDoNotFail
  <2> QED BY <1>1, <1>2, <2>1 DEF ResolveUse, Outcome, Reaching
<1>3. CASE defs # {}
  <2> DEFINE k == Latest(defs)
  <2>1. k \in defs /\ \A m \in defs : m <= k
    BY <1>1, <1>3, LatestIs
  <2>2. ResolveUse(ss, r, at, f) = f[ss[k].value][k]
    BY <1>3 DEF ResolveUse
  <2> HIDE DEF k
  <2>3. ss[k].value \in Expression /\ k \in Nat
    BY <1>1, <2>1, StatementParts
  <2>4. ResolveUse(ss, r, at, f) \in Outcome
    BY <2>2, <2>3 DEF Outcomes
  <2>5. ASSUME NEW j \in 1..Len(ss), k < j, j < at PROVE ~Defines(ss[j], r)
    BY <1>1, <2>1, <2>3, <2>5
  <2> QED BY <1>1, <2>1, <2>2, <2>4, <2>5 DEF Reaching
<1> QED BY <1>2, <1>3

StoreAddress(ss, k, f) == ResolveAddress(ss[k].address, k, f)

Missed(ss, k, f, want) == StoreAddress(ss, k, f) \notin {TooDeep, want}

\* The store that answers a load: those after it have another address.
Stops(ss, mv, at, f, want, k) ==
  /\ ~Missed(ss, k, f, want)
  /\ \A j \in EarlierStores(ss, mv, at) : k < j => Missed(ss, j, f, want)

LEMMA StoresArePositions ==
  ASSUME NEW ss \in Seq(Statement), NEW mv, NEW at, NEW k \in EarlierStores(ss, mv, at)
  PROVE  /\ k \in 1..Len(ss) /\ k < at /\ ss[k].kind = "store" /\ k \in Nat \ {0}
         /\ ss[k].address \in MemoryValue /\ ss[k].value \in Expression
         /\ ss[k].address.size = mv.size
<1>1. k \in 1..Len(ss) /\ k < at /\ ss[k].kind = "store" /\ ss[k].address.size = mv.size
  BY DEF EarlierStores, StorePositions
<1> QED BY <1>1, StatementParts

LoadCases(ss, mv, at, below, under, want, res, earlier) ==
  /\ res \in Outcome
  /\ want = TooDeep => res = TooDeep
  /\ want # TooDeep /\ (\A k \in earlier : Missed(ss, k, under, want)) =>
       res = Joined(want, <<UnaryNode("Load")>>)
  /\ \A k \in earlier : want # TooDeep /\ Stops(ss, mv, at, under, want, k) =>
       res = IF StoreAddress(ss, k, under) = want THEN below[ss[k].value][k] ELSE TooDeep
  /\ \/ \A k \in earlier : Missed(ss, k, under, want)
     \/ \E k \in earlier : Stops(ss, mv, at, under, want, k)

Loading(ss, mv, at, below, under) ==
  LoadCases(ss, mv, at, below, under, ResolveAddress(mv, at, below),
            ResolveLoad(ss, {}, mv, at, below, under), EarlierStores(ss, mv, at))

LEMMA LoadIs ==
  ASSUME NEW ss \in Seq(Statement), NEW mv \in MemoryValue, NEW at \in Nat,
         NEW below, Outcomes(below), NEW under, Outcomes(under)
  PROVE  Loading(ss, mv, at, below, under)
<1> SUFFICES ASSUME NEW want, want = ResolveAddress(mv, at, below),
                    NEW res, res = ResolveLoad(ss, {}, mv, at, below, under),
                    NEW earlier, earlier = EarlierStores(ss, mv, at)
             PROVE  LoadCases(ss, mv, at, below, under, want, res, earlier)
  BY DEF Loading
<1> DEFINE stops == {n \in earlier : ~Missed(ss, n, under, want)}
           last == Latest(stops)
           load == <<UnaryNode("Load")>>
<1>1. want \in Outcome /\ want # Dangling /\ TooDeep # Dangling
  BY AddressIs, AnswersDoNotFail
<1>2. earlier \subseteq 1..Len(ss) /\ Len(ss) \in Nat
  BY StoresArePositions
<1>3. ASSUME NEW n \in earlier
      PROVE  /\ StoreAddress(ss, n, under) \in Outcome
             /\ StoreAddress(ss, n, under) \in Failed \cup {want} <=> ~Missed(ss, n, under, want)
             /\ below[ss[n].value][n] \in Outcome
  <2>1. n \in Nat /\ ss[n].address \in MemoryValue /\ ss[n].value \in Expression
    BY <1>3, StoresArePositions
  <2>2. StoreAddress(ss, n, under) \in Outcome
    BY <2>1, AddressIs DEF StoreAddress
  <2>3. StoreAddress(ss, n, under) # Dangling
    BY <2>2, AnswersDoNotFail
  <2> QED BY <2>1, <2>2, <2>3 DEF Failed, Missed, Outcomes
<1>4. stops = {n \in earlier : ResolveAddress(ss[n].address, n, under) \in Failed \cup {want}}
  BY <1>3 DEF StoreAddress
<1>5. want \in Failed <=> want = TooDeep
  BY <1>1 DEF Failed
<1>6. res = CASE want \in Failed -> want
              [] want \notin Failed /\ stops = {} -> Joined(want, load)
              [] want \notin Failed /\ stops # {} ->
                   IF ResolveAddress(ss[last].address, last, under) # want
                   THEN ResolveAddress(ss[last].address, last, under)
                   ELSE IF last \in {} THEN Dangling ELSE below[ss[last].value][last]
  BY <1>4 DEF ResolveLoad
<1>7. stops # {} => last \in stops /\ \A m \in stops : m <= last
  <2>1. stops \in SUBSET (1..Len(ss))
    BY <1>2
  <2> HIDE DEF stops
  <2> QED BY <1>2, <2>1, LatestIs
<1>8. load \in Outcome /\ load # TooDeep
  BY NodesAnswer, AnswersDoNotFail DEF Outcome
<1> HIDE DEF last, load
<1>9. want = TooDeep => res = TooDeep
  BY <1>5, <1>6
<1>10. want # TooDeep /\ stops = {} => res = Joined(want, load)
  BY <1>5, <1>6
<1>11. want # TooDeep /\ stops # {} =>
         res = IF StoreAddress(ss, last, under) # want
               THEN StoreAddress(ss, last, under) ELSE below[ss[last].value][last]
  BY <1>5, <1>6 DEF StoreAddress
<1>12. stops = {} <=> \A k \in earlier : Missed(ss, k, under, want)
  OBVIOUS
<1>13. ASSUME stops # {} PROVE Stops(ss, mv, at, under, want, last) /\ last \in earlier
  <2>1. last \in earlier /\ ~Missed(ss, last, under, want)
    BY <1>7, <1>13
  <2>2. ASSUME NEW j \in earlier, last < j PROVE Missed(ss, j, under, want)
    <3>1. j \in stops => j <= last
      BY <1>7, <1>13
    <3>2. last \in Int /\ j \in Int
      BY <1>2, <2>1, <2>2
    <3>3. j \notin stops
      BY <2>2, <3>1, <3>2
    <3> QED BY <2>2, <3>3
  <2> QED BY <2>1, <2>2 DEF Stops
<1>14. ASSUME NEW k \in earlier, Stops(ss, mv, at, under, want, k) PROVE stops # {} /\ k = last
  <2>1. k \in stops /\ stops # {}
    BY <1>14 DEF Stops
  <2>2. k <= last /\ last \in earlier /\ ~Missed(ss, last, under, want)
    BY <1>7, <2>1
  <2>3. ~(k < last)
    BY <1>14, <2>2 DEF Stops
  <2>4. k \in Int /\ last \in Int
    BY <1>2, <2>2
  <2> QED BY <2>1, <2>2, <2>3, <2>4
<1>15. ASSUME NEW k \in earlier, want # TooDeep, Stops(ss, mv, at, under, want, k)
       PROVE  res = IF StoreAddress(ss, k, under) = want THEN below[ss[k].value][k] ELSE TooDeep
  <2>1. k = last /\ stops # {} /\ StoreAddress(ss, k, under) \in {TooDeep, want}
    BY <1>14, <1>15 DEF Stops, Missed
  <2> HIDE DEF stops
  <2> QED BY <1>11, <1>15, <2>1
<1>16. res \in Outcome
  <2>1. CASE want = TooDeep
    BY <1>9, <2>1 DEF Outcome
  <2>2. CASE want # TooDeep /\ stops = {}
    BY <1>1, <1>8, <1>10, <2>2, JoinedIs
  <2>3. CASE want # TooDeep /\ stops # {}
    BY <1>3, <1>7, <1>11, <2>3
  <2> QED BY <2>1, <2>2, <2>3
<1> HIDE DEF stops
<1> QED BY <1>9, <1>10, <1>12, <1>13, <1>15, <1>16 DEF load, LoadCases


-----------------------------------------------------------------------------
(***************************************************************************)
(* One level of resolve(), and all of them.                                *)
(***************************************************************************)
LEMMA ExpressionKinds ==
  ASSUME NEW e \in Expression
  PROVE  /\ e.kind \in {"reg", "imm", "mem", "un", "bin", "cond"}
         /\ e.kind = "reg" => e \in RegValue /\ e.reg \in Reg
         /\ e.kind = "imm" => e \in ImmValue
         /\ e.kind = "mem" => e \in MemoryValue
         /\ e.kind = "un" => e \in UnaryExpression /\ e.op \in UnaryOps /\ e.operand \in Value
         /\ e.kind = "bin" => /\ e \in BinaryExpression /\ e.op \in BinaryOps
                              /\ e.left \in Value /\ e.right \in Value
         /\ e.kind = "cond" => /\ e \in ConditionalExpression
                               /\ e.condition \in FlatExpression
                               /\ e.true_expr \in FlatExpression
                               /\ e.false_expr \in FlatExpression
         /\ e.kind \in {"reg", "imm", "mem"} <=> e \in Value
         /\ e.kind # "cond" <=> e \in FlatExpression
BY DEF Expression, FlatExpression, Value, RegValue, ImmValue, MemoryValue,
       UnaryExpression, BinaryExpression, ConditionalExpression

LEMMA StepIs ==
  ASSUME NEW ss, NEW e \in Expression, NEW at, NEW below, NEW under
  PROVE  LET res == ResolveExpression(ss, {}, e, at, below, under) IN
         /\ e.kind = "reg" => res = ResolveUse(ss, e.reg, at, below)
         /\ e.kind = "imm" => res = <<e>>
         /\ e.kind = "mem" => res = ResolveLoad(ss, {}, e, at, below, under)
         /\ e.kind = "un"  => res = Joined(below[e.operand][at], <<UnaryNode(e.op)>>)
         /\ e.kind = "bin" => res = Joined(Joined(below[e.left][at], below[e.right][at]),
                                           <<BinaryNode(e.op)>>)
         /\ e.kind = "cond" => res = Joined(Joined(Joined(below[e.condition][at],
                                                          below[e.true_expr][at]),
                                                   below[e.false_expr][at]),
                                            <<ConditionalNode>>)
BY DEF ResolveExpression

\* What an operator makes of the answers for its operands.
LEMMA OperatorNodes ==
  /\ \A op \in UnaryOps \cup {"Load"} : <<UnaryNode(op)>> \in Answers
  /\ \A op \in BinaryOps \cup {"Mul"} : <<BinaryNode(op)>> \in Answers
  /\ <<ConditionalNode>> \in Answers
  /\ Answers \subseteq Outcome
  /\ \A x \in Answers : x # TooDeep
BY NodesAnswer, AnswersDoNotFail DEF Outcome

LEMMA StepOutcome ==
  ASSUME NEW ss \in Seq(Statement), NEW e \in Expression, NEW at \in Nat,
         NEW below, Outcomes(below), NEW under, Outcomes(under)
  PROVE  ResolveExpression(ss, {}, e, at, below, under) \in Outcome
<1> DEFINE res == ResolveExpression(ss, {}, e, at, below, under)
<1>1. \A x \in Expression : below[x][at] \in Outcome
  BY DEF Outcomes
<1>k. /\ e.kind \in {"reg", "imm", "mem", "un", "bin", "cond"}
      /\ e.kind = "reg" => e.reg \in Reg /\ res = ResolveUse(ss, e.reg, at, below)
      /\ e.kind = "imm" => e \in ImmValue /\ res = <<e>>
      /\ e.kind = "mem" => e \in MemoryValue /\ res = ResolveLoad(ss, {}, e, at, below, under)
      /\ e.kind = "un" => /\ e.op \in UnaryOps /\ e.operand \in Expression
                          /\ res = Joined(below[e.operand][at], <<UnaryNode(e.op)>>)
      /\ e.kind = "bin" => /\ e.op \in BinaryOps /\ e.left \in Expression /\ e.right \in Expression
                           /\ res = Joined(Joined(below[e.left][at], below[e.right][at]),
                                           <<BinaryNode(e.op)>>)
      /\ e.kind = "cond" => /\ e.condition \in Expression /\ e.true_expr \in Expression
                            /\ e.false_expr \in Expression
                            /\ res = Joined(Joined(Joined(below[e.condition][at],
                                                          below[e.true_expr][at]),
                                                   below[e.false_expr][at]),
                                            <<ConditionalNode>>)
  BY ExpressionKinds, ValuesAreExpressions, StepIs
<1> HIDE DEF res
<1>2. CASE e.kind = "reg"
  <2>1. e.reg \in Reg /\ res = ResolveUse(ss, e.reg, at, below)
    BY <1>2, <1>k DEF res
  <2>2. \A r \in Reg : ResolveUse(ss, r, at, below) \in Outcome
    BY UseIs
  <2> QED BY <2>1, <2>2 DEF res
<1>3. CASE e.kind = "imm"
  <2>1. res = <<e>> /\ e \in AnswerNode
    BY <1>3, <1>k, NodesAnswer
  <2> QED BY <2>1, AnswersDoNotFail DEF Outcome, res
<1>4. CASE e.kind = "mem"
  <2>1. e \in MemoryValue
    BY <1>4, <1>k
  <2>2. Loading(ss, e, at, below, under)
    BY <2>1, LoadIs
  <2>3. res = ResolveLoad(ss, {}, e, at, below, under)
    BY <1>4, <1>k
  <2>4. ResolveLoad(ss, {}, e, at, below, under) \in Outcome
    <3> HIDE DEF res
    <3> QED BY <2>2 DEF Loading, LoadCases
  <2> QED BY <2>3, <2>4 DEF res
<1>5. CASE e.kind = "un"
  <2>1. /\ res = Joined(below[e.operand][at], <<UnaryNode(e.op)>>)
        /\ below[e.operand][at] \in Outcome /\ <<UnaryNode(e.op)>> \in Outcome
    BY <1>1, <1>5, <1>k, OperatorNodes
  <2> QED BY <2>1, JoinedIs DEF res
<1>6. CASE e.kind = "bin"
  <2>1. /\ res = Joined(Joined(below[e.left][at], below[e.right][at]), <<BinaryNode(e.op)>>)
        /\ below[e.left][at] \in Outcome /\ below[e.right][at] \in Outcome
        /\ <<BinaryNode(e.op)>> \in Outcome
    BY <1>1, <1>6, <1>k, OperatorNodes
  <2>2. Joined(below[e.left][at], below[e.right][at]) \in Outcome
    BY <2>1, JoinedIs
  <2> QED BY <2>1, <2>2, JoinedIs DEF res
<1>7. CASE e.kind = "cond"
  <2> DEFINE c == below[e.condition][at]
             t == below[e.true_expr][at]
             f == below[e.false_expr][at]
  <2>1. /\ res = Joined(Joined(Joined(c, t), f), <<ConditionalNode>>)
        /\ c \in Outcome /\ t \in Outcome /\ f \in Outcome /\ <<ConditionalNode>> \in Outcome
    BY <1>1, <1>7, <1>k, OperatorNodes
  <2> HIDE DEF c, t, f
  <2>2. Joined(c, t) \in Outcome
    BY <2>1, JoinedIs
  <2>3. Joined(Joined(c, t), f) \in Outcome
    BY <2>1, <2>2, JoinedIs
  <2> QED BY <2>1, <2>3, JoinedIs DEF res
<1> QED BY <1>2, <1>3, <1>4, <1>5, <1>6, <1>7, <1>k DEF res

\* Induction over the levels, of which each calls the two below it.
LEMMA LevelInduction ==
  ASSUME NEW G, 0 \in G,
         \A n \in Levels : n # 0 /\ n - 1 \in G /\ Down(n - 1) \in G => n \in G
  PROVE  Levels \subseteq G
<1> DEFINE T == {k \in Nat : \A n \in 0..k : n \in Levels => n \in G}
<1>1. 0 \in T
  OBVIOUS
<1>2. ASSUME NEW k \in Nat, k \in T PROVE k + 1 \in T
  <2>1. SUFFICES ASSUME NEW n \in 0..(k + 1), n \in Levels PROVE n \in G
    OBVIOUS
  <2>2. CASE n \in 0..k
    BY <1>2, <2>1, <2>2
  <2>3. CASE n = k + 1
    <3>1. n - 1 \in 0..k /\ Down(n - 1) \in 0..k /\ n # 0
      BY <2>3 DEF Down
    <3>2. n - 1 \in Levels /\ Down(n - 1) \in Levels
      BY <2>1, <3>1, RegisterAstAssumption DEF Levels, Down
    <3> QED BY <1>2, <2>1, <3>1, <3>2
  <2> QED BY <2>1, <2>2, <2>3
<1>3. Nat \subseteq T
  <2> HIDE DEF T
  <2> QED BY <1>1, <1>2, SetInduction
<1>4. \A n \in Levels : n \in T /\ n \in 0..n
  BY <1>3, RegisterAstAssumption DEF Levels
<1> QED BY <1>4

LEMMA ResolvedOutcome ==
  ASSUME NEW ss \in Seq(Statement)
  PROVE  \A n \in Levels : Outcomes(Resolver(ss, {})[n])
<1> DEFINE G == {n \in Levels : Outcomes(Resolver(ss, {})[n])}
<1>0. 0 \in Levels
  BY RegisterAstAssumption DEF Levels
<1>1. 0 \in G
  <2>1. \A e \in Expression : \A at \in Nat : Resolver(ss, {})[0][e][at] = TooDeep
    BY <1>0, OneLevel DEF Resolved
  <2> QED BY <1>0, <2>1 DEF Outcomes, Outcome
<1>2. ASSUME NEW n \in Levels, n # 0, n - 1 \in G, Down(n - 1) \in G
      PROVE  n \in G
  <2> DEFINE below == Resolver(ss, {})[n - 1]
             under == Resolver(ss, {})[Down(n - 1)]
  <2>1. Outcomes(below) /\ Outcomes(under)
    BY <1>2
  <2> HIDE DEF below, under
  <2>2. ASSUME NEW e \in Expression, NEW at \in Nat
        PROVE  Resolver(ss, {})[n][e][at] \in Outcome
    <3>1. Resolver(ss, {})[n][e][at] = ResolveExpression(ss, {}, e, at, below, under)
      BY <1>2, OneLevel DEF Resolved, below, under
    <3> QED BY <2>1, <3>1, StepOutcome
  <2> QED BY <2>2 DEF Outcomes
<1>3. Levels \subseteq G
  <2> HIDE DEF G
  <2> QED BY <1>1, <1>2, LevelInduction
<1> QED BY <1>3


-----------------------------------------------------------------------------
(***************************************************************************)
(* The depth.  A use of statement at needs one level and what the value of *)
(* the statement before needs, and a value of that statement two more, for *)
(* an operator over a load: three for each statement.                      *)
(***************************************************************************)
IsLoad(v) == v.kind = "mem"

Extra(e) ==
  CASE e.kind = "un"   -> IF IsLoad(e.operand) THEN 2 ELSE 1
    [] e.kind = "bin"  -> IF IsLoad(e.left) \/ IsLoad(e.right) THEN 2 ELSE 1
    [] e.kind = "cond" -> 2
    [] OTHER           -> IF IsLoad(e) THEN 1 ELSE 0

\* The only expression that nests is a jump target.
Nestable(e) == e.kind = "cond" => L!IsTarget(e)

Stream(ss) == ss \in Seq(Statement) /\ \A k \in 1..Len(ss) : Nestable(ss[k].value)

LEMMA ExtraIs ==
  ASSUME NEW e \in Expression
  PROVE  /\ Extra(e) \in 0..2
         /\ e.kind \in {"reg", "imm"} => Extra(e) = 0
         /\ e.kind = "mem" => Extra(e) = 1
         /\ e.kind = "un" => Extra(e) = 1 + Extra(e.operand) /\ Nestable(e.operand)
         /\ e.kind = "bin" => /\ Extra(e) >= 1 + Extra(e.left) /\ Nestable(e.left)
                              /\ Extra(e) >= 1 + Extra(e.right) /\ Nestable(e.right)
         /\ e.kind = "cond" => Extra(e) = 2
<1>1. \A v \in Value : v.kind \in {"reg", "imm", "mem"}
  BY ExpressionKinds, ValuesAreExpressions
<1>2. \A v \in Value : Extra(v) = (IF IsLoad(v) THEN 1 ELSE 0) /\ Nestable(v)
  BY <1>1 DEF Extra, Nestable
<1> QED BY <1>1, <1>2, ExpressionKinds DEF Extra, IsLoad

LEMMA TargetIs ==
  ASSUME NEW e \in Expression, e.kind = "cond", Nestable(e)
  PROVE  /\ \A x \in {e.condition, e.true_expr, e.false_expr} :
              Extra(x) <= 1 /\ Nestable(x) /\ x \in Expression
<1>1. L!IsTarget(e) /\ e.condition \in Expression /\ e.true_expr \in Expression
      /\ e.false_expr \in Expression
  BY ExpressionKinds, ValuesAreExpressions DEF Nestable
<1>2. /\ e.condition.kind = "bin" /\ e.condition.left.kind = "reg" /\ e.condition.right.kind = "imm"
      /\ e.true_expr.kind = "imm"
      /\ e.false_expr.kind = "bin" /\ e.false_expr.left.kind = "reg"
      /\ e.false_expr.right.kind = "imm"
  BY <1>1 DEF L!IsTarget, L!OverImmediate
<1> QED BY <1>1, <1>2 DEF Extra, IsLoad, Nestable

\* With n levels left every answer is found that needs no more.
Reaches(ss, n) ==
  \A at \in Nat \ {0} : \A e \in Expression :
    Nestable(e) /\ 3 * at - 2 + Extra(e) <= n => Resolved(ss, n, e, at) # TooDeep

LEMMA UseReaches ==
  ASSUME NEW ss, Stream(ss), NEW n \in Levels, n # 0, Reaches(ss, n - 1),
         NEW at \in Nat \ {0}, 3 * at - 2 <= n, NEW r \in Reg
  PROVE  ResolveUse(ss, r, at, Resolver(ss, {})[n - 1]) # TooDeep
<1> DEFINE f == Resolver(ss, {})[n - 1]
<1>1. ss \in Seq(Statement) /\ Outcomes(f) /\ n \in Nat /\ n - 1 \in Levels
  BY ResolvedOutcome, RegisterAstAssumption DEF Stream, Levels
<1>2. \A x \in Answers : x # TooDeep
  BY OperatorNodes
<1>3. ASSUME NEW k \in 1..Len(ss), k < at
      PROVE  f[ss[k].value][k] # TooDeep
  <2>1. k \in Nat \ {0} /\ ss[k].value \in Expression /\ Nestable(ss[k].value)
    BY <1>1, <1>3, StatementParts DEF Stream
  <2>2. Extra(ss[k].value) \in 0..2
    BY <2>1, ExtraIs
  <2>3. 3 * k - 2 + Extra(ss[k].value) <= n - 1
    BY <1>1, <1>3, <2>1, <2>2
  <2> QED BY <2>1, <2>3 DEF Reaches, Resolved
<1> HIDE DEF f
<1>4. \/ ResolveUse(ss, r, at, f) \in Answers
      \/ \E k \in 1..Len(ss) : k < at /\ ResolveUse(ss, r, at, f) = f[ss[k].value][k]
  <2>1. at \in Nat
    OBVIOUS
  <2>2. ss \in Seq(Statement)
    BY <1>1
  <2>3. Outcomes(f)
    BY <1>1
  <2>4. Reaching(ss, r, at, f)
    BY <2>1, <2>2, <2>3, UseIs
  <2> QED BY <2>4 DEF Reaching
<1> QED BY <1>2, <1>3, <1>4 DEF f

LEMMA AddressReaches ==
  ASSUME NEW ss, Stream(ss), NEW n \in Levels, Reaches(ss, n),
         NEW at \in Nat \ {0}, 3 * at - 2 <= n, NEW mv \in MemoryValue
  PROVE  ResolveAddress(mv, at, Resolver(ss, {})[n]) # TooDeep
<1>1. Outcomes(Resolver(ss, {})[n])
  BY ResolvedOutcome DEF Stream
<1>2. ASSUME NEW v \in Terms(mv) PROVE Resolver(ss, {})[n][v][at] # TooDeep
  <2>1. v \in RegValue /\ v \in Expression /\ v.kind = "reg"
    BY TermsAreRegisters, ValuesAreExpressions DEF RegValue
  <2>2. Extra(v) = 0 /\ Nestable(v)
    BY <2>1, ExtraIs DEF Nestable
  <2>3. 3 * at - 2 + Extra(v) <= n
    BY <2>2
  <2> QED BY <2>1, <2>2, <2>3 DEF Reaches, Resolved
<1> QED BY <1>1, <1>2, AddressIs

LEMMA LoadReaches ==
  ASSUME NEW ss, Stream(ss), NEW n \in Levels, n # 0, Reaches(ss, n - 1), Reaches(ss, Down(n - 1)),
         NEW at \in Nat \ {0}, 3 * at - 1 <= n, NEW mv \in MemoryValue
  PROVE  ResolveLoad(ss, {}, mv, at, Resolver(ss, {})[n - 1], Resolver(ss, {})[Down(n - 1)])
           # TooDeep
<1> DEFINE below == Resolver(ss, {})[n - 1]
           under == Resolver(ss, {})[Down(n - 1)]
           want == ResolveAddress(mv, at, below)
           res == ResolveLoad(ss, {}, mv, at, below, under)
           earlier == EarlierStores(ss, mv, at)
<1>1. /\ ss \in Seq(Statement) /\ n \in Nat /\ n - 1 \in Levels /\ Down(n - 1) \in Levels
      /\ Down(n - 1) = n - 2
  BY RegisterAstAssumption DEF Stream, Levels, Down
<1>2. Outcomes(below) /\ Outcomes(under)
  BY <1>1, ResolvedOutcome
<1>3. want # TooDeep /\ want \in Outcome
  <2>1. 3 * at - 2 <= n - 1
    BY <1>1
  <2> QED BY <1>1, <1>2, <2>1, AddressReaches, AddressIs
<1>4. ASSUME NEW k \in earlier
      PROVE  StoreAddress(ss, k, under) # TooDeep /\ below[ss[k].value][k] # TooDeep
  <2>1. /\ k \in 1..Len(ss) /\ k < at /\ k \in Nat \ {0} /\ ss[k].address \in MemoryValue
        /\ ss[k].value \in Expression /\ Nestable(ss[k].value)
    BY <1>1, <1>4, StoresArePositions DEF Stream
  <2>2. 3 * k - 2 <= n - 2
    BY <1>1, <2>1
  <2>3. StoreAddress(ss, k, under) # TooDeep
    BY <1>1, <2>1, <2>2, AddressReaches DEF StoreAddress
  <2>4. Extra(ss[k].value) \in 0..2
    BY <2>1, ExtraIs
  <2>5. 3 * k - 2 + Extra(ss[k].value) <= n - 1
    BY <1>1, <2>1, <2>4
  <2> QED BY <2>1, <2>3, <2>5 DEF Reaches, Resolved
<1> HIDE DEF below, under, want, res, earlier
<1>5. /\ (\A k \in earlier : Missed(ss, k, under, want)) => res = Joined(want, <<UnaryNode("Load")>>)
      /\ \A k \in earlier : Stops(ss, mv, at, under, want, k) =>
           res = IF StoreAddress(ss, k, under) = want THEN below[ss[k].value][k] ELSE TooDeep
      /\ \/ \A k \in earlier : Missed(ss, k, under, want)
         \/ \E k \in earlier : Stops(ss, mv, at, under, want, k)
  <2>1. ss \in Seq(Statement)
    BY <1>1
  <2>2. at \in Nat
    BY <1>1
  <2>3. Outcomes(below)
    BY <1>2
  <2>4. Outcomes(under)
    BY <1>2
  <2>5. Loading(ss, mv, at, below, under)
    BY <2>1, <2>2, <2>3, <2>4, LoadIs
  <2>6. LoadCases(ss, mv, at, below, under, want, res, earlier)
    BY <2>5 DEF Loading, want, res, earlier, below, under
  <2> QED BY <1>2, <1>3, <2>6 DEF LoadCases
<1>6. CASE \A k \in earlier : Missed(ss, k, under, want)
  <2>1. res = Joined(want, <<UnaryNode("Load")>>)
    BY <1>5, <1>6
  <2>2. <<UnaryNode("Load")>> \in Outcome /\ <<UnaryNode("Load")>> # TooDeep
    BY OperatorNodes
  <2> QED BY <1>3, <2>1, <2>2, JoinedIs DEF res, below, under
<1>7. CASE \E k \in earlier : Stops(ss, mv, at, under, want, k)
  <2>1. PICK k \in earlier : Stops(ss, mv, at, under, want, k)
    BY <1>7
  <2>2. StoreAddress(ss, k, under) = want
    BY <1>4, <2>1 DEF Stops, Missed
  <2> QED BY <1>4, <1>5, <2>1, <2>2 DEF res, below, under
<1> QED BY <1>5, <1>6, <1>7


\* What one level makes of an expression, in terms of those below it.
Made(ss, e, at, res, below, under) ==
  /\ e.kind \in {"reg", "imm", "mem", "un", "bin", "cond"}
  /\ e.kind = "reg" => e.reg \in Reg /\ res = ResolveUse(ss, e.reg, at, below)
  /\ e.kind = "imm" => e \in ImmValue /\ res = <<e>> /\ res \in Answers
  /\ e.kind = "mem" => e \in MemoryValue /\ res = ResolveLoad(ss, {}, e, at, below, under)
  /\ e.kind = "un" => /\ e.op \in UnaryOps /\ e.operand \in Expression
                      /\ res = Joined(below[e.operand][at], <<UnaryNode(e.op)>>)
                      /\ <<UnaryNode(e.op)>> \in Answers
  /\ e.kind = "bin" => /\ e.op \in BinaryOps /\ e.left \in Expression /\ e.right \in Expression
                       /\ res = Joined(Joined(below[e.left][at], below[e.right][at]),
                                       <<BinaryNode(e.op)>>)
                       /\ <<BinaryNode(e.op)>> \in Answers
  /\ e.kind = "cond" => /\ e.condition \in Expression /\ e.true_expr \in Expression
                        /\ e.false_expr \in Expression
                        /\ res = Joined(Joined(Joined(below[e.condition][at],
                                                      below[e.true_expr][at]),
                                               below[e.false_expr][at]),
                                        <<ConditionalNode>>)
                        /\ <<ConditionalNode>> \in Answers

LEMMA LevelIs ==
  ASSUME NEW ss, NEW n \in Levels, n # 0, NEW e \in Expression, NEW at \in Nat
  PROVE  Made(ss, e, at, Resolved(ss, n, e, at), Resolver(ss, {})[n - 1],
                         Resolver(ss, {})[Down(n - 1)])
<1> DEFINE below == Resolver(ss, {})[n - 1]
           under == Resolver(ss, {})[Down(n - 1)]
           res == Resolved(ss, n, e, at)
<1>1. res = ResolveExpression(ss, {}, e, at, below, under)
  BY OneLevel
<1> HIDE DEF below, under, res
<1>2. /\ e.kind = "reg" => res = ResolveUse(ss, e.reg, at, below)
      /\ e.kind = "imm" => res = <<e>>
      /\ e.kind = "mem" => res = ResolveLoad(ss, {}, e, at, below, under)
      /\ e.kind = "un"  => res = Joined(below[e.operand][at], <<UnaryNode(e.op)>>)
      /\ e.kind = "bin" => res = Joined(Joined(below[e.left][at], below[e.right][at]),
                                        <<BinaryNode(e.op)>>)
      /\ e.kind = "cond" => res = Joined(Joined(Joined(below[e.condition][at],
                                                       below[e.true_expr][at]),
                                                below[e.false_expr][at]),
                                         <<ConditionalNode>>)
  BY <1>1, StepIs
<1>3. e \in ImmValue => <<e>> \in Answers
  BY NodesAnswer, AnswersDoNotFail
<1>4. Made(ss, e, at, res, below, under)
  BY <1>2, <1>3, ExpressionKinds, ValuesAreExpressions, OperatorNodes DEF Made
<1> QED BY <1>4 DEF below, under, res

\* Three answers, or two, joined by an operator.
LEMMA JoinedThree ==
  ASSUME NEW a \in Outcome, NEW b \in Outcome, NEW c \in Answers
  PROVE  /\ Joined(Joined(a, b), c) \in Outcome
         /\ Joined(Joined(a, b), c) = TooDeep <=> TooDeep \in {a, b}
         /\ Joined(Joined(a, b), c) # TooDeep =>
              Joined(Joined(a, b), c) = (a \o b) \o c /\ a \in Answers /\ b \in Answers
<1>1. c \in Outcome /\ c # TooDeep
  BY OperatorNodes DEF Outcome
<1>2. /\ Joined(a, b) \in Outcome /\ (Joined(a, b) = TooDeep <=> TooDeep \in {a, b})
      /\ Joined(a, b) # TooDeep => Joined(a, b) = a \o b /\ a \in Answers /\ b \in Answers
  BY JoinedIs
<1> DEFINE ab == Joined(a, b)
<1> HIDE DEF ab
<1>3. ab \in Outcome
  BY <1>2 DEF ab
<1>4. /\ Joined(ab, c) \in Outcome /\ (Joined(ab, c) = TooDeep <=> TooDeep \in {ab, c})
      /\ Joined(ab, c) # TooDeep => Joined(ab, c) = ab \o c
  BY <1>1, <1>3, JoinedIs
<1> QED BY <1>1, <1>2, <1>4 DEF ab

LEMMA JoinedFour ==
  ASSUME NEW a \in Outcome, NEW b \in Outcome, NEW c \in Outcome, NEW d \in Answers
  PROVE  LET r == Joined(Joined(Joined(a, b), c), d)
         IN /\ r \in Outcome
            /\ r = TooDeep <=> TooDeep \in {a, b, c}
            /\ r # TooDeep => /\ r = ((a \o b) \o c) \o d
                              /\ a \in Answers /\ b \in Answers /\ c \in Answers
<1> DEFINE ab == Joined(a, b)
<1>1. /\ ab \in Outcome /\ (ab = TooDeep <=> TooDeep \in {a, b})
      /\ ab # TooDeep => ab = a \o b /\ a \in Answers /\ b \in Answers
  BY JoinedIs
<1> HIDE DEF ab
<1> DEFINE r == Joined(Joined(ab, c), d)
<1>2. /\ r \in Outcome /\ (r = TooDeep <=> TooDeep \in {ab, c})
      /\ r # TooDeep => r = (ab \o c) \o d /\ c \in Answers
  <2>1. ab \in Outcome
    BY <1>1
  <2>2. /\ Joined(Joined(ab, c), d) \in Outcome
        /\ Joined(Joined(ab, c), d) = TooDeep <=> TooDeep \in {ab, c}
        /\ Joined(Joined(ab, c), d) # TooDeep =>
             Joined(Joined(ab, c), d) = (ab \o c) \o d /\ ab \in Answers /\ c \in Answers
    BY <2>1, JoinedThree
  <2> QED BY <2>2
<1> HIDE DEF r
<1>3. r = Joined(Joined(Joined(a, b), c), d)
  BY DEF r, ab
<1>4. r = TooDeep <=> TooDeep \in {a, b, c}
  BY <1>1, <1>2
<1>5. r # TooDeep => r = ((a \o b) \o c) \o d /\ a \in Answers /\ b \in Answers /\ c \in Answers
  BY <1>1, <1>2
<1> QED BY <1>2, <1>3, <1>4, <1>5

LEMMA LevelReaches ==
  ASSUME NEW ss, Stream(ss), NEW n \in Levels, n # 0, Reaches(ss, n - 1), Reaches(ss, Down(n - 1))
  PROVE  Reaches(ss, n)
<1> SUFFICES ASSUME NEW at \in Nat \ {0}, NEW e \in Expression, Nestable(e),
                    3 * at - 2 + Extra(e) <= n
             PROVE  Resolved(ss, n, e, at) # TooDeep
  BY DEF Reaches
<1> DEFINE below == Resolver(ss, {})[n - 1]
           under == Resolver(ss, {})[Down(n - 1)]
           res == Resolved(ss, n, e, at)
<1>1. /\ ss \in Seq(Statement) /\ n \in Nat /\ n - 1 \in Levels /\ Down(n - 1) \in Levels
      /\ at \in Nat /\ Extra(e) \in 0..2
  BY RegisterAstAssumption, ExtraIs DEF Stream, Levels, Down
<1>2. ASSUME NEW x \in Expression, Nestable(x), Extra(x) + 1 <= Extra(e)
      PROVE  below[x][at] # TooDeep /\ below[x][at] \in Outcome
  <2>1. Extra(x) \in 0..2
    BY ExtraIs
  <2>2. 3 * at - 2 + Extra(x) <= n - 1
    BY <1>1, <1>2, <2>1
  <2>3. Outcomes(below)
    BY <1>1, ResolvedOutcome
  <2> QED BY <1>1, <1>2, <2>2, <2>3 DEF Reaches, Resolved, Outcomes
<1>m. Made(ss, e, at, res, below, under)
  BY <1>1, LevelIs
<1>3. CASE e.kind = "reg"
  <2>1. e.reg \in Reg /\ res = ResolveUse(ss, e.reg, at, below)
    BY <1>3, <1>m DEF Made
  <2>2. 3 * at - 2 <= n
    BY <1>1
  <2> QED BY <2>1, <2>2, UseReaches
<1>4. CASE e.kind = "imm"
  <2>1. res \in Answers
    BY <1>4, <1>m DEF Made
  <2> QED BY <2>1, OperatorNodes
<1>5. CASE e.kind = "mem"
  <2>1. e \in MemoryValue /\ res = ResolveLoad(ss, {}, e, at, below, under)
    BY <1>5, <1>m DEF Made
  <2>2. 3 * at - 1 <= n
    BY <1>1, <1>5, ExtraIs
  <2> QED BY <2>1, <2>2, LoadReaches
<1>6. CASE e.kind = "un"
  <2>1. /\ e.operand \in Expression /\ res = Joined(below[e.operand][at], <<UnaryNode(e.op)>>)
        /\ <<UnaryNode(e.op)>> \in Answers
    BY <1>6, <1>m DEF Made
  <2>2. Extra(e) = 1 + Extra(e.operand) /\ Nestable(e.operand) /\ Extra(e.operand) \in 0..2
    BY <1>6, <2>1, ExtraIs
  <2>3. below[e.operand][at] # TooDeep /\ below[e.operand][at] \in Outcome
    BY <1>2, <2>1, <2>2
  <2>4. <<UnaryNode(e.op)>> \in Outcome /\ <<UnaryNode(e.op)>> # TooDeep
    BY <2>1, OperatorNodes
  <2> QED BY <2>1, <2>3, <2>4, JoinedIs
<1>7. CASE e.kind = "bin"
  <2>1. /\ e.left \in Expression /\ e.right \in Expression /\ <<BinaryNode(e.op)>> \in Answers
        /\ res = Joined(Joined(below[e.left][at], below[e.right][at]), <<BinaryNode(e.op)>>)
    BY <1>7, <1>m DEF Made
  <2>2. /\ Extra(e) >= 1 + Extra(e.left) /\ Nestable(e.left) /\ Extra(e.left) \in 0..2
        /\ Extra(e) >= 1 + Extra(e.right) /\ Nestable(e.right) /\ Extra(e.right) \in 0..2
    BY <1>7, <2>1, ExtraIs
  <2>3. Extra(e.left) + 1 <= Extra(e) /\ Extra(e.right) + 1 <= Extra(e)
    BY <1>1, <2>2
  <2> DEFINE l == below[e.left][at]
             r == below[e.right][at]
             c == <<BinaryNode(e.op)>>
  <2>4. l # TooDeep /\ l \in Outcome /\ r # TooDeep /\ r \in Outcome
    BY <1>2, <2>1, <2>2, <2>3
  <2>5. res = Joined(Joined(l, r), c) /\ c \in Answers
    BY <2>1
  <2> HIDE DEF l, r, c, res
  <2> QED BY <2>4, <2>5, JoinedThree DEF res
<1>8. CASE e.kind = "cond"
  <2> DEFINE c == below[e.condition][at]
             t == below[e.true_expr][at]
             f == below[e.false_expr][at]
  <2>1. res = Joined(Joined(Joined(c, t), f), <<ConditionalNode>>) /\ <<ConditionalNode>> \in Answers
    BY <1>8, <1>m DEF Made
  <2>2. ASSUME NEW x \in {e.condition, e.true_expr, e.false_expr}
        PROVE  below[x][at] # TooDeep /\ below[x][at] \in Outcome
    <3>1. Extra(x) <= 1 /\ Nestable(x) /\ x \in Expression
      BY <1>8, TargetIs
    <3>2. Extra(e) = 2 /\ Extra(x) \in 0..2
      BY <1>8, <3>1, ExtraIs
    <3>3. Extra(x) + 1 <= Extra(e)
      BY <3>1, <3>2
    <3> QED BY <1>2, <3>1, <3>3
  <2>3. c # TooDeep /\ c \in Outcome /\ t # TooDeep /\ t \in Outcome /\ f # TooDeep /\ f \in Outcome
    BY <2>2
  <2> HIDE DEF c, t, f, res
  <2> QED BY <2>1, <2>3, JoinedFour DEF res
<1> QED BY <1>3, <1>4, <1>5, <1>6, <1>7, <1>8, ExpressionKinds

LEMMA EnoughLevels ==
  ASSUME NEW ss, Stream(ss)
  PROVE  \A n \in Levels : Reaches(ss, n)
<1> DEFINE G == {n \in Levels : Reaches(ss, n)}
<1>1. 0 \in G
  <2>1. ASSUME NEW at \in Nat \ {0}, NEW e \in Expression PROVE ~(3 * at - 2 + Extra(e) <= 0)
    <3>1. Extra(e) \in 0..2
      BY ExtraIs
    <3> QED BY <3>1
  <2> QED BY <2>1, RegisterAstAssumption DEF Reaches, Levels
<1>2. ASSUME NEW n \in Levels, n # 0, n - 1 \in G, Down(n - 1) \in G PROVE n \in G
  BY <1>2, LevelReaches
<1>3. Levels \subseteq G
  <2> HIDE DEF G
  <2> QED BY <1>1, <1>2, LevelInduction
<1> QED BY <1>3

-----------------------------------------------------------------------------
(***************************************************************************)
(* The stream of a session.                                                *)
(***************************************************************************)

\* What the simplifier makes of an expression.
LEMMA RewriteShape ==
  ASSUME NEW e
  PROVE  LET x == S!SimplifyExpr(e)
         IN \/ x = e
            \/ e.kind = "bin" /\ x = ImmV(0)
            \/ e.kind = "bin" /\ x = Unary("LogicalNot", e.left)
            \/ e.kind = "bin" /\ e.right.kind = "imm" /\ x = Binary("Sub", e.left, ImmV(-e.right.value))
<1> DEFINE d == S!SubtractsInstead(e)
           masked == /\ e.op = "BitXor" /\ e.left.kind = "reg" /\ e.right.kind = "imm"
                     /\ S!IsAllOnes(e.right.value, e.left.width)
           cancels == e.op = "BitXor" /\ S!SameValue(e.left, e.right)
           vanishes == d.op = "Sub" /\ S!SameValue(d.left, d.right)
           x == S!SimplifyExpr(e)
<1>1. /\ \A n : S!ImmV(n) = ImmV(n)
      /\ \A op, a : S!Unary(op, a) = Unary(op, a)
      /\ \A op, a, b : S!Binary(op, a, b) = Binary(op, a, b)
  BY DEF S!ImmV, ImmV, S!Unary, Unary, S!Binary, Binary
<1>2. d = e \/ (e.right.kind = "imm" /\ d = Binary("Sub", e.left, ImmV(-e.right.value)))
  BY <1>1, Zenon DEF S!SubtractsInstead, S!Negatable
<1>3. S!SimplifyBinary(e) =
        CASE masked -> S!Unary("LogicalNot", e.left)
          [] cancels -> S!ImmV(0)
          [] OTHER -> IF vanishes THEN S!ImmV(0) ELSE d
  BY Zenon DEF S!SimplifyBinary
<1>4. masked => ~cancels
  BY DEF S!SameValue, S!SameRegister
<1>6. x = IF e.kind = "bin" THEN S!SimplifyBinary(e) ELSE e
  BY DEF S!SimplifyExpr
<1> HIDE DEF masked, cancels, vanishes, d, x
<1>5. S!SimplifyBinary(e) \in {S!Unary("LogicalNot", e.left), S!ImmV(0), d}
  BY <1>3, <1>4, Zenon
<1>7. \/ x = e
      \/ e.kind = "bin" /\ x = ImmV(0)
      \/ e.kind = "bin" /\ x = Unary("LogicalNot", e.left)
      \/ e.kind = "bin" /\ e.right.kind = "imm" /\ x = Binary("Sub", e.left, ImmV(-e.right.value))
  BY <1>1, <1>2, <1>5, <1>6
<1> QED BY <1>7 DEF x

\* A rewritten statement is a statement that writes the same place, and no jump
\* target is made of another expression.
LEMMA RewriteKeeps ==
  ASSUME NEW s \in Statement
  PROVE  LET t == S!SimplifyStatement(s)
         IN /\ t \in Statement /\ t.kind = s.kind
            /\ s.kind = "store" => t.address = s.address
            /\ s.kind = "assign" => t.dst = s.dst
            /\ t.value.kind = "cond" => t.value = s.value
            /\ t.value = S!SimplifyExpr(s.value)
<1> DEFINE e == s.value
           x == S!SimplifyExpr(e)
           t == S!SimplifyStatement(s)
<1>1. e \in Expression /\ t = [s EXCEPT !.value = x]
  BY DEF Statement, AssignStatement, StoreStatement, S!SimplifyStatement
<1>2. e.kind = "bin" => e \in BinaryExpression /\ e.left \in Value /\ e.right \in Value
  BY <1>1, ExpressionKinds
<1>3. x \in Expression /\ (x.kind = "cond" => x = e)
  <2>1. CASE x = e
    BY <1>1, <2>1
  <2>2. CASE e.kind = "bin" /\ x = ImmV(0)
    <3>1. x \in ImmValue
      BY <2>2, ImmediateType
    <3> QED BY <3>1, ValuesAreExpressions DEF ImmValue
  <2>3. CASE e.kind = "bin" /\ x = Unary("LogicalNot", e.left)
    BY <1>2, <2>3 DEF Unary, UnaryExpression, UnaryOps, FlatExpression, Expression
  <2>4. CASE /\ e.kind = "bin" /\ e.right.kind = "imm"
             /\ x = Binary("Sub", e.left, ImmV(-e.right.value))
    <3>1. e.right.value \in Int
      <4>1. e.right \in ImmValue
        BY <1>2, <2>4, ExpressionKinds, ValuesAreExpressions
      <4> QED BY <4>1, WidthFacts DEF ImmValue, Word
    <3>2. ImmV(-e.right.value) \in Value
      BY <3>1, ImmediateType, ValuesAreExpressions
    <3> QED BY <1>2, <2>4, <3>2 DEF Binary, BinaryOps, BinaryExpression, FlatExpression, Expression
  <2> QED BY <2>1, <2>2, <2>3, <2>4, RewriteShape
<1> HIDE DEF x
<1>4. /\ t \in Statement /\ t.kind = s.kind /\ t.value = x
      /\ s.kind = "store" => t.address = s.address
      /\ s.kind = "assign" => t.dst = s.dst
  BY <1>1, <1>3 DEF Statement, AssignStatement, StoreStatement
<1> QED BY <1>3, <1>4 DEF x

\* The operator of a store has memory on its left and none on its right, so
\* neither the register of rule 1a nor two operands alike: it stays an operator.
LEMMA StoredOperatorStays ==
  ASSUME NEW s \in Statement, L!InPlace(s), s.kind = "store"
  PROVE  ~Rebuilt(s.value)
<1> DEFINE e == s.value
           d == S!SubtractsInstead(e)
<1>1. /\ s \in StoreStatement /\ e \in Expression /\ s.address.kind = "mem"
  BY DEF Statement, AssignStatement, StoreStatement, MemoryValue
<1>2. CASE e.kind # "bin"
  BY <1>1, <1>2 DEF S!SimplifyExpr, Rebuilt
<1>3. CASE e.kind = "bin"
  <2>1. L!SamePlace(s.address, e.left) /\ e.right.kind # "mem"
    BY <1>1, <1>3 DEF L!InPlace, L!Destination, L!BothMemory
  <2>2. e.left.kind = "mem"
    BY <1>1, <2>1 DEF L!SamePlace
  <2>3. ~(e.op = "BitXor" /\ S!SameValue(e.left, e.right))
    BY <2>1, <2>2 DEF S!SameValue
  <2>4. \/ d = e
        \/ d = S!Binary("Sub", e.left, S!ImmV(-e.right.value))
    BY Zenon DEF S!SubtractsInstead
  <2>5. d.kind = "bin" /\ d.left = e.left /\ d.right.kind # "mem"
    BY <1>3, <2>1, <2>4 DEF S!Binary, S!ImmV
  <2> HIDE DEF d
  <2>6. ~(d.op = "Sub" /\ S!SameValue(d.left, d.right))
    BY <2>2, <2>5 DEF S!SameValue
  <2>7. S!SimplifyBinary(e) = d
    BY <2>2, <2>3, <2>6 DEF S!SimplifyBinary, d
  <2> QED BY <1>3, <2>5, <2>7 DEF S!SimplifyExpr, Rebuilt
<1> QED BY <1>2, <1>3


-----------------------------------------------------------------------------
(***************************************************************************)
(* The session.  The stream keeps what was lifted, no node of a store is   *)
(* freed, and the last answer is the one the stream of now gives: that is  *)
(* why SimplifyIR forgets it.                                              *)
(***************************************************************************)
StreamInv ==
  /\ Stream(ir) /\ L!SSAIds(ir)
  /\ walked \/ L!AllInPlace(ir)
  /\ freed = {}

AnswerInv ==
  \/ query = NoQuery /\ value = <<>>
  \/ \E r \in Reg :
       /\ query = [call |-> "build_last", reg |-> r]
       /\ value = Answer(ir, {}, r, DefsOf(ir, r))
  \/ \E r \in Reg : \E id \in Int :
       /\ query = [call |-> "build", reg |-> r, id |-> id]
       /\ value = Answer(ir, {}, r, DefsAs(ir, r, id))

SessionInv == StreamInv /\ AnswerInv

LEMMA SessionInvInit == Init => SessionInv
<1> SUFFICES ASSUME Init PROVE SessionInv
  OBVIOUS
<1>1. ir \in Seq(Statement) /\ L!AsLifted(ir)
  BY RegisterAstAssumption DEF Init
<1>2. L!SSAIds(ir) /\ L!AllInPlace(ir) /\ L!OnlyTargetsNest(ir)
  BY <1>1 DEF L!AsLifted
<1>3. Stream(ir)
  BY <1>1, <1>2 DEF Stream, Nestable, L!OnlyTargetsNest
<1> QED BY <1>2, <1>3 DEF Init, SessionInv, StreamInv, AnswerInv

Simplified(ss) == [n \in DOMAIN ss |-> S!SimplifyStatement(ss[n])]

LEMMA SimplifiedStream ==
  ASSUME NEW ss, Stream(ss), L!SSAIds(ss)
  PROVE  Stream(Simplified(ss)) /\ L!SSAIds(Simplified(ss))
<1> DEFINE ts == Simplified(ss)
<1>1. /\ ss \in Seq(Statement) /\ DOMAIN ss = 1..Len(ss) /\ Len(ss) \in Nat
      /\ \A n \in 1..Len(ss) : ss[n] \in Statement
  BY DEF Stream
<1>2. ASSUME NEW n \in 1..Len(ss)
      PROVE  /\ ts[n] \in Statement /\ Nestable(ts[n].value)
             /\ \A r \in Reg : L!Defines(ts[n], r) <=> L!Defines(ss[n], r)
             /\ \A r \in Reg : L!Defines(ss[n], r) => ts[n].dst = ss[n].dst
  <2>1. ts[n] = S!SimplifyStatement(ss[n])
    BY <1>1 DEF Simplified
  <2>2. /\ ts[n] \in Statement /\ ts[n].kind = ss[n].kind
        /\ ss[n].kind = "assign" => ts[n].dst = ss[n].dst
        /\ ts[n].value.kind = "cond" => ts[n].value = ss[n].value
    BY <1>1, <2>1, RewriteKeeps
  <2>3. Nestable(ts[n].value)
    BY <1>1, <2>2 DEF Stream, Nestable
  <2> QED BY <2>2, <2>3 DEF L!Defines
<1>3. ts \in Seq(Statement) /\ Len(ts) = Len(ss) /\ DOMAIN ts = 1..Len(ss)
  BY <1>1, <1>2 DEF Simplified
<1>4. Stream(ts)
  BY <1>2, <1>3 DEF Stream
<1> HIDE DEF ts
<1>5. L!SSAIds(ts)
  BY <1>1, <1>2, <1>3 DEF L!SSAIds, L!Reg, Reg
<1> QED BY <1>4, <1>5 DEF ts

LEMMA VersionsAreRegisters ==
  ASSUME Stream(ir), NEW target \in Versions
  PROVE  target.reg \in Reg /\ target.ssa_id \in Int
<1>1. ir \in Seq(Statement) /\ DOMAIN ir = 1..Len(ir)
  BY DEF Stream
<1>2. target \in RegValue
  <2>1. CASE \E n \in DOMAIN ir : target \in StatementReads(ir[n])
    BY <1>1, <2>1, ReadsAreRegisters
  <2>2. CASE \E r \in Reg : \E n \in DefsOf(ir, r) : target = ir[n].dst
    <3>1. PICK r \in Reg : \E n \in DefsOf(ir, r) : target = ir[n].dst
      BY <2>2
    <3>2. PICK n \in DefsOf(ir, r) : target = ir[n].dst
      BY <3>1
    <3>3. n \in 1..Len(ir) /\ ir[n].kind = "assign" /\ target.kind = "reg"
      BY <1>1, <3>2 DEF DefsOf, Defines
    <3>4. target \in Value
      BY <1>1, <3>2, <3>3, StatementParts
    <3> QED BY <3>3, <3>4, ExpressionKinds, ValuesAreExpressions
  <2> QED BY <2>1, <2>2 DEF Versions
<1> QED BY <1>2 DEF RegValue

LEMMA SessionInvNext == SessionInv /\ [Next]_vars => SessionInv'
<1> SUFFICES ASSUME SessionInv, [Next]_vars PROVE SessionInv'
  OBVIOUS
<1>0. Stream(ir) /\ L!SSAIds(ir) /\ (walked \/ L!AllInPlace(ir)) /\ freed = {}
  BY DEF SessionInv, StreamInv
<1>1. CASE Construct
  BY <1>1 DEF Construct, SessionInv, StreamInv, AnswerInv
<1>2. CASE SimplifyIR
  <2>1. Stream(ir') /\ L!SSAIds(ir')
    BY <1>0, <1>2, SimplifiedStream DEF SimplifyIR, Simplified
  <2>2. freed' = {}
    <3>1. ASSUME NEW n \in StorePositions(ir) PROVE ~Rebuilt(ir[n].value)
      <4>1. ir[n] \in Statement /\ ir[n].kind = "store" /\ n \in DOMAIN ir
        BY <1>0 DEF Stream, StorePositions
      <4>2. L!InPlace(ir[n])
        BY <1>0, <1>2, <4>1 DEF SimplifyIR, L!AllInPlace
      <4> QED BY <4>1, <4>2, StoredOperatorStays
    <3> QED BY <1>2, <3>1 DEF SimplifyIR
  <2>3. walked' = TRUE /\ query' = NoQuery /\ value' = <<>>
    BY <1>2 DEF SimplifyIR
  <2> QED BY <2>1, <2>2, <2>3 DEF SessionInv, StreamInv, AnswerInv
<1>3. CASE \E r \in Reg : BuildLast(r)
  BY <1>0, <1>3 DEF BuildLast, session, SessionInv, StreamInv, AnswerInv
<1>4. CASE \E target \in Versions : Build(target)
  <2>1. PICK target \in Versions : Build(target)
    BY <1>4
  <2>2. target.reg \in Reg /\ target.ssa_id \in Int
    BY <1>0, VersionsAreRegisters
  <2> QED BY <1>0, <2>1, <2>2 DEF Build, session, SessionInv, StreamInv, AnswerInv
<1>5. CASE UNCHANGED vars
  BY <1>5 DEF vars, session, SessionInv, StreamInv, AnswerInv
<1> QED BY <1>1, <1>2, <1>3, <1>4, <1>5 DEF Next

\* In every session, whatever was simplified and asked in whatever order, the last
\* answer is what the stream as it is now would be answered, with no store freed.
THEOREM AnswersAreCurrent == Spec => []SessionInv
BY SessionInvInit, SessionInvNext, PTL DEF Spec

\* What a call answers is what the latest of the definitions it found resolves to.
LEMMA AnswerIs ==
  ASSUME NEW ss \in Seq(Statement), NEW r \in Reg, NEW defs \in SUBSET DefsOf(ss, r)
  PROVE  /\ Answer(ss, {}, r, defs) \in Outcome
         /\ \/ /\ defs = {} /\ Answer(ss, {}, r, defs) = <<InputLeaf(r)>>
               /\ <<InputLeaf(r)>> \in Answers
            \/ \E k \in defs :
                 /\ \A m \in defs : m <= k
                 /\ Answer(ss, {}, r, defs) = Resolved(ss, MaxDepth + 1, ss[k].value, k)
<1>1. DefsOf(ss, r) \subseteq 1..Len(ss) /\ Len(ss) \in Nat
  BY DefsArePositions
<1>2. CASE defs = {}
  BY <1>2, NodesAnswer, AnswersDoNotFail DEF Answer, Outcome
<1>3. CASE defs # {}
  <2> DEFINE k == Latest(defs)
  <2>1. k \in defs /\ \A m \in defs : m <= k
    BY <1>1, <1>3, LatestIs
  <2>2. Answer(ss, {}, r, defs) = Resolved(ss, MaxDepth + 1, ss[k].value, k)
    BY <1>3 DEF Answer, ResolveDef, Resolved
  <2> HIDE DEF k
  <2>3. ss[k].value \in Expression /\ k \in Nat
    BY <1>1, <2>1, StatementParts
  <2>4. MaxDepth + 1 \in Levels
    BY RegisterAstAssumption DEF Levels
  <2>5. Answer(ss, {}, r, defs) \in Outcome
    BY <2>2, <2>3, <2>4, ResolvedOutcome DEF Outcomes, Resolved
  <2> QED BY <2>1, <2>2, <2>5
<1> QED BY <1>2, <1>3

\* The answer of a session, and the definitions it is about.
LEMMA SessionAnswer ==
  ASSUME SessionInv
  PROVE  \/ query = NoQuery /\ value = <<>>
         \/ \E r \in Reg : \E defs \in SUBSET DefsOf(ir, r) :
              /\ value = Answer(ir, {}, r, defs)
              /\ \/ query = [call |-> "build_last", reg |-> r] /\ defs = DefsOf(ir, r)
                 \/ \E id \in Int : /\ query = [call |-> "build", reg |-> r, id |-> id]
                                    /\ defs = DefsAs(ir, r, id)
<1>1. \A r, id : DefsAs(ir, r, id) \in SUBSET DefsOf(ir, r)
  BY DEF DefsAs
<1> QED BY <1>1 DEF SessionInv, AnswerInv

\* No call reads a node that was freed, in whatever order the stream is
\* simplified, the RegisterAst built and the queries asked.
THEOREM NothingDanglesHolds == Spec => []NothingDangles
<1>1. ASSUME SessionInv PROVE NothingDangles
  <2>1. ir \in Seq(Statement)
    BY <1>1 DEF SessionInv, StreamInv, Stream
  <2>2. value = <<>> \/ value \in Outcome
    BY <1>1, <2>1, SessionAnswer, AnswerIs
  <2>3. Dangling \notin Outcome /\ Dangling # <<>>
    BY AnswersDoNotFail DEF Dangling
  <2> QED BY <2>2, <2>3 DEF NothingDangles
<1> QED BY <1>1, AnswersAreCurrent, PTL

\* resolve() does not run out of levels on a stream with a third as many statements.
THEOREM DepthSufficesHolds == Spec => []DepthSuffices
<1>1. ASSUME SessionInv, 3 * Len(ir) <= MaxDepth + 1 PROVE value # TooDeep
  <2>1. Stream(ir) /\ ir \in Seq(Statement) /\ Len(ir) \in Nat
    BY <1>1 DEF SessionInv, StreamInv, Stream
  <2>2. MaxDepth + 1 \in Levels /\ MaxDepth \in Nat
    BY RegisterAstAssumption DEF Levels
  <2>3. ASSUME NEW k \in 1..Len(ir) PROVE Resolved(ir, MaxDepth + 1, ir[k].value, k) # TooDeep
    <3>1. ir[k].value \in Expression /\ Nestable(ir[k].value) /\ k \in Nat \ {0}
      BY <2>1, StatementParts DEF Stream
    <3>2. Extra(ir[k].value) \in 0..2
      BY <3>1, ExtraIs
    <3>3. 3 * k - 2 + Extra(ir[k].value) <= MaxDepth + 1
      BY <1>1, <2>1, <2>2, <3>2
    <3> QED BY <2>1, <2>2, <3>1, <3>3, EnoughLevels DEF Reaches
  <2>4. \A r : DefsOf(ir, r) \subseteq 1..Len(ir)
    BY <2>1, DefsArePositions
  <2>5. <<>> # TooDeep /\ \A x \in Answers : x # TooDeep
    BY OperatorNodes DEF TooDeep
  <2>6. value = <<>> \/ value \in Answers
        \/ \E k \in 1..Len(ir) : value = Resolved(ir, MaxDepth + 1, ir[k].value, k)
    <3>1. ASSUME NEW r \in Reg, NEW defs \in SUBSET DefsOf(ir, r), value = Answer(ir, {}, r, defs)
          PROVE  value \in Answers
                 \/ \E k \in 1..Len(ir) : value = Resolved(ir, MaxDepth + 1, ir[k].value, k)
      BY <2>1, <2>4, <3>1, AnswerIs
    <3> QED BY <1>1, <3>1, SessionAnswer
  <2> QED BY <2>3, <2>5, <2>6
<1>2. SessionInv => DepthSuffices
  BY <1>1 DEF DepthSuffices
<1> QED BY <1>2, AnswersAreCurrent, PTL


-----------------------------------------------------------------------------
(***************************************************************************)
(* Names.                                                                  *)
(***************************************************************************)
Marks ==
  {"Store(", "Assign(", "(", ")", "comma", "[", "]", ":", "*", "+", "-", "then", "else", "Conditional("}
  \cup UnaryOps \cup BinaryOps

Token ==
  {<<"mark", m>> : m \in Marks} \cup {<<"register", r>> : r \in Reg} \cup {<<"numeral", n>> : n \in Int}

Texts == Seq(Token)

LEMMA NothingUnnamed == <<"mark", Unnamed>> \notin Token
BY DEF Token, Marks, UnaryOps, BinaryOps, Unnamed

LEMMA TextParts ==
  /\ <<>> \in Texts
  /\ \A a, b \in Texts : a \o b \in Texts
  /\ \A m \in Marks : Mark(m) \in Texts
  /\ \A n \in Int : Numeral(n) \in Texts
  /\ \A r \in Reg : RegisterName(r) \in Texts
<1>1. \A x \in Token : <<x>> \in Texts
  BY DEF Texts
<1> QED BY <1>1 DEF Texts, Token, Mark, Numeral, RegisterName

LEMMA RegisterTextType ==
  ASSUME NEW v \in RegValue
  PROVE  RegisterText(v) \in Texts
<1>1. v.reg \in Reg /\ v.width \in Int /\ v.ssa_id \in Int
  BY DEF RegValue, Widths, Sizes
<1>2. WidthText(v) \in Texts
  BY <1>1, TextParts DEF WidthText, Marks
<1>3. VersionText(v) \in Texts
  BY <1>1, TextParts DEF VersionText, Marks
<1> QED BY <1>1, <1>2, <1>3, TextParts DEF RegisterText

LEMMA MemoryTextType ==
  ASSUME NEW v \in MemoryValue
  PROVE  MemoryText(v) \in Texts
<1>1. v.scale \in Int /\ v.displacement \in Int
  BY TermsAreRegisters
<1>2. /\ v.base # NullValue => v.base \in RegValue
      /\ v.index # NullValue => v.index \in RegValue
  BY TermsAreRegisters
<1>3. BaseText(v) \in Texts
  BY <1>2, RegisterTextType, TextParts DEF BaseText
<1>4. ScaleText(v) \in Texts
  BY <1>1, TextParts DEF ScaleText, Marks
<1>5. IndexText(v) \in Texts
  BY <1>2, <1>4, RegisterTextType, TextParts DEF IndexText
<1>6. Numeral(Magnitude(v.displacement)) \in Texts
  BY <1>1, TextParts DEF Magnitude
<1>7. \A first \in BOOLEAN : SignText(v, first) \in Texts
  BY TextParts DEF SignText, Marks
<1>8. DisplacementText(v) \in Texts
  BY <1>6, <1>7, TextParts DEF DisplacementText
<1> DEFINE plus == IF v.base = NullValue \/ v.index = NullValue THEN <<>> ELSE Mark("+")
<1>9. plus \in Texts /\ Mark("[") \in Texts /\ Mark("]") \in Texts
  BY TextParts DEF Marks
<1>10. MemoryText(v) = Mark("[") \o BaseText(v) \o plus \o IndexText(v) \o DisplacementText(v) \o Mark("]")
  BY DEF MemoryText
<1> HIDE DEF plus
<1> QED BY <1>3, <1>5, <1>8, <1>9, <1>10, TextParts

LEMMA ValueTextType ==
  ASSUME NEW v \in Value
  PROVE  ValueText(v) \in Texts
<1>1. CASE v \in RegValue
  BY <1>1, RegisterTextType DEF ValueText, RegValue
<1>2. CASE v \in ImmValue
  <2>1. v.kind = "imm" /\ v.value \in Int
    BY <1>2, WidthFacts DEF ImmValue, Word
  <2> QED BY <2>1, TextParts DEF ValueText
<1>3. CASE v \in MemoryValue
  BY <1>3, MemoryTextType DEF ValueText, MemoryValue
<1> QED BY <1>1, <1>2, <1>3 DEF Value

LEMMA OperatorsAreNamed ==
  /\ \A op \in UnaryOps : UnaryName(op) = op /\ op # Unnamed /\ op \in Marks
  /\ \A op \in BinaryOps : BinaryName(op) = op /\ op # Unnamed /\ op \in Marks
  /\ UnaryName("Load") # Unnamed /\ BinaryName("Mul") # Unnamed
BY DEF UnaryName, BinaryName, UnaryNames, BinaryNames, UnaryOps, BinaryOps, Unnamed, Marks

LEMMA FlatTextType ==
  ASSUME NEW e \in FlatExpression
  PROVE  FlatText(e) \in Texts
<1>0. {"(", ")", "comma"} \subseteq Marks
  BY DEF Marks
<1>1. CASE e \in Value
  <2>1. e.kind \in {"reg", "imm", "mem"}
    BY <1>1, ExpressionKinds, ValuesAreExpressions
  <2> QED BY <1>1, <2>1, ValueTextType DEF FlatText
<1>2. CASE e \in UnaryExpression
  <2>1. e.kind = "un" /\ e.op \in UnaryOps /\ e.operand \in Value
    BY <1>2 DEF UnaryExpression
  <2>2. FlatText(e) = Mark(e.op) \o Mark("(") \o ValueText(e.operand) \o Mark(")")
    BY <2>1, OperatorsAreNamed DEF FlatText, Wrap
  <2>3. /\ Mark(e.op) \in Texts /\ Mark("(") \in Texts /\ Mark(")") \in Texts
        /\ ValueText(e.operand) \in Texts
    BY <1>0, <2>1, OperatorsAreNamed, ValueTextType, TextParts
  <2> QED BY <2>2, <2>3, TextParts
<1>3. CASE e \in BinaryExpression
  <2>1. e.kind = "bin" /\ e.op \in BinaryOps /\ e.left \in Value /\ e.right \in Value
    BY <1>3 DEF BinaryExpression
  <2>2. FlatText(e) = Mark(e.op) \o Mark("(") \o
                      (ValueText(e.left) \o Mark("comma") \o ValueText(e.right)) \o Mark(")")
    BY <2>1, OperatorsAreNamed DEF FlatText, Wrap
  <2>3. /\ Mark(e.op) \in Texts /\ Mark("(") \in Texts /\ Mark(")") \in Texts
        /\ Mark("comma") \in Texts /\ ValueText(e.left) \in Texts /\ ValueText(e.right) \in Texts
    BY <1>0, <2>1, OperatorsAreNamed, ValueTextType, TextParts
  <2> QED BY <2>2, <2>3, TextParts
<1> QED BY <1>1, <1>2, <1>3 DEF FlatExpression

LEMMA StatementTextType ==
  ASSUME NEW s \in Statement
  PROVE  StatementText(s) \in Texts
<1>0. {"Store(", "Assign(", "comma", ")", "Conditional(", "then", "else"} \subseteq Marks
  BY DEF Marks
<1>1. s.value \in Expression /\ Destination(s) \in Value
  BY ValuesAreExpressions DEF Statement, AssignStatement, StoreStatement, Destination
<1>2. ExpressionText(s.value) \in Texts
  <2> DEFINE e == s.value
  <2>1. CASE e.kind # "cond"
    BY <1>1, <2>1, FlatTextType, ExpressionKinds DEF ExpressionText
  <2>2. CASE e.kind = "cond"
    <3> DEFINE c == FlatText(e.condition)
               t == FlatText(e.true_expr)
               f == FlatText(e.false_expr)
    <3>1. c \in Texts /\ t \in Texts /\ f \in Texts
      BY <1>1, <2>2, FlatTextType, ExpressionKinds
    <3>2. /\ Mark("Conditional(") \in Texts /\ Mark("then") \in Texts /\ Mark("else") \in Texts
          /\ Mark(")") \in Texts
      BY <1>0, TextParts
    <3>3. ExpressionText(e) =
            Mark("Conditional(") \o c \o Mark("then") \o t \o Mark("else") \o f \o Mark(")")
      BY <2>2 DEF ExpressionText
    <3> HIDE DEF c, t, f
    <3> DEFINE front == Mark("Conditional(") \o c \o Mark("then") \o t
    <3>4. front \in Texts
      BY <3>1, <3>2, TextParts
    <3>5. ExpressionText(e) = front \o Mark("else") \o f \o Mark(")")
      BY <3>3
    <3> HIDE DEF front
    <3> QED BY <3>1, <3>2, <3>4, <3>5, TextParts
  <2> QED BY <2>1, <2>2
<1>3. Mark(IF s.kind = "store" THEN "Store(" ELSE "Assign(") \in Texts
  BY <1>0, TextParts
<1>4. Mark("comma") \in Texts /\ Mark(")") \in Texts /\ ValueText(Destination(s)) \in Texts
  BY <1>0, <1>1, ValueTextType, TextParts
<1> DEFINE head == Mark(IF s.kind = "store" THEN "Store(" ELSE "Assign(")
           place == ValueText(Destination(s))
           text == ExpressionText(s.value)
<1>5. StatementText(s) = head \o place \o Mark("comma") \o text \o Mark(")")
  BY DEF StatementText
<1> HIDE DEF head, place, text
<1>6. head \in Texts /\ place \in Texts /\ text \in Texts
  BY <1>2, <1>3, <1>4 DEF head, place, text
<1> QED BY <1>4, <1>5, <1>6, TextParts

\* Everything main() prints has a name: each operator of the stream, simplified
\* or not, and each node of an answer.
THEOREM EverythingNamedHolds == Spec => []EverythingNamed
<1>1. ASSUME SessionInv PROVE EverythingNamed
  <2>1. ir \in Seq(Statement)
    BY <1>1 DEF SessionInv, StreamInv, Stream
  <2>2. ASSUME NEW n \in DOMAIN ir PROVE <<"mark", Unnamed>> \notin Range(StatementText(ir[n]))
    <3>1. StatementText(ir[n]) \in Texts
      BY <2>1, StatementTextType
    <3>2. Range(StatementText(ir[n])) \subseteq Token
      BY <3>1 DEF Texts, Range
    <3> QED BY <3>2, NothingUnnamed
  <2>3. value = <<>> \/ value \in Outcome
    BY <1>1, <2>1, SessionAnswer, AnswerIs
  <2>4. ASSUME value \notin Failed, NEW k \in DOMAIN value PROVE NodeName(value[k]) # Unnamed
    <3>1. value \in Seq(AnswerNode) /\ value # <<>>
      BY <2>3, <2>4 DEF Failed, Outcome, Answers
    <3>2. value[k] \in AnswerNode
      BY <2>4, <3>1
    <3> DEFINE x == value[k]
    <3>3. \/ x.kind \in {"reg", "imm", "cond"}
          \/ x.kind = "un" /\ x.op \in UnaryOps \cup {"Load"}
          \/ x.kind = "bin" /\ x.op \in BinaryOps \cup {"Mul"}
      BY <3>2 DEF AnswerNode, ImmValue, ConditionalNode
    <3> HIDE DEF x
    <3>4. NodeName(x) # Unnamed
      BY <3>3, OperatorsAreNamed DEF NodeName, Unnamed
    <3> QED BY <3>4 DEF x
  <2> QED BY <2>2, <2>4 DEF EverythingNamed
<1> QED BY <1>1, AnswersAreCurrent, PTL


-----------------------------------------------------------------------------
(***************************************************************************)
(* The value of an answer.                                                 *)
(***************************************************************************)
AreStacks(f, answer, stack, env, k) ==
  f = [n \in 0..k |-> IF n = 0 THEN stack ELSE Calculated(answer[n], f[n - 1], env)]

LEMMA StacksExist ==
  ASSUME NEW answer, NEW stack, NEW env
  PROVE  \A k \in Nat : \E f : AreStacks(f, answer, stack, env, k)
<1> DEFINE T == {k \in Nat : \E f : AreStacks(f, answer, stack, env, k)}
<1>1. 0 \in T
  <2> DEFINE f == [n \in 0..0 |-> stack]
  <2>1. f = [n \in 0..0 |-> IF n = 0 THEN stack ELSE Calculated(answer[n], f[n - 1], env)]
    OBVIOUS
  <2> QED BY <2>1 DEF AreStacks
<1>2. ASSUME NEW k \in Nat, k \in T PROVE k + 1 \in T
  <2>1. PICK g : AreStacks(g, answer, stack, env, k)
    BY <1>2
  <2> DEFINE f == [n \in 0..(k + 1) |-> IF n = k + 1 THEN Calculated(answer[n], g[k], env) ELSE g[n]]
  <2>2. ASSUME NEW n \in 0..(k + 1)
        PROVE  f[n] = IF n = 0 THEN stack ELSE Calculated(answer[n], f[n - 1], env)
    <3>1. CASE n = k + 1
      BY <3>1
    <3>2. CASE n # k + 1
      <4>1. n \in 0..k /\ f[n] = g[n] /\ (n # 0 => f[n - 1] = g[n - 1])
        BY <3>2
      <4>2. g[n] = IF n = 0 THEN stack ELSE Calculated(answer[n], g[n - 1], env)
        BY <2>1, <4>1 DEF AreStacks
      <4> QED BY <4>1, <4>2
    <3> QED BY <3>1, <3>2
  <2>3. AreStacks(f, answer, stack, env, k + 1)
    BY <2>2 DEF AreStacks
  <2> QED BY <2>3
<1>3. Nat \subseteq T
  <2> HIDE DEF T
  <2> QED BY <1>1, <1>2, SetInduction
<1> QED BY <1>3

LEMMA StacksUnfold ==
  ASSUME NEW answer \in Seq(AnswerNode), NEW stack, NEW env
  PROVE  AreStacks(Stacks(answer, stack, env), answer, stack, env, Len(answer))
<1>1. \E f : AreStacks(f, answer, stack, env, Len(answer))
  <2>1. Len(answer) \in Nat
    OBVIOUS
  <2> QED BY <2>1, StacksExist
<1>2. Stacks(answer, stack, env) = CHOOSE f : AreStacks(f, answer, stack, env, Len(answer))
  BY DEF Stacks, AreStacks
<1> QED BY <1>1, <1>2

LEMMA StackAppend ==
  ASSUME NEW answer \in Seq(AnswerNode), NEW x \in AnswerNode, NEW env
  PROVE  \A stack : StackAfter(Append(answer, x), stack, env)
                     = Calculated(x, StackAfter(answer, stack, env), env)
<1> SUFFICES ASSUME NEW stack
             PROVE  StackAfter(Append(answer, x), stack, env)
                      = Calculated(x, StackAfter(answer, stack, env), env)
  OBVIOUS
<1> DEFINE longer == Append(answer, x)
           f == Stacks(answer, stack, env)
           g == Stacks(longer, stack, env)
<1>1. longer \in Seq(AnswerNode) /\ Len(longer) = Len(answer) + 1 /\ longer[Len(answer) + 1] = x
      /\ \A n \in 1..Len(answer) : longer[n] = answer[n]
  OBVIOUS
<1>2. /\ f = [n \in 0..Len(answer) |->
                IF n = 0 THEN stack ELSE Calculated(answer[n], f[n - 1], env)]
      /\ g = [n \in 0..(Len(answer) + 1) |->
                IF n = 0 THEN stack ELSE Calculated(longer[n], g[n - 1], env)]
  <2> HIDE DEF longer
  <2>1. AreStacks(f, answer, stack, env, Len(answer))
    BY StacksUnfold
  <2>2. AreStacks(g, longer, stack, env, Len(answer) + 1)
    <3>1. AreStacks(g, longer, stack, env, Len(longer))
      BY <1>1, StacksUnfold
    <3> QED BY <1>1, <3>1
  <2> HIDE DEF f, g
  <2> QED BY <2>1, <2>2 DEF AreStacks
<1> HIDE DEF f, g, longer
<1> DEFINE T == {n \in Nat : n <= Len(answer) => f[n] = g[n]}
<1>3. 0 \in T
  BY <1>2
<1>4. ASSUME NEW n \in Nat, n \in T PROVE n + 1 \in T
  <2>1. SUFFICES ASSUME n + 1 <= Len(answer) PROVE f[n + 1] = g[n + 1]
    OBVIOUS
  <2>2. f[n] = g[n] /\ n + 1 \in 1..Len(answer) /\ longer[n + 1] = answer[n + 1]
    BY <1>1, <1>4, <2>1
  <2>3. /\ f[n + 1] = Calculated(answer[n + 1], f[n], env)
        /\ g[n + 1] = Calculated(longer[n + 1], g[n], env)
    BY <1>2, <2>2
  <2> QED BY <2>2, <2>3
<1>5. Nat \subseteq T
  <2> HIDE DEF T
  <2> QED BY <1>3, <1>4, SetInduction
<1>6. f[Len(answer)] = g[Len(answer)]
  BY <1>5
<1>7. g[Len(answer) + 1] = Calculated(x, g[Len(answer)], env)
  BY <1>1, <1>2
<1>8. /\ StackAfter(longer, stack, env) = g[Len(answer) + 1]
      /\ StackAfter(answer, stack, env) = f[Len(answer)]
  BY <1>1 DEF StackAfter, f, g
<1> QED BY <1>6, <1>7, <1>8 DEF longer

LEMMA StackNothing == \A stack, env : StackAfter(<<>>, stack, env) = stack
<1> SUFFICES ASSUME NEW stack, NEW env PROVE StackAfter(<<>>, stack, env) = stack
  OBVIOUS
<1>1. <<>> \in Seq(AnswerNode) /\ Len(<<>>) = 0
  OBVIOUS
<1>2. AreStacks(Stacks(<<>>, stack, env), <<>>, stack, env, 0)
  BY <1>1, StacksUnfold
<1> QED BY <1>1, <1>2 DEF AreStacks, StackAfter

LEMMA ConcatAppend ==
  ASSUME NEW A, NEW a \in Seq(A), NEW b \in Seq(A), NEW x \in A
  PROVE  a \o b \in Seq(A) /\ a \o Append(b, x) = Append(a \o b, x)
<1>1. <<x>> \in Seq(A) /\ a \o b \in Seq(A)
  OBVIOUS
<1>2. Append(b, x) = b \o <<x>> /\ Append(a \o b, x) = (a \o b) \o <<x>>
  BY <1>1, AppendIsConcat
<1>3. (a \o b) \o <<x>> = a \o (b \o <<x>>)
  BY <1>1, ConcatAssociative
<1> QED BY <1>1, <1>2, <1>3

LEMMA StackConcat ==
  ASSUME NEW a \in Seq(AnswerNode), NEW b \in Seq(AnswerNode), NEW env
  PROVE  \A stack : StackAfter(a \o b, stack, env) = StackAfter(b, StackAfter(a, stack, env), env)
<1> DEFINE Follows(m) ==
             \A stack : StackAfter(a \o m, stack, env) = StackAfter(m, StackAfter(a, stack, env), env)
           T == {n \in Nat : \A m \in Seq(AnswerNode) : Len(m) = n => Follows(m)}
<1>1. 0 \in T
  <2>1. \A m \in Seq(AnswerNode) : Len(m) = 0 => m = <<>> /\ a \o m = a
    OBVIOUS
  <2> QED BY <2>1, StackNothing
<1>2. ASSUME NEW n \in Nat, n \in T PROVE n + 1 \in T
  <2> SUFFICES ASSUME NEW m \in Seq(AnswerNode), Len(m) = n + 1 PROVE Follows(m)
    OBVIOUS
  <2> DEFINE front == SubSeq(m, 1, n)
             x == m[n + 1]
  <2>1. front \in Seq(AnswerNode) /\ Len(front) = n /\ x \in AnswerNode /\ m = Append(front, x)
    OBVIOUS
  <2> HIDE DEF front, x
  <2>2. a \o front \in Seq(AnswerNode) /\ a \o Append(front, x) = Append(a \o front, x)
    BY <2>1, ConcatAppend
  <2>3. Follows(front)
    BY <1>2, <2>1
  <2>4. \A stack : StackAfter(Append(a \o front, x), stack, env)
                     = Calculated(x, StackAfter(a \o front, stack, env), env)
    BY <2>1, <2>2, StackAppend
  <2>5. \A stack : StackAfter(Append(front, x), stack, env)
                     = Calculated(x, StackAfter(front, stack, env), env)
    BY <2>1, StackAppend
  <2> QED BY <2>1, <2>2, <2>3, <2>4, <2>5
<1>3. Nat \subseteq T
  <2> HIDE DEF T
  <2> QED BY <1>1, <1>2, SetInduction
<1>4. Len(b) \in Nat
  OBVIOUS
<1> QED BY <1>3, <1>4

LEMMA StackOne ==
  ASSUME NEW x \in AnswerNode, NEW env
  PROVE  \A stack : StackAfter(<<x>>, stack, env) = Calculated(x, stack, env)
<1>1. <<>> \in Seq(AnswerNode) /\ <<x>> = Append(<<>>, x)
  OBVIOUS
<1>2. \A stack : StackAfter(Append(<<>>, x), stack, env)
                   = Calculated(x, StackAfter(<<>>, stack, env), env)
  BY <1>1, StackAppend
<1> QED BY <1>1, <1>2, StackNothing

\* An answer leaves its value on top of whatever was there.
Computes(a, x, env) == a \in Answers /\ \A stack : StackAfter(a, stack, env) = <<x, stack>>

LEMMA ComputedOnce ==
  ASSUME NEW a, NEW x, NEW y, NEW env, Computes(a, x, env), Computes(a, y, env)
  PROVE  x = y
<1>1. StackAfter(a, Empty, env) = <<x, Empty>> /\ StackAfter(a, Empty, env) = <<y, Empty>>
  BY DEF Computes
<1> QED BY <1>1

LEMMA LeavesCompute ==
  ASSUME NEW env
  PROVE  /\ \A r \in Reg : Computes(<<InputLeaf(r)>>, env.reg[r], env)
         /\ \A v \in ImmValue : Computes(<<v>>, v.value, env)
<1>1. \A r \in Reg : <<InputLeaf(r)>> \in Answers
  BY NodesAnswer, AnswersDoNotFail
<1>2. ASSUME NEW v \in ImmValue PROVE <<v>> \in Answers /\ v \in AnswerNode
  <2>1. v \in AnswerNode
    BY NodesAnswer
  <2> QED BY <2>1, AnswersDoNotFail
<1>3. ASSUME NEW r \in Reg, NEW stack
      PROVE  StackAfter(<<InputLeaf(r)>>, stack, env) = <<env.reg[r], stack>>
  <2>1. StackAfter(<<InputLeaf(r)>>, stack, env) = Calculated(InputLeaf(r), stack, env)
    BY NodesAnswer, StackOne
  <2> QED BY <2>1 DEF Calculated, InputLeaf, Push
<1>4. ASSUME NEW v \in ImmValue, NEW stack
      PROVE  StackAfter(<<v>>, stack, env) = <<v.value, stack>>
  <2>1. StackAfter(<<v>>, stack, env) = Calculated(v, stack, env)
    BY <1>2, StackOne
  <2>2. v.kind = "imm"
    BY DEF ImmValue
  <2> QED BY <2>1, <2>2 DEF Calculated, Push
<1> QED BY <1>1, <1>2, <1>3, <1>4 DEF Computes

LEMMA UnaryComputes ==
  ASSUME NEW a, NEW x, NEW env, Computes(a, x, env), NEW op \in UnaryOps \cup {"Load"}
  PROVE  Computes(a \o <<UnaryNode(op)>>, AnswerUnary(op, x, env), env)
<1> DEFINE c == <<UnaryNode(op)>>
<1>1. a \in Answers /\ c \in Answers /\ a \in Seq(AnswerNode) /\ c \in Seq(AnswerNode)
  BY OperatorNodes DEF Computes, Answers
<1>2. \A stack : StackAfter(c, stack, env) = <<AnswerUnary(op, OnTop(stack), env), Beneath(stack)>>
  <2>1. \A stack : StackAfter(c, stack, env) = Calculated(UnaryNode(op), stack, env)
    BY NodesAnswer, StackOne
  <2> QED BY <2>1 DEF Calculated, UnaryNode, Push
<1> HIDE DEF c
<1>3. ASSUME NEW stack
      PROVE  StackAfter(a \o c, stack, env) = <<AnswerUnary(op, x, env), stack>>
  <2>1. StackAfter(a \o c, stack, env) = StackAfter(c, StackAfter(a, stack, env), env)
    BY <1>1, StackConcat
  <2>2. StackAfter(a, stack, env) = <<x, stack>>
    BY DEF Computes
  <2> QED BY <1>2, <2>1, <2>2 DEF OnTop, Beneath
<1>4. a \o c \in Answers
  BY <1>1, ConcatAnswers
<1> QED BY <1>3, <1>4 DEF Computes, c

LEMMA BinaryComputes ==
  ASSUME NEW a, NEW x, NEW b, NEW y, NEW env, Computes(a, x, env), Computes(b, y, env),
         NEW op \in BinaryOps \cup {"Mul"}
  PROVE  Computes((a \o b) \o <<BinaryNode(op)>>, AnswerBinary(op, x, y), env)
<1> DEFINE c == <<BinaryNode(op)>>
<1>1. /\ a \in Answers /\ b \in Answers /\ c \in Answers
      /\ a \in Seq(AnswerNode) /\ b \in Seq(AnswerNode) /\ c \in Seq(AnswerNode)
  BY OperatorNodes DEF Computes, Answers
<1>2. \A stack : StackAfter(c, stack, env) =
        <<AnswerBinary(op, OnTop(Beneath(stack)), OnTop(stack)), Beneath(Beneath(stack))>>
  <2>1. \A stack : StackAfter(c, stack, env) = Calculated(BinaryNode(op), stack, env)
    BY NodesAnswer, StackOne
  <2> QED BY <2>1 DEF Calculated, BinaryNode, Push
<1> HIDE DEF c
<1>3. a \o b \in Answers /\ (a \o b) \o c \in Answers /\ a \o b \in Seq(AnswerNode)
  BY <1>1, ConcatAnswers DEF Answers
<1>4. ASSUME NEW stack
      PROVE  StackAfter((a \o b) \o c, stack, env) = <<AnswerBinary(op, x, y), stack>>
  <2> DEFINE after == StackAfter(a \o b, stack, env)
  <2>1. StackAfter((a \o b) \o c, stack, env) = StackAfter(c, after, env)
    <3> DEFINE ab == a \o b
    <3>1. ab \in Seq(AnswerNode)
      BY <1>3
    <3> HIDE DEF ab
    <3>2. StackAfter(ab \o c, stack, env) = StackAfter(c, StackAfter(ab, stack, env), env)
      BY <1>1, <3>1, StackConcat
    <3> QED BY <3>2 DEF ab
  <2>2. after = StackAfter(b, StackAfter(a, stack, env), env)
    BY <1>1, StackConcat
  <2>3. after = <<y, <<x, stack>>>>
    BY <2>2 DEF Computes
  <2> QED BY <1>2, <2>1, <2>3 DEF OnTop, Beneath
<1> QED BY <1>3, <1>4 DEF Computes, c

LEMMA ConditionalComputes ==
  ASSUME NEW a, NEW x, NEW b, NEW y, NEW c, NEW z, NEW env,
         Computes(a, x, env), Computes(b, y, env), Computes(c, z, env)
  PROVE  Computes(((a \o b) \o c) \o <<ConditionalNode>>, IF x = 1 THEN y ELSE z, env)
<1> DEFINE d == <<ConditionalNode>>
           ab == a \o b
           abc == ab \o c
<1>1. /\ a \in Answers /\ b \in Answers /\ c \in Answers /\ d \in Answers
      /\ \A t \in Answers : t \in Seq(AnswerNode)
  BY OperatorNodes DEF Computes, Answers
<1>2. \A stack : StackAfter(d, stack, env) =
        <<IF OnTop(Beneath(Beneath(stack))) = 1 THEN OnTop(Beneath(stack)) ELSE OnTop(stack),
          Beneath(Beneath(Beneath(stack)))>>
  <2>1. \A stack : StackAfter(d, stack, env) = Calculated(ConditionalNode, stack, env)
    BY NodesAnswer, StackOne
  <2> QED BY <2>1 DEF Calculated, ConditionalNode, Push
<1>3. ab \in Answers
  BY <1>1, ConcatAnswers
<1>4. \A stack : StackAfter(ab, stack, env) = <<y, <<x, stack>>>>
  BY <1>1, StackConcat DEF Computes
<1> HIDE DEF ab
<1>5. abc \in Answers
  BY <1>1, <1>3, ConcatAnswers
<1>6. \A stack : StackAfter(abc, stack, env) = <<z, <<y, <<x, stack>>>>>>
  BY <1>1, <1>3, <1>4, StackConcat DEF Computes
<1> HIDE DEF abc, d
<1>7. abc \o d \in Answers
  BY <1>1, <1>5, ConcatAnswers
<1>8. \A stack : StackAfter(abc \o d, stack, env) = StackAfter(d, StackAfter(abc, stack, env), env)
  BY <1>1, <1>5, StackConcat
<1>9. \A stack : StackAfter(abc \o d, stack, env) = <<IF x = 1 THEN y ELSE z, stack>>
  BY <1>2, <1>6, <1>8 DEF OnTop, Beneath
<1>10. Computes(abc \o d, IF x = 1 THEN y ELSE z, env)
  BY <1>7, <1>9 DEF Computes
<1> QED BY <1>10 DEF abc, ab, d


-----------------------------------------------------------------------------
(***************************************************************************)
(* What is resolved with some levels left is resolved alike with more.     *)
(***************************************************************************)
Agree(f, g) ==
  \A e \in Expression : \A at \in Nat : f[e][at] # TooDeep => g[e][at] = f[e][at]

LEMMA AddressAgrees ==
  ASSUME NEW mv \in MemoryValue, NEW at \in Nat, NEW f, NEW g, Outcomes(f), Agree(f, g),
         ResolveAddress(mv, at, f) # TooDeep
  PROVE  ResolveAddress(mv, at, g) = ResolveAddress(mv, at, f)
<1>1. \A v \in Terms(mv) : f[v][at] # TooDeep
  BY AddressIs
<1>2. \A v \in Terms(mv) : g[v][at] = f[v][at]
  BY <1>1, TermsAreRegisters, ValuesAreExpressions DEF Agree
<1>3. Base(mv, at, g) = Base(mv, at, f)
  BY <1>2 DEF Base, Terms
<1>4. Index(mv, at, g) = Index(mv, at, f)
  BY <1>2 DEF Index, Terms
<1> QED BY <1>3, <1>4 DEF ResolveAddress

LEMMA UseAgrees ==
  ASSUME NEW ss \in Seq(Statement), NEW r \in Reg, NEW at \in Nat, NEW f, NEW g, Agree(f, g),
         ResolveUse(ss, r, at, f) # TooDeep
  PROVE  ResolveUse(ss, r, at, g) = ResolveUse(ss, r, at, f)
<1> DEFINE defs == DefsBefore(ss, r, at)
           k == Latest(defs)
<1>1. CASE defs = {}
  BY <1>1 DEF ResolveUse
<1>2. CASE defs # {}
  <2>1. defs \subseteq 1..Len(ss) /\ Len(ss) \in Nat
    BY DefsArePositions
  <2>2. k \in defs
    BY <1>2, <2>1, LatestIs
  <2>3. ResolveUse(ss, r, at, f) = f[ss[k].value][k] /\ ResolveUse(ss, r, at, g) = g[ss[k].value][k]
    BY <1>2 DEF ResolveUse
  <2> HIDE DEF k, defs
  <2>4. k \in Nat /\ ss[k].value \in Expression
    BY <2>1, <2>2, StatementParts
  <2> QED BY <2>3, <2>4 DEF Agree
<1> QED BY <1>1, <1>2

LEMMA LoadAgrees ==
  ASSUME NEW ss \in Seq(Statement), NEW mv \in MemoryValue, NEW at \in Nat,
         NEW f, Outcomes(f), NEW g, Outcomes(g), Agree(f, g),
         NEW u, Outcomes(u), NEW w, Outcomes(w), Agree(u, w),
         ResolveLoad(ss, {}, mv, at, f, u) # TooDeep
  PROVE  ResolveLoad(ss, {}, mv, at, g, w) = ResolveLoad(ss, {}, mv, at, f, u)
<1> DEFINE want == ResolveAddress(mv, at, f)
           res == ResolveLoad(ss, {}, mv, at, f, u)
           more == ResolveLoad(ss, {}, mv, at, g, w)
           earlier == EarlierStores(ss, mv, at)
<1>16. LoadCases(ss, mv, at, f, u, want, res, earlier)
  <2>1. Loading(ss, mv, at, f, u)
    BY LoadIs
  <2> QED BY <2>1 DEF Loading
<1>1. want # TooDeep
  BY <1>16 DEF LoadCases
<1>2. ResolveAddress(mv, at, g) = want
  BY <1>1, AddressAgrees
<1>17. LoadCases(ss, mv, at, g, w, want, more, earlier)
  <2>1. Loading(ss, mv, at, g, w)
    BY LoadIs
  <2> QED BY <1>2, <2>1 DEF Loading
<1>3. /\ (\A k \in earlier : Missed(ss, k, u, want)) => res = Joined(want, <<UnaryNode("Load")>>)
      /\ \A k \in earlier : Stops(ss, mv, at, u, want, k) =>
           res = IF StoreAddress(ss, k, u) = want THEN f[ss[k].value][k] ELSE TooDeep
      /\ \/ \A k \in earlier : Missed(ss, k, u, want)
         \/ \E k \in earlier : Stops(ss, mv, at, u, want, k)
  <2> HIDE DEF want, res, more, earlier
  <2> QED BY <1>1, <1>16 DEF LoadCases
<1>4. /\ (\A k \in earlier : Missed(ss, k, w, want)) => more = Joined(want, <<UnaryNode("Load")>>)
      /\ \A k \in earlier : Stops(ss, mv, at, w, want, k) =>
           more = IF StoreAddress(ss, k, w) = want THEN g[ss[k].value][k] ELSE TooDeep
  <2> HIDE DEF want, res, more, earlier
  <2> QED BY <1>1, <1>17 DEF LoadCases
<1> HIDE DEF want, res, more
<1>5. \A k \in earlier : StoreAddress(ss, k, u) # TooDeep => StoreAddress(ss, k, w) = StoreAddress(ss, k, u)
  <2> SUFFICES ASSUME NEW k \in earlier, StoreAddress(ss, k, u) # TooDeep
               PROVE  StoreAddress(ss, k, w) = StoreAddress(ss, k, u)
    OBVIOUS
  <2>1. ss[k].address \in MemoryValue /\ k \in Nat
    BY StoresArePositions
  <2> QED BY <2>1, AddressAgrees DEF StoreAddress
<1>6. \A k \in earlier : Missed(ss, k, u, want) => Missed(ss, k, w, want)
  BY <1>5 DEF Missed
<1>7. CASE \A k \in earlier : Missed(ss, k, u, want)
  BY <1>3, <1>4, <1>6, <1>7 DEF res, more
<1>8. CASE \E k \in earlier : Stops(ss, mv, at, u, want, k)
  <2>1. PICK k \in earlier : Stops(ss, mv, at, u, want, k)
    BY <1>8
  <2>2. StoreAddress(ss, k, u) = want /\ res = f[ss[k].value][k] /\ res # TooDeep
    BY <1>3, <2>1 DEF res
  <2>3. StoreAddress(ss, k, w) = want
    BY <1>1, <1>5, <2>2
  <2>4. Stops(ss, mv, at, w, want, k)
    BY <1>6, <2>1, <2>3 DEF Stops, Missed
  <2>5. more = g[ss[k].value][k]
    BY <1>4, <2>3, <2>4
  <2>6. ss[k].value \in Expression /\ k \in Nat
    BY StoresArePositions
  <2> QED BY <2>2, <2>5, <2>6 DEF Agree, res, more
<1> QED BY <1>3, <1>7, <1>8

LEMMA StepAgrees ==
  ASSUME NEW ss \in Seq(Statement), NEW e \in Expression, NEW at \in Nat,
         NEW f, Outcomes(f), NEW g, Outcomes(g), Agree(f, g),
         NEW u, Outcomes(u), NEW w, Outcomes(w), Agree(u, w),
         NEW res, NEW more, Made(ss, e, at, res, f, u), Made(ss, e, at, more, g, w),
         res # TooDeep
  PROVE  more = res
<1>1. \A x \in Expression : /\ f[x][at] \in Outcome /\ g[x][at] \in Outcome
                            /\ f[x][at] # TooDeep => g[x][at] = f[x][at]
  BY DEF Outcomes, Agree
<1>2. CASE e.kind = "reg"
  BY <1>2, UseAgrees DEF Made
<1>3. CASE e.kind = "imm"
  BY <1>3 DEF Made
<1>4. CASE e.kind = "mem"
  BY <1>4, LoadAgrees DEF Made
<1>5. CASE e.kind = "un"
  <2> DEFINE a == f[e.operand][at]
             b == g[e.operand][at]
             c == <<UnaryNode(e.op)>>
  <2>1. /\ res = Joined(a, c) /\ more = Joined(b, c) /\ c \in Answers
        /\ a \in Outcome /\ (a # TooDeep => b = a)
    BY <1>1, <1>5 DEF Made
  <2> HIDE DEF a, b, c
  <2>2. c \in Outcome
    BY <2>1, OperatorNodes
  <2>3. a # TooDeep
    BY <2>1, <2>2, JoinedIs
  <2> QED BY <2>1, <2>3
<1>6. CASE e.kind = "bin"
  <2> DEFINE a == f[e.left][at]
             b == f[e.right][at]
             x == g[e.left][at]
             y == g[e.right][at]
             c == <<BinaryNode(e.op)>>
  <2>1. /\ res = Joined(Joined(a, b), c) /\ more = Joined(Joined(x, y), c) /\ c \in Answers
        /\ a \in Outcome /\ (a # TooDeep => x = a)
        /\ b \in Outcome /\ (b # TooDeep => y = b)
    BY <1>1, <1>6 DEF Made
  <2> HIDE DEF a, b, c, x, y
  <2>2. a # TooDeep /\ b # TooDeep
    BY <2>1, JoinedThree
  <2> QED BY <2>1, <2>2
<1>7. CASE e.kind = "cond"
  <2> DEFINE a == f[e.condition][at]
             b == f[e.true_expr][at]
             c == f[e.false_expr][at]
             x == g[e.condition][at]
             y == g[e.true_expr][at]
             z == g[e.false_expr][at]
             d == <<ConditionalNode>>
  <2>1. /\ res = Joined(Joined(Joined(a, b), c), d) /\ more = Joined(Joined(Joined(x, y), z), d)
        /\ d \in Answers
        /\ a \in Outcome /\ (a # TooDeep => x = a)
        /\ b \in Outcome /\ (b # TooDeep => y = b)
        /\ c \in Outcome /\ (c # TooDeep => z = c)
    BY <1>1, <1>7 DEF Made
  <2> HIDE DEF a, b, c, x, y, z, d
  <2>2. a # TooDeep /\ b # TooDeep /\ c # TooDeep
    BY <2>1, JoinedFour
  <2> QED BY <2>1, <2>2
<1>8. e.kind \in {"reg", "imm", "mem", "un", "bin", "cond"}
  BY DEF Made
<1> QED BY <1>2, <1>3, <1>4, <1>5, <1>6, <1>7, <1>8

LEMMA NextLevelAgrees ==
  ASSUME NEW ss \in Seq(Statement)
  PROVE  \A n \in Levels : n + 1 \in Levels => Agree(Resolver(ss, {})[n], Resolver(ss, {})[n + 1])
<1> DEFINE f(n) == Resolver(ss, {})[n]
           G == {n \in Levels : n + 1 \in Levels => Agree(f(n), f(n + 1))}
<1>0. /\ 0 \in Levels /\ Levels \subseteq Nat
      /\ \A n \in Levels : n # 0 => n - 1 \in Levels /\ Down(n - 1) \in Levels
  BY RegisterAstAssumption DEF Levels, Down
<1>1. 0 \in G
  <2>1. \A e \in Expression : \A at \in Nat : f(0)[e][at] = TooDeep
    BY <1>0, OneLevel DEF Resolved
  <2> QED BY <1>0, <2>1 DEF Agree
<1>2. ASSUME NEW n \in Levels, n # 0, n - 1 \in G, Down(n - 1) \in G PROVE n \in G
  <2> SUFFICES ASSUME n + 1 \in Levels PROVE Agree(f(n), f(n + 1))
    OBVIOUS
  <2>1. /\ n + 1 - 1 = n /\ n + 1 # 0 /\ n - 1 + 1 = n
        /\ n - 1 \in Levels /\ Down(n - 1) \in Levels /\ Down(n) \in Levels
    BY <1>0, <1>2 DEF Down
  <2>2. Agree(f(n - 1), f(n))
    BY <1>2, <2>1
  <2>3. Agree(f(Down(n - 1)), f(Down(n)))
    <3>1. CASE n = 1
      <4>1. Down(n - 1) = 0 /\ Down(n) = 0
        BY <3>1 DEF Down
      <4> QED BY <4>1 DEF Agree
    <3>2. CASE n # 1
      <4>1. Down(n - 1) + 1 = Down(n)
        BY <1>0, <1>2, <3>2 DEF Down
      <4> QED BY <1>2, <2>1, <4>1
    <3> QED BY <3>1, <3>2
  <2>4. Outcomes(f(n - 1)) /\ Outcomes(f(n)) /\ Outcomes(f(Down(n - 1))) /\ Outcomes(f(Down(n)))
    BY <2>1, ResolvedOutcome
  <2>5. ASSUME NEW e \in Expression, NEW at \in Nat, f(n)[e][at] # TooDeep
        PROVE  f(n + 1)[e][at] = f(n)[e][at]
    <3> DEFINE res == f(n)[e][at]
               more == f(n + 1)[e][at]
               g == f(n - 1)
               h == f(n)
               u == f(Down(n - 1))
               w == f(Down(n))
    <3>1. Made(ss, e, at, res, g, u)
      BY <1>2, LevelIs DEF Resolved
    <3>2. Made(ss, e, at, more, h, w)
      <4> DEFINE m == n + 1
      <4>1. m \in Levels /\ m # 0 /\ m - 1 = n
        BY <1>0, <2>1
      <4>2. more = Resolved(ss, m, e, at)
        BY DEF Resolved
      <4> HIDE DEF m, more
      <4>3. Made(ss, e, at, Resolved(ss, m, e, at), f(m - 1), f(Down(m - 1)))
        BY <4>1, LevelIs
      <4> QED BY <4>1, <4>2, <4>3
    <3>3. Outcomes(g) /\ Outcomes(h) /\ Outcomes(u) /\ Outcomes(w) /\ Agree(g, h) /\ Agree(u, w)
      BY <2>2, <2>3, <2>4
    <3>4. res # TooDeep
      BY <2>5
    <3> HIDE DEF res, more, g, h, u, w
    <3>5. more = res
      BY <3>1, <3>2, <3>3, <3>4, StepAgrees
    <3> QED BY <3>5 DEF res, more
  <2> QED BY <2>5 DEF Agree
<1>3. Levels \subseteq G
  <2> HIDE DEF G
  <2> QED BY <1>1, <1>2, LevelInduction
<1> QED BY <1>3

LEMMA HigherLevelsAgree ==
  ASSUME NEW ss \in Seq(Statement), NEW n \in Levels
  PROVE  \A m \in Levels : n <= m => Agree(Resolver(ss, {})[n], Resolver(ss, {})[m])
<1> DEFINE f(k) == Resolver(ss, {})[k]
           T == {k \in Nat : n + k \in Levels => Agree(f(n), f(n + k))}
<1>0. n \in Nat
  BY RegisterAstAssumption DEF Levels
<1>1. 0 \in T
  <2>1. n + 0 = n
    BY <1>0
  <2>2. Agree(f(n), f(n))
    BY DEF Agree
  <2> QED BY <2>1, <2>2
<1>2. ASSUME NEW k \in Nat, k \in T PROVE k + 1 \in T
  <2> SUFFICES ASSUME n + (k + 1) \in Levels PROVE Agree(f(n), f(n + (k + 1)))
    OBVIOUS
  <2>1. n + k \in Levels /\ n + (k + 1) = n + k + 1
    BY <1>0, RegisterAstAssumption DEF Levels
  <2>2. Agree(f(n), f(n + k))
    BY <1>2, <2>1
  <2>3. Agree(f(n + k), f(n + k + 1))
    BY <2>1, NextLevelAgrees
  <2>4. Agree(f(n), f(n + k + 1))
    BY <2>2, <2>3 DEF Agree
  <2> QED BY <2>1, <2>4
<1>3. Nat \subseteq T
  <2> HIDE DEF T
  <2> QED BY <1>1, <1>2, SetInduction
<1>4. ASSUME NEW m \in Levels, n <= m PROVE Agree(f(n), f(m))
  <2>1. m - n \in Nat /\ n + (m - n) = m
    BY <1>0, <1>4, RegisterAstAssumption DEF Levels
  <2> QED BY <1>3, <2>1
<1> QED BY <1>4


-----------------------------------------------------------------------------
(***************************************************************************)
(* The address.  Its terms are added one after the other, each sum reduced *)
(* to a word, and what is absent counts for nothing.                       *)
(***************************************************************************)
LEMMA ModOfProduct ==
  ASSUME NEW m \in Nat \ {0}, NEW a \in Int, NEW b \in Int
  PROVE  (a * (b % m)) % m = (b * a) % m
<1>1. PICK q \in Int : b = m * q + (b % m)
  BY ModQuotient
<1>2. PICK r \in Int : r = b % m
  BY ModRange
<1>3. b * a = m * (q * a) + a * r
  <2>1. b = m * q + r
    BY <1>1, <1>2
  <2>2. b * a = (m * q) * a + r * a
    BY <2>1
  <2> QED BY <2>2
<1>4. a * r = b * a - m * (q * a) /\ b * a \in Int /\ q * a \in Int
  BY <1>3
<1>5. (b * a - m * (q * a)) % m = (b * a) % m
  <2> DEFINE x == b * a
             k == q * a
  <2>1. x \in Int /\ k \in Int
    BY <1>4
  <2> HIDE DEF x, k
  <2>2. (x - m * k) % m = x % m
    BY <2>1, ModShift
  <2> QED BY <2>2 DEF x, k
<1> QED BY <1>2, <1>4, <1>5

Sums(a, x, env) ==
  /\ x \in Int /\ a \in Answers \cup {<<>>}
  /\ a = <<>> => x = 0
  /\ a # <<>> => Computes(a, x % Modulus[64], env)

LEMMA PlusComputes ==
  ASSUME NEW a, NEW x, NEW b, NEW y, NEW env, Sums(a, x, env), Sums(b, y, env)
  PROVE  Sums(Plus(a, b), x + y, env)
<1>0. x \in Int /\ y \in Int /\ Modulus[64] \in Nat \ {0}
  BY WidthFacts DEF Sums
<1>1. CASE a = <<>>
  <2>1. Plus(a, b) = b /\ x + y = y
    BY <1>0, <1>1 DEF Plus, Sums
  <2> QED BY <2>1
<1>2. CASE a # <<>> /\ b = <<>>
  <2>1. Plus(a, b) = a /\ x + y = x
    BY <1>0, <1>2 DEF Plus, Sums
  <2> QED BY <2>1
<1>3. CASE a # <<>> /\ b # <<>>
  <2> DEFINE m == Modulus[64]
             c == (a \o b) \o <<BinaryNode("Add")>>
  <2>1. Computes(a, x % m, env) /\ Computes(b, y % m, env) /\ a \in Answers /\ b \in Answers
    BY <1>3 DEF Sums, Computes
  <2>2. a \in Outcome /\ b \in Outcome /\ a # TooDeep /\ b # TooDeep
    BY <2>1, OperatorNodes
  <2>3. Plus(a, b) # TooDeep
    BY <2>2, PlusIs
  <2>4. Plus(a, b) = c
    BY <1>3, <2>2, <2>3, PlusIs
  <2>5. Computes(c, AnswerBinary("Add", x % m, y % m), env)
    BY <2>1, BinaryComputes DEF BinaryOps
  <2>6. AnswerBinary("Add", x % m, y % m) = ((x % m) + (y % m)) % m
    BY DEF AnswerBinary, EvalBinary
  <2>7. x % m \in Int /\ y % m \in Int
    BY <1>0, ModRange
  <2> HIDE DEF m, c
  <2>8. ((x % m) + (y % m)) % m = (x + y) % m
    <3>1. m \in Nat \ {0}
      BY <1>0 DEF m
    <3>2. ((x % m) + (y % m)) % m = ((x % m) + y) % m
      BY <1>0, <2>7, <3>1, ModOfSum
    <3>3. (x % m) + y = y + (x % m) /\ x + y = y + x
      BY <1>0, <2>7
    <3>4. (y + (x % m)) % m = (y + x) % m
      BY <1>0, <3>1, ModOfSum
    <3> QED BY <3>2, <3>3, <3>4
  <2>9. c \in Answers /\ c # <<>> /\ x + y \in Int
    BY <1>0, <2>5 DEF Computes, Answers
  <2> QED BY <2>4, <2>5, <2>6, <2>8, <2>9 DEF Sums, m
<1> QED BY <1>1, <1>2, <1>3

LEMMA WordIsRemainder ==
  \A x \in Word : x \in Int /\ x % Modulus[64] = x
<1> SUFFICES ASSUME NEW x \in Word PROVE x \in Int /\ x % Modulus[64] = x
  OBVIOUS
<1>1. PICK m \in Nat \ {0} : m = Modulus[64]
  BY WidthFacts
<1>2. x \in 0..(m - 1)
  BY <1>1, WordIsLow
<1> QED BY <1>1, <1>2, ModSmall

LEMMA AddressComputes ==
  ASSUME NEW mv \in MemoryValue, NEW at \in Nat, NEW f, NEW env, NEW before \in Env,
         \A v \in Terms(mv) : Computes(f[v][at], before.reg[v.reg], env)
  PROVE  Computes(ResolveAddress(mv, at, f), Address(mv, before), env)
<1> DEFINE m == Modulus[64]
           b == RegisterOf(mv.base, before)
           i == RegisterOf(mv.index, before)
           s == mv.scale
           d == mv.displacement
<1>0. /\ m \in Nat \ {0} /\ b \in Int /\ i \in Int /\ s \in Int /\ d \in Int
      /\ Address(mv, before) = (b + s * i + d) % m
  BY WidthFacts, AddressType DEF Address
<1>1. \A n \in Int : Computes(<<ImmV(n)>>, n % m, env)
  <2> SUFFICES ASSUME NEW n \in Int PROVE Computes(<<ImmV(n)>>, n % m, env)
    OBVIOUS
  <2>1. ImmV(n) \in ImmValue /\ ImmV(n).value = n % m
    BY ImmediateType DEF ImmV
  <2> QED BY <2>1, LeavesCompute
<1>2. \A v \in Terms(mv) : /\ before.reg[v.reg] \in Word /\ v.kind = "reg"
                           /\ RegisterOf(v, before) = before.reg[v.reg]
  BY TermsAreRegisters DEF RegValue, Env, RegisterOf
<1>3. \A a, x : Computes(a, x, env) => a \in Answers /\ a # <<>>
  BY DEF Computes, Answers
<1>4. Sums(Base(mv, at, f), b, env)
  <2>1. CASE mv.base = NullValue
    BY <2>1 DEF Sums, Base, RegisterOf, NullValue
  <2>2. CASE mv.base # NullValue
    <3>1. mv.base \in Terms(mv) /\ Base(mv, at, f) = f[mv.base][at]
      BY <2>2 DEF Terms, Base
    <3>2. b = before.reg[mv.base.reg] /\ b % m = b
      BY <1>2, <3>1, WordIsRemainder
    <3> QED BY <1>0, <1>3, <3>1, <3>2 DEF Sums
  <2> QED BY <2>1, <2>2
<1>5. Sums(Index(mv, at, f), s * i, env)
  <2>1. CASE mv.index = NullValue
    <3>1. Index(mv, at, f) = <<>> /\ i = 0
      BY <2>1 DEF Index, RegisterOf, NullValue
    <3>2. s * i = 0
      BY <1>0, <3>1
    <3> QED BY <3>1, <3>2 DEF Sums
  <2>2. CASE mv.index # NullValue
    <3> DEFINE x == f[mv.index][at]
    <3>1. mv.index \in Terms(mv)
      BY <2>2 DEF Terms
    <3>2. i = before.reg[mv.index.reg] /\ i % m = i
      BY <1>2, <3>1, WordIsRemainder
    <3>3. Computes(x, i, env) /\ s * i \in Int
      BY <1>0, <3>1, <3>2
    <3>4. CASE s = 1
      <4>1. Index(mv, at, f) = x /\ s * i = i
        BY <1>0, <2>2, <3>4 DEF Index
      <4> QED BY <1>3, <3>2, <3>3, <4>1 DEF Sums
    <3>5. CASE s # 1
      <4> DEFINE k == <<ImmV(s)>>
                 c == <<BinaryNode("Mul")>>
      <4>1. Index(mv, at, f) = Joined(Joined(x, k), c)
        BY <2>2, <3>5 DEF Index
      <4>2. Computes(k, s % m, env)
        BY <1>0, <1>1
      <4>3. Computes((x \o k) \o c, AnswerBinary("Mul", i, s % m), env)
        BY <3>3, <4>2, BinaryComputes
      <4>4. AnswerBinary("Mul", i, s % m) = (i * (s % m)) % m
        BY DEF AnswerBinary
      <4>5. (i * (s % m)) % m = (s * i) % m
        <5> HIDE DEF m, i, s
        <5> QED BY <1>0, ModOfProduct
      <4>6. x \in Answers /\ k \in Answers /\ c \in Answers
        BY <1>3, <3>3, <4>2, OperatorNodes
      <4> HIDE DEF x, k, c
      <4>7. x \in Outcome /\ k \in Outcome /\ x # TooDeep /\ k # TooDeep
        BY <4>6, OperatorNodes
      <4>8. Joined(Joined(x, k), c) = (x \o k) \o c
        BY <4>6, <4>7, JoinedThree
      <4> QED BY <1>3, <3>3, <4>1, <4>3, <4>4, <4>5, <4>8 DEF Sums
    <3> QED BY <3>4, <3>5
  <2> QED BY <2>1, <2>2
<1>6. Sums(Displacement(mv), d, env)
  BY <1>0, <1>1, <1>3 DEF Sums, Displacement
<1> DEFINE sum == Plus(Plus(Base(mv, at, f), Index(mv, at, f)), Displacement(mv))
           total == (b + s * i) + d
<1>7. Sums(sum, total, env)
  <2>1. Sums(Plus(Base(mv, at, f), Index(mv, at, f)), b + s * i, env)
    BY <1>4, <1>5, PlusComputes
  <2> QED BY <1>6, <2>1, PlusComputes
<1>8. ResolveAddress(mv, at, f) = IF sum = <<>> THEN <<ImmV(0)>> ELSE sum
  BY DEF ResolveAddress
<1>9. Address(mv, before) = total % m
  BY <1>0
<1>10. Computes(<<ImmV(0)>>, 0 % m, env)
  BY <1>1
<1> HIDE DEF sum, total, m
<1> QED BY <1>7, <1>8, <1>9, <1>10 DEF Sums, m


-----------------------------------------------------------------------------
(***************************************************************************)
(* What a stream computes within the limits: each statement writes one     *)
(* whole word, and every word it does not write is kept.                   *)
(***************************************************************************)
Rotates == {"Rcr", "Rcl"}

Legal(ss, env) == Stream(ss) /\ env \in Env /\ Within(ss, env)

Wide(e) == \A v \in ValuesIn(e) : IsWide(v)

\* An expression that is resolved on the way to the value of statement at.
Part(ss, e, at) ==
  /\ e \in Expression /\ Nestable(e)
  /\ e.kind = "bin" => e.op \notin Rotates
  /\ e.kind # "reg" => Wide(e) /\ \A v \in ValuesIn(e) : v.kind = "mem" => v \in LoadsOf(ss[at])

ValueAt(e, env) == IF e.kind = "reg" THEN env.reg[e.reg] ELSE Eval(e, env)

LEMMA WideValue ==
  ASSUME NEW env \in Env, NEW v \in Value, IsWide(v)
  PROVE  /\ EvalValue(v, env) \in Word /\ WidthOf(v) = 64
         /\ v.kind = "reg" => EvalValue(v, env) = env.reg[v.reg]
         /\ v.kind = "imm" => EvalValue(v, env) = v.value
         /\ v.kind = "mem" => /\ EvalValue(v, env) = env.mem[Address(v, env)]
                              /\ Address(v, env) \in Word
<1>1. \A x \in Word : Low(x, 64) = x
  BY WordIsRemainder DEF Low
<1>2. CASE v \in RegValue
  <2>1. v.kind = "reg" /\ v.width = 64 /\ env.reg[v.reg] \in Word
    BY <1>2 DEF RegValue, Env, IsWide
  <2> QED BY <1>1, <2>1 DEF EvalValue, WidthOf
<1>3. CASE v \in ImmValue
  BY <1>3 DEF ImmValue, EvalValue, WidthOf
<1>4. CASE v \in MemoryValue
  <2>1. v.kind = "mem" /\ v.size = 8 /\ Address(v, env) \in Word
    BY <1>4, AddressType DEF MemoryValue, IsWide
  <2>2. env.mem[Address(v, env)] \in Word
    BY <2>1 DEF Env
  <2>3. 8 * v.size = 64
    BY <2>1
  <2> QED BY <1>1, <2>1, <2>2, <2>3 DEF EvalValue, WidthOf
<1> QED BY <1>2, <1>3, <1>4 DEF Value

LEMMA OperatorsGiveWords ==
  ASSUME NEW a \in Word, NEW b \in Word
  PROVE  /\ \A op \in BinaryOps \ Rotates : EvalBinary(op, a, b, Modulus[64]) \in Word
         /\ \A op \in UnaryOps : EvalUnary(op, a, Modulus[64]) \in Word
<1>1. PICK m \in Nat \ {0, 1} : m = Modulus[64]
  BY WidthFacts, ScaleAssumption
<1>2. /\ Word = 0..(m - 1) /\ a \in Int /\ b \in Int /\ a \in 0..(m - 1) /\ b \in 0..(m - 1)
      /\ m \in Nat \ {0} /\ 0 \in Word /\ 1 \in Word
  BY <1>1 DEF Word
<1>3. /\ (a + b) % m \in Word /\ (a - b) % m \in Word /\ (-a) % m \in Word /\ b % m \in 0..(m - 1)
  <2>1. a + b \in Int /\ a - b \in Int /\ -a \in Int
    BY <1>2
  <2>2. \A n \in Int : n % m \in Word
    BY <1>2, ModRange
  <2>3. b % m \in 0..(m - 1)
    BY <1>2, ModRange
  <2> QED BY <2>1, <2>2, <2>3
<1>4. XorWord(a, b % m) \in Word
  BY <1>1, <1>2, <1>3, XorAssumption, WidthFacts
<1>5. a \div 2 \in Word /\ m - 1 - a \in Word
  BY <1>2
<1>6. \A c \in BOOLEAN : Holds(c) \in Word
  BY <1>2 DEF Holds
<1>7. /\ \A op \in BinaryOps \ Rotates : EvalBinary(op, a, b, m) \in Word
      /\ \A op \in UnaryOps : EvalUnary(op, a, m) \in Word
  <2>1. /\ EvalBinary("Add", a, b, m) = (a + b) % m
        /\ EvalBinary("Sub", a, b, m) = (a - b) % m
        /\ EvalBinary("BitXor", a, b, m) = XorWord(a, b % m)
        /\ EvalBinary("Shr", a, b, m) = a \div 2
        /\ EvalUnary("Neg", a, m) = (-a) % m
        /\ EvalUnary("LogicalNot", a, m) = m - 1 - a
    BY DEF EvalBinary, EvalUnary
  <2>2. ASSUME NEW op \in {"Eq", "Ne", "Lt", "Le", "Gt", "Ge"}
        PROVE  \E c \in BOOLEAN : EvalBinary(op, a, b, m) = Holds(c)
    <3>1. /\ EvalBinary("Eq", a, b, m) = Holds(a = b)
          /\ EvalBinary("Ne", a, b, m) = Holds(a # b)
      BY DEF EvalBinary
    <3>2. /\ EvalBinary("Lt", a, b, m) = Holds(a < b)
          /\ EvalBinary("Le", a, b, m) = Holds(a <= b)
          /\ EvalBinary("Gt", a, b, m) = Holds(a > b)
          /\ EvalBinary("Ge", a, b, m) = Holds(a >= b)
      BY DEF EvalBinary
    <3>3. (a = b) \in BOOLEAN /\ (a # b) \in BOOLEAN /\ (a < b) \in BOOLEAN
          /\ (a <= b) \in BOOLEAN /\ (a > b) \in BOOLEAN /\ (a >= b) \in BOOLEAN
      BY <1>2
    <3> QED BY <3>1, <3>2, <3>3
  <2>3. ASSUME NEW op \in {"Eq", "Ne", "Lt", "Le", "Gt", "Ge"}
        PROVE  EvalBinary(op, a, b, m) \in Word
    BY <1>6, <2>2
  <2>4. \A op \in {"Add", "Sub", "BitXor", "Shr"} : EvalBinary(op, a, b, m) \in Word
    BY <1>3, <1>4, <1>5, <2>1
  <2>5. \A op \in {"Neg", "LogicalNot"} : EvalUnary(op, a, m) \in Word
    BY <1>3, <1>5, <2>1
  <2>6. BinaryOps \ Rotates = {"Add", "Sub", "BitXor", "Shr"} \cup
                              {"Eq", "Ne", "Lt", "Le", "Gt", "Ge"}
    BY DEF BinaryOps, Rotates
  <2> QED BY <2>3, <2>4, <2>5, <2>6 DEF UnaryOps
<1> QED BY <1>1, <1>7

\* An operator computes on words as the nodes of an answer do.
LEMMA WideEval ==
  ASSUME NEW env \in Env, NEW e \in Expression, Nestable(e), Wide(e),
         e.kind = "bin" => e.op \notin Rotates
  PROVE  /\ Eval(e, env) \in Word
         /\ e.kind = "un" => Eval(e, env) = AnswerUnary(e.op, Eval(e.operand, env), env)
         /\ e.kind = "bin" => Eval(e, env) = AnswerBinary(e.op, Eval(e.left, env), Eval(e.right, env))
         /\ e.kind = "cond" => Eval(e, env) = IF Eval(e.condition, env) = 1
                                              THEN Eval(e.true_expr, env) ELSE Eval(e.false_expr, env)
<1> DEFINE M == Modulus[64]
<1>1. \A v \in Value : v.kind \in {"reg", "imm", "mem"} /\ Eval(v, env) = EvalValue(v, env)
  BY ExpressionKinds, ValuesAreExpressions DEF Eval, EvalFlat
<1>2. ASSUME NEW x \in FlatExpression, \A v \in FlatValues(x) : IsWide(v),
             x.kind = "bin" => x.op \notin Rotates
      PROVE  /\ EvalFlat(x, env) \in Word /\ Eval(x, env) = EvalFlat(x, env)
             /\ x.kind = "un" => EvalFlat(x, env) = AnswerUnary(x.op, Eval(x.operand, env), env)
             /\ x.kind = "bin" =>
                  EvalFlat(x, env) = AnswerBinary(x.op, Eval(x.left, env), Eval(x.right, env))
  <2>0. x \in Expression /\ x.kind # "cond"
    BY <1>2, ExpressionKinds, ValuesAreExpressions
  <2>1. CASE x \in Value
    <3>1. x.kind \in {"reg", "imm", "mem"} /\ FlatValues(x) = {x}
      BY <1>1, <2>1 DEF FlatValues
    <3> QED BY <1>1, <1>2, <2>1, <3>1, WideValue DEF Eval, EvalFlat
  <2>2. CASE x.kind = "un"
    <3>1. x.op \in UnaryOps /\ x.operand \in Value /\ FlatValues(x) = {x.operand}
      BY <2>0, <2>2, ExpressionKinds DEF FlatValues
    <3>2. EvalValue(x.operand, env) \in Word /\ WidthOf(x.operand) = 64
      BY <1>2, <3>1, WideValue
    <3>3. EvalFlat(x, env) = EvalUnary(x.op, EvalValue(x.operand, env), M)
      BY <2>2, <3>2 DEF EvalFlat
    <3>4. x.op # "Load"
      BY <3>1 DEF UnaryOps
    <3>5. EvalFlat(x, env) \in Word
      BY <3>1, <3>2, <3>3, OperatorsGiveWords
    <3> QED BY <1>1, <2>0, <2>2, <3>1, <3>3, <3>4, <3>5 DEF AnswerUnary, Eval
  <2>3. CASE x.kind = "bin"
    <3>1. x.op \in BinaryOps /\ x.left \in Value /\ x.right \in Value /\ FlatValues(x) = {x.left, x.right}
      BY <2>0, <2>3, ExpressionKinds DEF FlatValues
    <3>2. EvalValue(x.left, env) \in Word /\ EvalValue(x.right, env) \in Word /\ WidthOf(x.left) = 64
      BY <1>2, <3>1, WideValue
    <3>3. EvalFlat(x, env) = EvalBinary(x.op, EvalValue(x.left, env), EvalValue(x.right, env), M)
      BY <2>3, <3>2 DEF EvalFlat
    <3>4. x.op # "Mul" /\ x.op \in BinaryOps \ Rotates
      BY <1>2, <2>3, <3>1 DEF BinaryOps
    <3>5. EvalFlat(x, env) \in Word
      BY <3>2, <3>3, <3>4, OperatorsGiveWords
    <3> QED BY <1>1, <2>0, <2>3, <3>1, <3>3, <3>4, <3>5 DEF AnswerBinary, Eval
  <2> QED BY <2>0, <2>1, <2>2, <2>3, ExpressionKinds
<1>3. CASE e.kind # "cond"
  <2>1. e \in FlatExpression /\ ValuesIn(e) = FlatValues(e)
    BY <1>3, ExpressionKinds DEF ValuesIn
  <2> QED BY <1>2, <1>3, <2>1 DEF Wide
<1>4. CASE e.kind = "cond"
  <2>1. /\ e.condition \in FlatExpression /\ e.true_expr \in FlatExpression
        /\ e.false_expr \in FlatExpression
    BY <1>4, ExpressionKinds
  <2>2. /\ \A v \in FlatValues(e.condition) : IsWide(v)
        /\ \A v \in FlatValues(e.true_expr) : IsWide(v)
        /\ \A v \in FlatValues(e.false_expr) : IsWide(v)
    BY <1>4 DEF Wide, ValuesIn
  <2>3. L!IsTarget(e)
    BY <1>4 DEF Nestable
  <2>4. /\ e.condition.kind = "bin" /\ e.condition.op \notin Rotates
        /\ e.true_expr.kind = "imm"
        /\ e.false_expr.kind = "bin" /\ e.false_expr.op \notin Rotates
    BY <2>3 DEF L!IsTarget, L!OverImmediate, Rotates
  <2>5. /\ EvalFlat(e.condition, env) \in Word /\ Eval(e.condition, env) = EvalFlat(e.condition, env)
        /\ EvalFlat(e.true_expr, env) \in Word /\ Eval(e.true_expr, env) = EvalFlat(e.true_expr, env)
        /\ EvalFlat(e.false_expr, env) \in Word /\ Eval(e.false_expr, env) = EvalFlat(e.false_expr, env)
    BY <1>2, <2>1, <2>2, <2>4
  <2>6. Eval(e, env) = IF EvalFlat(e.condition, env) = 1
                       THEN EvalFlat(e.true_expr, env) ELSE EvalFlat(e.false_expr, env)
    BY <1>4 DEF Eval
  <2> QED BY <1>4, <2>5, <2>6
<1> QED BY <1>3, <1>4

LEMMA StatementIsPart ==
  ASSUME NEW ss, NEW env, Legal(ss, env), NEW k \in 1..Len(ss)
  PROVE  /\ Part(ss, ss[k].value, k) /\ Wide(ss[k].value) /\ IsWide(Destination(ss[k]))
         /\ Nestable(ss[k].value) /\ ss[k].value \in Expression
         /\ ss[k].value.kind = "bin" => ss[k].value.op \notin Rotates
         /\ ss[k].kind = "assign" => ss[k].dst \in RegValue /\ ss[k].dst.reg # "RFLAGS"
<1>1. ss \in Seq(Statement) /\ k \in DOMAIN ss /\ Nestable(ss[k].value) /\ ss[k].value \in Expression
  BY StatementParts DEF Legal, Stream
<1>2. Wide(ss[k].value) /\ IsWide(Destination(ss[k]))
  BY <1>1 DEF Legal, Within, ButForNeg, WholeWords, Wide
<1>3. ss[k].value.kind = "bin" => ss[k].value.op \notin Rotates
  BY <1>1 DEF Legal, Within, ButForNeg, NoRotate, IsRotate, Rotates
<1>4. ASSUME ss[k].kind = "assign" PROVE ss[k].dst \in RegValue /\ ss[k].dst.reg # "RFLAGS"
  <2>1. ss[k].dst \in Value /\ ss[k].dst.kind = "reg"
    BY <1>1, <1>4, StatementParts DEF Legal, Within, NoMemoryAssign
  <2>2. ~Defines(ss[k], "RFLAGS")
    BY <1>1 DEF Legal, Within, ButForNeg, NoFlagsAssign
  <2> QED BY <1>4, <2>1, <2>2, ExpressionKinds, ValuesAreExpressions DEF Defines
<1> QED BY <1>1, <1>2, <1>3, <1>4 DEF Part, LoadsOf

LEMMA BeforeIs ==
  ASSUME NEW ss \in Seq(Statement), NEW env
  PROVE  /\ Before(ss, 1, env) = env
         /\ Before(ss, Len(ss) + 1, env) = RunIR(ss, env)
         /\ \A k \in 1..Len(ss) :
              Before(ss, k + 1, env) = ExecStatement(ss[k], Before(ss, k, env))
<1>1. SubSeq(ss, 1, 0) = <<>> /\ SubSeq(ss, 1, Len(ss)) = ss /\ Len(ss) \in Nat
  OBVIOUS
<1>2. /\ 1 - 1 = 0 /\ (Len(ss) + 1) - 1 = Len(ss)
      /\ \A k \in 1..Len(ss) : (k + 1) - 1 = k
  BY <1>1
<1>3. \A n, k : n - 1 = k => Before(ss, n, env) = RunIR(SubSeq(ss, 1, k), env)
  BY DEF Before
<1>4. Before(ss, 1, env) = env
  BY <1>1, <1>2, <1>3, RunIRNothing
<1>5. Before(ss, Len(ss) + 1, env) = RunIR(ss, env)
  BY <1>1, <1>2, <1>3
<1>6. ASSUME NEW k \in 1..Len(ss)
      PROVE  Before(ss, k + 1, env) = ExecStatement(ss[k], Before(ss, k, env))
  <2>1. RunIR(SubSeq(ss, 1, k), env) = ExecStatement(ss[k], RunIR(SubSeq(ss, 1, k - 1), env))
    BY RunIRStep
  <2>2. Before(ss, k + 1, env) = RunIR(SubSeq(ss, 1, k), env)
    BY <1>2, <1>3
  <2>3. Before(ss, k, env) = RunIR(SubSeq(ss, 1, k - 1), env)
    BY DEF Before
  <2> QED BY <2>1, <2>2, <2>3
<1> QED BY <1>4, <1>5, <1>6

\* One statement.
LEMMA StatementWrites ==
  ASSUME NEW ss, NEW env, Legal(ss, env), NEW k \in 1..Len(ss), Before(ss, k, env) \in Env
  PROVE  LET before == Before(ss, k, env)
             after == Before(ss, k + 1, env)
             x == Eval(ss[k].value, before)
         IN /\ after \in Env /\ x \in Word
            /\ \A r \in Reg : after.reg[r] = IF Defines(ss[k], r) THEN x ELSE before.reg[r]
            /\ ss[k].kind = "assign" => after.mem = before.mem
            /\ ss[k].kind = "store" =>
                 \A a \in Word : after.mem[a] = IF a = Address(ss[k].address, before)
                                                THEN x ELSE before.mem[a]
<1> DEFINE s == ss[k]
           before == Before(ss, k, env)
           after == Before(ss, k + 1, env)
           x == Eval(s.value, before)
<1>1. ss \in Seq(Statement) /\ before \in Env
  BY DEF Legal, Stream
<1>2. s \in Statement /\ s.kind \in {"assign", "store"}
      /\ (s.kind = "store" => s.address \in MemoryValue)
  BY <1>1, StatementParts
<1>3. after = Written(Destination(s), x, before)
  BY <1>1, BeforeIs DEF ExecStatement
<1>4. /\ IsWide(Destination(s)) /\ Wide(s.value) /\ Nestable(s.value) /\ s.value \in Expression
      /\ s.value.kind = "bin" => s.value.op \notin Rotates
      /\ s.kind = "assign" => s.dst \in RegValue /\ s.dst.reg # "RFLAGS"
  BY StatementIsPart
<1>5. x \in Word
  BY <1>1, <1>4, WideEval
<1> HIDE DEF s, before, after, x
<1>6. x \in Int
  BY <1>5, WordIsRemainder
<1>7. CASE s.kind = "assign"
  <2> DEFINE d == s.dst
             n == WrittenReg(before.reg[d.reg], Low(x, d.width), d.width)
  <2>1. d \in RegValue /\ d.reg # "RFLAGS" /\ d.width = 64 /\ Destination(s) = d /\ d.kind = "reg"
        /\ d.reg \in Reg
    BY <1>4, <1>7 DEF Destination, IsWide, RegValue
  <2>2. n \in Word /\ before.reg[d.reg] \in Word
        /\ Written(d, x, before) = [before EXCEPT !.reg[d.reg] = Held(d.reg, n)]
        /\ Written(d, x, before) \in Env
    BY <1>1, <1>6, <2>1, WrittenToReg
  <2>3. n = x
    BY <1>5, <2>1, <2>2, WholeWord
  <2>4. after = [before EXCEPT !.reg[d.reg] = x] /\ after \in Env
    BY <1>3, <2>1, <2>2, <2>3 DEF Held
  <2>5. before.reg \in [Reg -> Word] /\ before = [reg |-> before.reg, mem |-> before.mem]
    BY <1>1 DEF Env
  <2>6. \A r \in Reg : Defines(s, r) <=> r = d.reg
    BY <1>7, <2>1 DEF Defines
  <2>7. \A r \in Reg : after.reg[r] = IF r = d.reg THEN x ELSE before.reg[r]
    BY <2>4, <2>5
  <2>8. after.mem = before.mem
    BY <2>4, <2>5
  <2> HIDE DEF d, n
  <2>9. /\ after \in Env /\ x \in Word
        /\ \A r \in Reg : after.reg[r] = IF Defines(s, r) THEN x ELSE before.reg[r]
        /\ after.mem = before.mem
    BY <1>5, <2>4, <2>6, <2>7, <2>8
  <2> QED BY <1>7, <2>9 DEF s, before, after, x
<1>8. CASE s.kind = "store"
  <2> DEFINE d == s.address
             a == Address(d, before)
             n == Narrowed(before.mem[a], Low(x, WidthOf(d)), WidthOf(d))
  <2>1. d \in MemoryValue /\ d.size = 8 /\ Destination(s) = d /\ d.kind = "mem"
    BY <1>2, <1>4, <1>8 DEF Destination, IsWide, MemoryValue
  <2>2. WidthOf(d) = 64
    BY <2>1 DEF WidthOf
  <2>3. a \in Word /\ n \in Word /\ before.mem[a] \in Word
        /\ Written(d, x, before) = [before EXCEPT !.mem[a] = n] /\ Written(d, x, before) \in Env
    <3> HIDE DEF d
    <3> QED BY <1>1, <1>6, <2>1, WrittenToMem
  <2>4. n = x
    BY <1>5, <2>2, <2>3, WholeWord
  <2>5. after = [before EXCEPT !.mem[a] = x] /\ after \in Env
    BY <1>3, <2>1, <2>3, <2>4
  <2>6. before.mem \in [Word -> Word] /\ before = [reg |-> before.reg, mem |-> before.mem]
    BY <1>1 DEF Env
  <2>7. \A b \in Word : after.mem[b] = IF b = a THEN x ELSE before.mem[b]
    BY <2>5, <2>6
  <2>8. after.reg = before.reg
    BY <2>5, <2>6
  <2>9. \A r \in Reg : ~Defines(s, r)
    BY <1>8 DEF Defines
  <2> HIDE DEF n
  <2> QED BY <1>5, <1>8, <2>5, <2>7, <2>8, <2>9 DEF s, before, after, x
<1> QED BY <1>2, <1>7, <1>8

LEMMA BeforeType ==
  ASSUME NEW ss, NEW env, Legal(ss, env)
  PROVE  \A k \in 1..(Len(ss) + 1) : Before(ss, k, env) \in Env
<1> DEFINE T == {n \in Nat : n + 1 <= Len(ss) + 1 => Before(ss, n + 1, env) \in Env}
<1>1. ss \in Seq(Statement) /\ Len(ss) \in Nat /\ env \in Env
  BY DEF Legal, Stream
<1>2. 0 \in T
  <2>1. 0 + 1 = 1
    OBVIOUS
  <2> QED BY <1>1, <2>1, BeforeIs
<1>3. ASSUME NEW n \in Nat, n \in T PROVE n + 1 \in T
  <2> SUFFICES ASSUME (n + 1) + 1 <= Len(ss) + 1 PROVE Before(ss, (n + 1) + 1, env) \in Env
    OBVIOUS
  <2> DEFINE k == n + 1
  <2>1. k \in 1..Len(ss) /\ Before(ss, k, env) \in Env
    BY <1>1, <1>3
  <2> HIDE DEF k
  <2>2. Before(ss, k + 1, env) \in Env
    BY <2>1, StatementWrites
  <2> QED BY <2>2 DEF k
<1>4. Nat \subseteq T
  <2> HIDE DEF T
  <2> QED BY <1>2, <1>3, SetInduction
<1>5. ASSUME NEW k \in 1..(Len(ss) + 1) PROVE Before(ss, k, env) \in Env
  <2>1. k - 1 \in Nat /\ (k - 1) + 1 = k
    BY <1>1
  <2>2. k - 1 \in T
    BY <1>4, <2>1
  <2>3. (k - 1) + 1 <= Len(ss) + 1 => Before(ss, (k - 1) + 1, env) \in Env
    BY <2>2
  <2> QED BY <1>1, <2>1, <2>3
<1> QED BY <1>5

\* What no statement in between writes is kept.
LEMMA RegisterKept ==
  ASSUME NEW ss, NEW env, Legal(ss, env), NEW r \in Reg, NEW k \in 1..(Len(ss) + 1)
  PROVE  \A at \in 1..(Len(ss) + 1) :
           k <= at /\ (\A j \in 1..Len(ss) : k <= j /\ j < at => ~Defines(ss[j], r))
             => Before(ss, at, env).reg[r] = Before(ss, k, env).reg[r]
<1> DEFINE Kept(at) == (\A j \in 1..Len(ss) : k <= j /\ j < at => ~Defines(ss[j], r))
                         => Before(ss, at, env).reg[r] = Before(ss, k, env).reg[r]
           T == {n \in Nat : k + n <= Len(ss) + 1 => Kept(k + n)}
<1>1. Len(ss) \in Nat /\ k \in Nat
  BY DEF Legal, Stream
<1>2. 0 \in T
  <2>1. k + 0 = k
    BY <1>1
  <2> QED BY <2>1
<1>3. ASSUME NEW n \in Nat, n \in T PROVE n + 1 \in T
  <2> SUFFICES ASSUME k + (n + 1) <= Len(ss) + 1 PROVE Kept(k + (n + 1))
    OBVIOUS
  <2> DEFINE m == k + n
  <2>1. m \in 1..Len(ss) /\ k + (n + 1) = m + 1 /\ m \in 1..(Len(ss) + 1) /\ k <= m
    BY <1>1
  <2>2. Kept(m)
    BY <1>1, <1>3
  <2> HIDE DEF m
  <2>3. Before(ss, m, env) \in Env
    BY <2>1, BeforeType
  <2>4. Before(ss, m + 1, env).reg[r] = IF Defines(ss[m], r) THEN Eval(ss[m].value, Before(ss, m, env))
                                        ELSE Before(ss, m, env).reg[r]
    BY <2>1, <2>3, StatementWrites
  <2>5. Kept(m + 1)
    <3> SUFFICES ASSUME \A j \in 1..Len(ss) : k <= j /\ j < m + 1 => ~Defines(ss[j], r)
                 PROVE  Before(ss, m + 1, env).reg[r] = Before(ss, k, env).reg[r]
      OBVIOUS
    <3>1. \A j \in 1..Len(ss) : j < m => j < m + 1
      BY <2>1
    <3>2. m < m + 1
      BY <2>1
    <3> QED BY <2>1, <2>2, <2>4, <3>1, <3>2
  <2> QED BY <2>1, <2>5
<1>4. Nat \subseteq T
  <2> HIDE DEF T
  <2> QED BY <1>2, <1>3, SetInduction
<1>5. ASSUME NEW at \in 1..(Len(ss) + 1), k <= at PROVE Kept(at)
  <2>1. at - k \in Nat /\ k + (at - k) = at
    BY <1>1, <1>5
  <2>2. at - k \in T
    BY <1>4, <2>1
  <2>3. k + (at - k) <= Len(ss) + 1 => Kept(k + (at - k))
    BY <2>2
  <2> QED BY <1>1, <2>1, <2>3
<1> QED BY <1>5

LEMMA CellKept ==
  ASSUME NEW ss, NEW env, Legal(ss, env), NEW a \in Word, NEW k \in 1..(Len(ss) + 1)
  PROVE  \A at \in 1..(Len(ss) + 1) :
           /\ k <= at
           /\ \A j \in 1..Len(ss) : k <= j /\ j < at /\ ss[j].kind = "store"
                                      => Address(ss[j].address, Before(ss, j, env)) # a
           => Before(ss, at, env).mem[a] = Before(ss, k, env).mem[a]
<1> DEFINE Apart(at) == \A j \in 1..Len(ss) : k <= j /\ j < at /\ ss[j].kind = "store"
                                                => Address(ss[j].address, Before(ss, j, env)) # a
           Kept(at) == Apart(at) => Before(ss, at, env).mem[a] = Before(ss, k, env).mem[a]
           T == {n \in Nat : k + n <= Len(ss) + 1 => Kept(k + n)}
<1>1. Len(ss) \in Nat /\ k \in Nat /\ ss \in Seq(Statement)
  BY DEF Legal, Stream
<1>2. 0 \in T
  <2>1. k + 0 = k
    BY <1>1
  <2> QED BY <2>1
<1>3. ASSUME NEW n \in Nat, n \in T PROVE n + 1 \in T
  <2> SUFFICES ASSUME k + (n + 1) <= Len(ss) + 1 PROVE Kept(k + (n + 1))
    OBVIOUS
  <2> DEFINE m == k + n
  <2>1. m \in 1..Len(ss) /\ k + (n + 1) = m + 1 /\ m \in 1..(Len(ss) + 1) /\ k <= m
    BY <1>1
  <2>2. Kept(m)
    BY <1>1, <1>3
  <2> HIDE DEF m
  <2>3. Before(ss, m, env) \in Env /\ ss[m].kind \in {"assign", "store"}
    BY <1>1, <2>1, BeforeType, StatementParts
  <2>4. /\ ss[m].kind = "assign" => Before(ss, m + 1, env).mem = Before(ss, m, env).mem
        /\ ss[m].kind = "store" =>
             Before(ss, m + 1, env).mem[a] = IF a = Address(ss[m].address, Before(ss, m, env))
                                             THEN Eval(ss[m].value, Before(ss, m, env))
                                             ELSE Before(ss, m, env).mem[a]
    BY <2>1, <2>3, StatementWrites
  <2>5. Kept(m + 1)
    <3> SUFFICES ASSUME Apart(m + 1)
                 PROVE  Before(ss, m + 1, env).mem[a] = Before(ss, k, env).mem[a]
      OBVIOUS
    <3>1. \A j \in 1..Len(ss) : j < m => j < m + 1
      BY <2>1
    <3>2. m < m + 1
      BY <2>1
    <3>3. Apart(m)
      BY <3>1
    <3>4. ss[m].kind = "store" => Address(ss[m].address, Before(ss, m, env)) # a
      BY <2>1, <3>2
    <3> QED BY <2>2, <2>3, <2>4, <3>3, <3>4
  <2> QED BY <2>1, <2>5
<1>4. Nat \subseteq T
  <2> HIDE DEF T
  <2> QED BY <1>2, <1>3, SetInduction
<1>5. ASSUME NEW at \in 1..(Len(ss) + 1), k <= at PROVE Kept(at)
  <2>1. at - k \in Nat /\ k + (at - k) = at
    BY <1>1, <1>5
  <2>2. at - k \in T
    BY <1>4, <2>1
  <2>3. k + (at - k) <= Len(ss) + 1 => Kept(k + (at - k))
    BY <2>2
  <2> QED BY <1>1, <2>1, <2>3
<1> QED BY <1>5

-----------------------------------------------------------------------------
(***************************************************************************)
(* Resolved expressions compute what they stand for.                       *)
(***************************************************************************)
Meets(ss, env, n) ==
  \A at \in 1..Len(ss) : \A e \in Expression :
    Part(ss, e, at) /\ Resolved(ss, n, e, at) # TooDeep
      => Computes(Resolved(ss, n, e, at), ValueAt(e, Before(ss, at, env)), env)

\* The operands of a part are parts, and the registers of an address are.
LEMMA PartsOf ==
  ASSUME NEW ss, NEW at, NEW e, Part(ss, e, at), NEW before \in Env
  PROVE  /\ e.kind = "mem" => e \in MemoryValue /\ e.size = 8 /\ e \in LoadsOf(ss[at])
         /\ e.kind = "un" => /\ Part(ss, e.operand, at)
                             /\ ValueAt(e.operand, before) = Eval(e.operand, before)
         /\ e.kind = "bin" => /\ Part(ss, e.left, at) /\ Part(ss, e.right, at)
                              /\ ValueAt(e.left, before) = Eval(e.left, before)
                              /\ ValueAt(e.right, before) = Eval(e.right, before)
         /\ e.kind = "cond" => /\ Part(ss, e.condition, at) /\ Part(ss, e.true_expr, at)
                               /\ Part(ss, e.false_expr, at)
                               /\ ValueAt(e.condition, before) = Eval(e.condition, before)
                               /\ ValueAt(e.true_expr, before) = Eval(e.true_expr, before)
                               /\ ValueAt(e.false_expr, before) = Eval(e.false_expr, before)
<1>0. e \in Expression /\ Nestable(e)
      /\ (e.kind # "reg" => Wide(e) /\ \A v \in ValuesIn(e) : v.kind = "mem" => v \in LoadsOf(ss[at]))
  BY DEF Part
<1>1. ASSUME NEW x \in Value, IsWide(x), x.kind = "mem" => x \in LoadsOf(ss[at])
      PROVE  Part(ss, x, at) /\ ValueAt(x, before) = Eval(x, before)
  <2>1. x \in Expression /\ x.kind \in {"reg", "imm", "mem"} /\ ValuesIn(x) = {x}
    BY ExpressionKinds, ValuesAreExpressions DEF ValuesIn, FlatValues
  <2>2. x.kind = "reg" => Eval(x, before) = before.reg[x.reg]
    BY <1>1, <2>1, WideValue DEF Eval, EvalFlat
  <2> QED BY <1>1, <2>1, <2>2 DEF Part, ValueAt, Nestable, Wide
<1>2. CASE e.kind \in {"reg", "imm"}
  BY <1>2
<1>3. CASE e.kind = "mem"
  <2>1. e \in MemoryValue /\ ValuesIn(e) = {e}
    BY <1>0, <1>3, ExpressionKinds DEF ValuesIn, FlatValues
  <2> QED BY <1>0, <1>3, <2>1 DEF Wide, IsWide
<1>4. CASE e.kind = "un"
  <2>1. e.operand \in Value /\ ValuesIn(e) = {e.operand}
    BY <1>0, <1>4, ExpressionKinds DEF ValuesIn, FlatValues
  <2> QED BY <1>0, <1>1, <1>4, <2>1 DEF Wide
<1>5. CASE e.kind = "bin"
  <2>1. e.left \in Value /\ e.right \in Value /\ ValuesIn(e) = {e.left, e.right}
    BY <1>0, <1>5, ExpressionKinds DEF ValuesIn, FlatValues
  <2> QED BY <1>0, <1>1, <1>5, <2>1 DEF Wide
<1>6. CASE e.kind = "cond"
  <2> DEFINE whole == FlatValues(e.condition) \cup FlatValues(e.true_expr) \cup FlatValues(e.false_expr)
  <2>1. /\ e.condition \in FlatExpression /\ e.true_expr \in FlatExpression
        /\ e.false_expr \in FlatExpression /\ L!IsTarget(e) /\ ValuesIn(e) = whole
    BY <1>0, <1>6, ExpressionKinds DEF ValuesIn, Nestable
  <2>2. /\ e.condition.kind = "bin" /\ e.condition.op \notin Rotates
        /\ e.true_expr.kind = "imm"
        /\ e.false_expr.kind = "bin" /\ e.false_expr.op \notin Rotates
    BY <2>1 DEF L!IsTarget, L!OverImmediate, Rotates
  <2>3. \A v \in whole : IsWide(v) /\ (v.kind = "mem" => v \in LoadsOf(ss[at]))
    BY <1>0, <1>6, <2>1 DEF Wide
  <2>4. ASSUME NEW x \in FlatExpression, FlatValues(x) \subseteq whole,
               x.kind = "bin" => x.op \notin Rotates, x.kind # "reg"
        PROVE  Part(ss, x, at) /\ ValueAt(x, before) = Eval(x, before)
    <3>1. x \in Expression /\ x.kind # "cond" /\ ValuesIn(x) = FlatValues(x)
      BY ExpressionKinds, ValuesAreExpressions DEF ValuesIn
    <3> HIDE DEF whole
    <3> QED BY <2>3, <2>4, <3>1 DEF Part, ValueAt, Nestable, Wide
  <2>5. /\ FlatValues(e.condition) \subseteq whole /\ FlatValues(e.true_expr) \subseteq whole
        /\ FlatValues(e.false_expr) \subseteq whole
    OBVIOUS
  <2> HIDE DEF whole
  <2> QED BY <1>6, <2>1, <2>2, <2>4, <2>5
<1> QED BY <1>0, <1>2, <1>3, <1>4, <1>5, <1>6, ExpressionKinds

LEMMA RegistersAreParts ==
  ASSUME NEW ss, NEW at, NEW v \in RegValue
  PROVE  Part(ss, v, at) /\ v \in Expression /\ \A before : ValueAt(v, before) = before.reg[v.reg]
<1>1. v \in Expression /\ v.kind = "reg"
  BY ValuesAreExpressions DEF RegValue
<1> QED BY <1>1 DEF Part, ValueAt, Nestable

LEMMA DefinitionMeets ==
  ASSUME NEW ss, NEW env, Legal(ss, env), NEW n \in Levels, Meets(ss, env, n),
         NEW k \in 1..Len(ss), Resolved(ss, n, ss[k].value, k) # TooDeep
  PROVE  Computes(Resolved(ss, n, ss[k].value, k), Eval(ss[k].value, Before(ss, k, env)), env)
<1> DEFINE e == ss[k].value
           before == Before(ss, k, env)
<1>1. Part(ss, e, k) /\ Wide(e) /\ e \in Expression
  BY StatementIsPart
<1>2. before \in Env
  <2>1. k \in 1..(Len(ss) + 1)
    BY DEF Legal, Stream
  <2> QED BY <2>1, BeforeType
<1>3. Computes(Resolved(ss, n, e, k), ValueAt(e, before), env)
  BY <1>1 DEF Meets
<1>4. ValueAt(e, before) = Eval(e, before)
  <2>1. CASE e.kind = "reg"
    <3>1. e \in Value /\ IsWide(e)
      BY <1>1, <2>1, ExpressionKinds DEF Wide, ValuesIn, FlatValues
    <3>2. Eval(e, before) = before.reg[e.reg]
      BY <1>2, <2>1, <3>1, WideValue DEF Eval, EvalFlat
    <3> QED BY <2>1, <3>2 DEF ValueAt
  <2>2. CASE e.kind # "reg"
    BY <2>2 DEF ValueAt
  <2> QED BY <2>1, <2>2
<1> QED BY <1>3, <1>4

\* A use has the value of the register where it is.
LEMMA UseMeets ==
  ASSUME NEW ss, NEW env, Legal(ss, env), NEW n \in Levels, Meets(ss, env, n),
         NEW at \in 1..Len(ss), NEW r \in Reg,
         ResolveUse(ss, r, at, Resolver(ss, {})[n]) # TooDeep
  PROVE  Computes(ResolveUse(ss, r, at, Resolver(ss, {})[n]), Before(ss, at, env).reg[r], env)
<1> DEFINE f == Resolver(ss, {})[n]
           res == ResolveUse(ss, r, at, f)
<1>1. /\ ss \in Seq(Statement) /\ Len(ss) \in Nat /\ at \in Nat /\ env \in Env
      /\ at \in 1..(Len(ss) + 1) /\ 1 \in 1..(Len(ss) + 1)
  BY DEF Legal, Stream
<1>2. Outcomes(f)
  BY <1>1, ResolvedOutcome
<1>3. \A k \in 1..Len(ss) : Resolved(ss, n, ss[k].value, k) = f[ss[k].value][k]
  BY DEF Resolved
<1> HIDE DEF f
<1>4. \/ /\ \A k \in 1..Len(ss) : k < at => ~Defines(ss[k], r)
         /\ res = <<InputLeaf(r)>>
      \/ \E k \in 1..Len(ss) :
           /\ k < at /\ Defines(ss[k], r)
           /\ \A j \in 1..Len(ss) : k < j /\ j < at => ~Defines(ss[j], r)
           /\ res = f[ss[k].value][k]
  <2>1. ss \in Seq(Statement)
    BY <1>1
  <2>2. at \in Nat
    BY <1>1
  <2>3. Reaching(ss, r, at, f)
    BY <1>2, <2>1, <2>2, UseIs
  <2> QED BY <2>3 DEF Reaching
<1>5. res # TooDeep
  BY DEF f
<1> HIDE DEF res
<1>6. CASE /\ \A k \in 1..Len(ss) : k < at => ~Defines(ss[k], r)
           /\ res = <<InputLeaf(r)>>
  <2>1. Before(ss, at, env).reg[r] = Before(ss, 1, env).reg[r]
    BY <1>1, <1>6, RegisterKept
  <2>2. Before(ss, 1, env) = env
    BY <1>1, BeforeIs
  <2>3. Computes(res, env.reg[r], env)
    BY <1>6, LeavesCompute
  <2> QED BY <2>1, <2>2, <2>3 DEF res, f
<1>7. CASE \E k \in 1..Len(ss) :
             /\ k < at /\ Defines(ss[k], r)
             /\ \A j \in 1..Len(ss) : k < j /\ j < at => ~Defines(ss[j], r)
             /\ res = f[ss[k].value][k]
  <2>1. PICK k \in 1..Len(ss) :
             /\ k < at /\ Defines(ss[k], r)
             /\ \A j \in 1..Len(ss) : k < j /\ j < at => ~Defines(ss[j], r)
             /\ res = f[ss[k].value][k]
    BY <1>7
  <2>2. Computes(res, Eval(ss[k].value, Before(ss, k, env)), env)
    BY <1>3, <1>5, <2>1, DefinitionMeets
  <2>3. k + 1 \in 1..(Len(ss) + 1) /\ k + 1 <= at /\ k \in 1..(Len(ss) + 1)
        /\ \A j \in 1..Len(ss) : k + 1 <= j => k < j
    BY <1>1, <2>1
  <2>4. Before(ss, k, env) \in Env
    BY <2>3, BeforeType
  <2>5. Before(ss, k + 1, env).reg[r] = Eval(ss[k].value, Before(ss, k, env))
    BY <2>1, <2>4, StatementWrites
  <2>6. Before(ss, at, env).reg[r] = Before(ss, k + 1, env).reg[r]
    <3>1. \A j \in 1..Len(ss) : k + 1 <= j /\ j < at => ~Defines(ss[j], r)
      BY <2>1, <2>3
    <3> DEFINE m == k + 1
    <3> HIDE DEF m
    <3>2. m \in 1..(Len(ss) + 1) /\ m <= at
          /\ \A j \in 1..Len(ss) : m <= j /\ j < at => ~Defines(ss[j], r)
      BY <2>3, <3>1 DEF m
    <3>3. Before(ss, at, env).reg[r] = Before(ss, m, env).reg[r]
      BY <1>1, <3>2, RegisterKept
    <3> QED BY <3>3 DEF m
  <2> QED BY <2>2, <2>5, <2>6 DEF res, f
<1> QED BY <1>4, <1>6, <1>7

\* The address of an operand is resolved to what it is where it is.
LEMMA AddressMeets ==
  ASSUME NEW ss, NEW env, Legal(ss, env), NEW n \in Levels, Meets(ss, env, n),
         NEW at \in 1..Len(ss), NEW mv \in MemoryValue,
         ResolveAddress(mv, at, Resolver(ss, {})[n]) # TooDeep
  PROVE  Computes(ResolveAddress(mv, at, Resolver(ss, {})[n]), Address(mv, Before(ss, at, env)), env)
<1> DEFINE f == Resolver(ss, {})[n]
           before == Before(ss, at, env)
<1>1. ss \in Seq(Statement) /\ at \in Nat /\ at \in 1..(Len(ss) + 1)
  BY DEF Legal, Stream
<1>2. Outcomes(f) /\ before \in Env
  BY <1>1, ResolvedOutcome, BeforeType
<1>3. \A e : Resolved(ss, n, e, at) = f[e][at]
  BY DEF Resolved
<1>4. ResolveAddress(mv, at, f) # TooDeep
  OBVIOUS
<1> HIDE DEF f, before
<1>5. \A v \in Terms(mv) : f[v][at] # TooDeep
  BY <1>1, <1>2, <1>4, AddressIs
<1>6. ASSUME NEW v \in Terms(mv) PROVE Computes(f[v][at], before.reg[v.reg], env)
  <2>1. v \in RegValue
    BY TermsAreRegisters
  <2>2. Part(ss, v, at) /\ v \in Expression /\ ValueAt(v, before) = before.reg[v.reg]
    BY <2>1, RegistersAreParts
  <2>3. Computes(f[v][at], ValueAt(v, before), env)
    BY <1>3, <1>5, <2>2 DEF Meets, before
  <2> QED BY <2>2, <2>3
<1>7. Computes(ResolveAddress(mv, at, f), Address(mv, before), env)
  BY <1>1, <1>2, <1>6, AddressComputes
<1> QED BY <1>7 DEF f, before

\* Resolved with the levels a query has, what is found with fewer is the same.
LEMMA TreeIs ==
  ASSUME NEW ss \in Seq(Statement), NEW n \in Levels, n <= MaxDepth,
         NEW at \in 1..Len(ss), NEW mv \in MemoryValue,
         ResolveAddress(mv, at, Resolver(ss, {})[n]) # TooDeep
  PROVE  AddressTree(ss, mv, at) = ResolveAddress(mv, at, Resolver(ss, {})[n])
<1> DEFINE f == Resolver(ss, {})[n]
           g == Resolver(ss, {})[MaxDepth]
<1>1. MaxDepth \in Levels /\ at \in Nat
  BY RegisterAstAssumption DEF Levels
<1>2. Outcomes(f) /\ Agree(f, g)
  BY <1>1, ResolvedOutcome, HigherLevelsAgree
<1>3. ResolveAddress(mv, at, f) # TooDeep /\ AddressTree(ss, mv, at) = ResolveAddress(mv, at, g)
  BY DEF AddressTree
<1> HIDE DEF f, g
<1>4. ResolveAddress(mv, at, g) = ResolveAddress(mv, at, f)
  BY <1>1, <1>2, <1>3, AddressAgrees
<1> QED BY <1>3, <1>4 DEF f

\* A load has the value of its cell where it is: that of the last store to the
\* cell, or what was there on entry.
LEMMA LoadMeets ==
  ASSUME NEW ss, NEW env, Legal(ss, env),
         NEW n \in Levels, n <= MaxDepth, Meets(ss, env, n),
         NEW m \in Levels, m <= MaxDepth, Meets(ss, env, m),
         NEW at \in 1..Len(ss), NEW mv \in LoadsOf(ss[at]), mv \in MemoryValue, mv.size = 8,
         ResolveLoad(ss, {}, mv, at, Resolver(ss, {})[n], Resolver(ss, {})[m]) # TooDeep
  PROVE  Computes(ResolveLoad(ss, {}, mv, at, Resolver(ss, {})[n], Resolver(ss, {})[m]),
                  Before(ss, at, env).mem[Address(mv, Before(ss, at, env))], env)
<1> DEFINE f == Resolver(ss, {})[n]
           u == Resolver(ss, {})[m]
           res == ResolveLoad(ss, {}, mv, at, f, u)
           want == ResolveAddress(mv, at, f)
           earlier == EarlierStores(ss, mv, at)
           before == Before(ss, at, env)
           a == Address(mv, before)
<1>1. /\ ss \in Seq(Statement) /\ Len(ss) \in Nat /\ at \in Nat /\ env \in Env
      /\ at \in 1..(Len(ss) + 1) /\ 1 \in 1..(Len(ss) + 1)
      /\ \A k \in 1..Len(ss) : k \in 1..(Len(ss) + 1) /\ k + 1 \in 1..(Len(ss) + 1)
  BY DEF Legal, Stream
<1>2. Outcomes(f) /\ Outcomes(u) /\ before \in Env /\ a \in Word
  <2>1. before \in Env
    BY <1>1, BeforeType
  <2> HIDE DEF before
  <2> QED BY <1>1, <2>1, ResolvedOutcome, AddressType
<1>3. res # TooDeep
  OBVIOUS
<1>13. LoadCases(ss, mv, at, f, u, want, res, earlier)
  <2>1. ss \in Seq(Statement)
    BY <1>1
  <2>2. at \in Nat
    BY <1>1
  <2>3. Outcomes(f)
    BY <1>2
  <2>4. Outcomes(u)
    BY <1>2
  <2> HIDE DEF f, u
  <2>5. Loading(ss, mv, at, f, u)
    BY <2>1, <2>2, <2>3, <2>4, LoadIs
  <2> QED BY <2>5 DEF Loading
<1>4. want # TooDeep
  <2> HIDE DEF want, res, earlier, f, u
  <2> QED BY <1>3, <1>13 DEF LoadCases
<1>5. Computes(want, a, env) /\ AddressTree(ss, mv, at) = want
  BY <1>1, <1>4, AddressMeets, TreeIs
<1>6. \A k \in 1..Len(ss) : Resolved(ss, n, ss[k].value, k) = f[ss[k].value][k]
  BY DEF Resolved
<1>7. \A k \in 1..Len(ss) : ss[k].kind = "store" /\ k < at => k \in earlier
  <2> SUFFICES ASSUME NEW k \in 1..Len(ss), ss[k].kind = "store", k < at PROVE k \in earlier
    OBVIOUS
  <2>1. IsWide(ss[k].address) /\ ss[k].address \in MemoryValue
    BY <1>1, StatementIsPart, StatementParts DEF Destination
  <2>2. ss[k].address.size = 8
    BY <2>1 DEF IsWide, MemoryValue
  <2> QED BY <1>1, <2>2 DEF EarlierStores, StorePositions
<1>8. \A k \in earlier : Missed(ss, k, u, want) => Address(ss[k].address, Before(ss, k, env)) # a
  <2> SUFFICES ASSUME NEW k \in earlier, Missed(ss, k, u, want)
               PROVE  Address(ss[k].address, Before(ss, k, env)) # a
    OBVIOUS
  <2>1. k \in 1..Len(ss) /\ k < at /\ ss[k].kind = "store" /\ ss[k].address \in MemoryValue
    BY <1>1, StoresArePositions
  <2>2. /\ ResolveAddress(ss[k].address, k, u) # TooDeep
        /\ ResolveAddress(ss[k].address, k, u) # want
    BY DEF Missed, StoreAddress
  <2>3. AddressTree(ss, ss[k].address, k) # AddressTree(ss, mv, at)
    BY <1>1, <1>5, <2>1, <2>2, TreeIs
  <2>4. NoHiddenAlias(ss, env) /\ k \in 1..(at - 1) /\ at \in DOMAIN ss
    BY <1>1, <2>1 DEF Legal, Within, ButForNeg
  <2> QED BY <2>1, <2>3, <2>4 DEF NoHiddenAlias
<1>9. \A k \in earlier : StoreAddress(ss, k, u) = want =>
        Address(ss[k].address, Before(ss, k, env)) = a
  <2> SUFFICES ASSUME NEW k \in earlier, StoreAddress(ss, k, u) = want
               PROVE  Address(ss[k].address, Before(ss, k, env)) = a
    OBVIOUS
  <2>1. k \in 1..Len(ss) /\ ss[k].address \in MemoryValue
    BY <1>1, StoresArePositions
  <2>2. ResolveAddress(ss[k].address, k, u) = want
    BY DEF StoreAddress
  <2>3. Computes(want, Address(ss[k].address, Before(ss, k, env)), env)
    BY <1>4, <2>1, <2>2, AddressMeets
  <2> QED BY <1>5, <2>3, ComputedOnce
<1>10. /\ (\A k \in earlier : Missed(ss, k, u, want)) => res = Joined(want, <<UnaryNode("Load")>>)
       /\ \A k \in earlier : Stops(ss, mv, at, u, want, k) =>
            res = IF StoreAddress(ss, k, u) = want THEN f[ss[k].value][k] ELSE TooDeep
       /\ \/ \A k \in earlier : Missed(ss, k, u, want)
          \/ \E k \in earlier : Stops(ss, mv, at, u, want, k)
  <2> HIDE DEF f, u, want, res, earlier
  <2> QED BY <1>4, <1>13 DEF LoadCases
<1> HIDE DEF f, u, want, res, earlier, a, before
<1>11. CASE \A k \in earlier : Missed(ss, k, u, want)
  <2>1. before.mem[a] = env.mem[a]
    <3>1. \A j \in 1..Len(ss) : 1 <= j /\ j < at /\ ss[j].kind = "store"
                                  => Address(ss[j].address, Before(ss, j, env)) # a
      BY <1>7, <1>8, <1>11
    <3>2. Before(ss, at, env).mem[a] = Before(ss, 1, env).mem[a]
      BY <1>1, <1>2, <3>1, CellKept
    <3>3. Before(ss, 1, env) = env
      BY <1>1, BeforeIs
    <3> QED BY <3>2, <3>3 DEF before
  <2>2. res = Joined(want, <<UnaryNode("Load")>>)
    BY <1>10, <1>11
  <2>3. want \in Outcome /\ <<UnaryNode("Load")>> \in Outcome
    BY <1>5, OperatorNodes DEF Computes
  <2>4. res = want \o <<UnaryNode("Load")>>
    BY <1>3, <2>2, <2>3, JoinedIs
  <2>5. Computes(res, AnswerUnary("Load", a, env), env)
    BY <1>5, <2>4, UnaryComputes
  <2>6. AnswerUnary("Load", a, env) = env.mem[a]
    BY DEF AnswerUnary
  <2> QED BY <2>1, <2>5, <2>6 DEF res, before, a, f, u
<1>12. CASE \E k \in earlier : Stops(ss, mv, at, u, want, k)
  <2>1. PICK k \in earlier : Stops(ss, mv, at, u, want, k)
    BY <1>12
  <2>2. StoreAddress(ss, k, u) = want /\ res = f[ss[k].value][k]
    BY <1>3, <1>10, <2>1
  <2>3. k \in 1..Len(ss) /\ k < at /\ ss[k].kind = "store"
    BY <1>1, StoresArePositions DEF earlier
  <2>4. Computes(res, Eval(ss[k].value, Before(ss, k, env)), env)
    BY <1>3, <1>6, <2>2, <2>3, DefinitionMeets
  <2>5. Before(ss, k, env) \in Env
    BY <1>1, <2>3, BeforeType
  <2>6. Address(ss[k].address, Before(ss, k, env)) = a
    BY <1>9, <2>2
  <2>7. Before(ss, k + 1, env).mem[a] = Eval(ss[k].value, Before(ss, k, env))
    BY <1>2, <2>3, <2>5, <2>6, StatementWrites
  <2>8. \A j \in 1..Len(ss) : k + 1 <= j /\ j < at /\ ss[j].kind = "store"
                                => Address(ss[j].address, Before(ss, j, env)) # a
    <3> SUFFICES ASSUME NEW j \in 1..Len(ss), k + 1 <= j, j < at, ss[j].kind = "store"
                 PROVE  Address(ss[j].address, Before(ss, j, env)) # a
      OBVIOUS
    <3>1. j \in earlier /\ k < j
      BY <1>1, <1>7, <2>3
    <3>2. Missed(ss, j, u, want)
      BY <2>1, <3>1 DEF Stops, earlier
    <3> QED BY <1>8, <3>1, <3>2
  <2>9. Before(ss, at, env).mem[a] = Before(ss, k + 1, env).mem[a]
    <3>1. k + 1 \in 1..(Len(ss) + 1) /\ k + 1 <= at
      BY <1>1, <2>3
    <3> DEFINE i == k + 1
    <3> HIDE DEF i
    <3>2. /\ i \in 1..(Len(ss) + 1) /\ i <= at
          /\ \A j \in 1..Len(ss) : i <= j /\ j < at /\ ss[j].kind = "store"
                                     => Address(ss[j].address, Before(ss, j, env)) # a
      BY <2>8, <3>1 DEF i
    <3>3. Before(ss, at, env).mem[a] = Before(ss, i, env).mem[a]
      BY <1>1, <1>2, <3>2, CellKept
    <3> QED BY <3>3 DEF i
  <2> QED BY <2>4, <2>7, <2>9 DEF res, before, a, f, u
<1> QED BY <1>10, <1>11, <1>12

\* What an operator over resolved operands computes.
LEMMA JoinedBinaryComputes ==
  ASSUME NEW a \in Outcome, NEW b \in Outcome, NEW x, NEW y, NEW env,
         NEW op \in BinaryOps \cup {"Mul"},
         a # TooDeep => Computes(a, x, env), b # TooDeep => Computes(b, y, env),
         Joined(Joined(a, b), <<BinaryNode(op)>>) # TooDeep
  PROVE  Computes(Joined(Joined(a, b), <<BinaryNode(op)>>), AnswerBinary(op, x, y), env)
<1> DEFINE c == <<BinaryNode(op)>>
<1>1. c \in Answers
  BY OperatorNodes
<1>2. Joined(Joined(a, b), c) # TooDeep
  OBVIOUS
<1> HIDE DEF c
<1>3. /\ Joined(Joined(a, b), c) = TooDeep <=> TooDeep \in {a, b}
      /\ Joined(Joined(a, b), c) # TooDeep =>
           Joined(Joined(a, b), c) = (a \o b) \o c /\ a \in Answers /\ b \in Answers
  BY <1>1, JoinedThree
<1>4. Computes(a, x, env) /\ Computes(b, y, env) /\ Joined(Joined(a, b), c) = (a \o b) \o c
  BY <1>2, <1>3
<1>5. Computes((a \o b) \o <<BinaryNode(op)>>, AnswerBinary(op, x, y), env)
  BY <1>4, BinaryComputes
<1> QED BY <1>4, <1>5 DEF c

LEMMA JoinedConditionalComputes ==
  ASSUME NEW a \in Outcome, NEW b \in Outcome, NEW c \in Outcome, NEW x, NEW y, NEW z, NEW env,
         a # TooDeep => Computes(a, x, env), b # TooDeep => Computes(b, y, env),
         c # TooDeep => Computes(c, z, env),
         Joined(Joined(Joined(a, b), c), <<ConditionalNode>>) # TooDeep
  PROVE  Computes(Joined(Joined(Joined(a, b), c), <<ConditionalNode>>),
                  IF x = 1 THEN y ELSE z, env)
<1> DEFINE d == <<ConditionalNode>>
<1>1. d \in Answers
  BY OperatorNodes
<1>2. Joined(Joined(Joined(a, b), c), d) # TooDeep
  OBVIOUS
<1> HIDE DEF d
<1> DEFINE ab == Joined(a, b)
<1>a. /\ ab \in Outcome /\ (ab = TooDeep <=> TooDeep \in {a, b})
      /\ ab # TooDeep => ab = a \o b
  BY JoinedIs
<1>b. Joined(Joined(ab, c), d) # TooDeep
  BY <1>2
<1> HIDE DEF ab
<1>c. /\ Joined(Joined(ab, c), d) = TooDeep <=> TooDeep \in {ab, c}
      /\ Joined(Joined(ab, c), d) # TooDeep =>
           Joined(Joined(ab, c), d) = (ab \o c) \o d /\ ab \in Answers /\ c \in Answers
  <2>1. ab \in Outcome
    BY <1>a
  <2> QED BY <1>1, <2>1, JoinedThree
<1>3. /\ TooDeep \notin {a, b, c}
      /\ Joined(Joined(Joined(a, b), c), d) = ((a \o b) \o c) \o d
  <2>1. TooDeep \notin {a, b, c} /\ ab = a \o b
    BY <1>a, <1>b, <1>c
  <2>2. Joined(Joined(ab, c), d) = (ab \o c) \o d
    BY <1>b, <1>c
  <2>3. Joined(Joined(ab, c), d) = ((a \o b) \o c) \o d
    BY <2>1, <2>2
  <2> QED BY <2>1, <2>3 DEF ab
<1>4. /\ Computes(a, x, env) /\ Computes(b, y, env) /\ Computes(c, z, env)
      /\ Joined(Joined(Joined(a, b), c), d) = ((a \o b) \o c) \o d
  BY <1>2, <1>3
<1>5. Computes(((a \o b) \o c) \o <<ConditionalNode>>, IF x = 1 THEN y ELSE z, env)
  BY <1>4, ConditionalComputes
<1> QED BY <1>4, <1>5 DEF d

LEMMA LevelMeets ==
  ASSUME NEW ss, NEW env, Legal(ss, env), NEW n \in Levels, n # 0,
         Meets(ss, env, n - 1), Meets(ss, env, Down(n - 1))
  PROVE  Meets(ss, env, n)
<1> SUFFICES ASSUME NEW at \in 1..Len(ss), NEW e \in Expression, Part(ss, e, at),
                    Resolved(ss, n, e, at) # TooDeep
             PROVE  Computes(Resolved(ss, n, e, at), ValueAt(e, Before(ss, at, env)), env)
  BY DEF Meets
<1> DEFINE f == Resolver(ss, {})[n - 1]
           u == Resolver(ss, {})[Down(n - 1)]
           res == Resolved(ss, n, e, at)
           before == Before(ss, at, env)
<1>1. /\ ss \in Seq(Statement) /\ at \in Nat /\ at \in 1..(Len(ss) + 1)
      /\ n \in Nat /\ n - 1 \in Levels /\ Down(n - 1) \in Levels
      /\ n - 1 <= MaxDepth /\ Down(n - 1) <= MaxDepth
  BY RegisterAstAssumption DEF Legal, Stream, Levels, Down
<1>2. Outcomes(f) /\ Outcomes(u) /\ before \in Env
  BY <1>1, ResolvedOutcome, BeforeType
<1>3. res # TooDeep /\ Made(ss, e, at, res, f, u)
  BY <1>1, LevelIs
<1>4. \A x \in Expression : Part(ss, x, at) /\ f[x][at] # TooDeep
                              => Computes(f[x][at], ValueAt(x, before), env)
  BY DEF Meets, Resolved
<1>5. \A x \in Expression : f[x][at] \in Outcome
  BY <1>1, <1>2 DEF Outcomes
<1>6. /\ e.kind = "mem" => e \in MemoryValue /\ e.size = 8 /\ e \in LoadsOf(ss[at])
      /\ e.kind = "un" => /\ Part(ss, e.operand, at)
                          /\ ValueAt(e.operand, before) = Eval(e.operand, before)
      /\ e.kind = "bin" => /\ Part(ss, e.left, at) /\ Part(ss, e.right, at)
                           /\ ValueAt(e.left, before) = Eval(e.left, before)
                           /\ ValueAt(e.right, before) = Eval(e.right, before)
      /\ e.kind = "cond" => /\ Part(ss, e.condition, at) /\ Part(ss, e.true_expr, at)
                            /\ Part(ss, e.false_expr, at)
                            /\ ValueAt(e.condition, before) = Eval(e.condition, before)
                            /\ ValueAt(e.true_expr, before) = Eval(e.true_expr, before)
                            /\ ValueAt(e.false_expr, before) = Eval(e.false_expr, before)
  BY <1>2, PartsOf
<1>7. CASE e.kind = "reg"
  <2>1. e.reg \in Reg /\ res = ResolveUse(ss, e.reg, at, f)
    BY <1>3, <1>7 DEF Made
  <2>2. Computes(ResolveUse(ss, e.reg, at, f), before.reg[e.reg], env)
    BY <1>1, <1>3, <2>1, UseMeets
  <2> QED BY <1>7, <2>1, <2>2 DEF ValueAt
<1> HIDE DEF before
<1>8. e.kind # "reg" => Wide(e) /\ Nestable(e) /\ (e.kind = "bin" => e.op \notin Rotates)
      /\ ValueAt(e, before) = Eval(e, before)
  BY DEF Part, ValueAt
<1>9. CASE e.kind = "imm"
  <2>1. e \in ImmValue /\ res = <<e>>
    BY <1>3, <1>9 DEF Made
  <2>2. Eval(e, before) = e.value
    BY <1>9 DEF Eval, EvalFlat, EvalValue
  <2> QED BY <1>8, <1>9, <2>1, <2>2, LeavesCompute DEF before
<1>10. CASE e.kind = "mem"
  <2>1. e \in MemoryValue /\ e.size = 8 /\ e \in LoadsOf(ss[at]) /\ res = ResolveLoad(ss, {}, e, at, f, u)
    BY <1>3, <1>6, <1>10 DEF Made
  <2>2. Computes(ResolveLoad(ss, {}, e, at, f, u), before.mem[Address(e, before)], env)
    BY <1>1, <1>3, <2>1, LoadMeets DEF before
  <2>3. Eval(e, before) = before.mem[Address(e, before)]
    <3>1. e \in Value /\ IsWide(e)
      BY <1>10, <2>1, ValuesAreExpressions DEF IsWide
    <3> QED BY <1>2, <1>10, <3>1, WideValue DEF Eval, EvalFlat
  <2> QED BY <1>8, <1>10, <2>1, <2>2, <2>3 DEF before
<1> HIDE DEF f, u, res
<1>11. CASE e.kind = "un"
  <2> DEFINE a == f[e.operand][at]
             x == Eval(e.operand, before)
             c == <<UnaryNode(e.op)>>
  <2>1. e.operand \in Expression /\ e.op \in UnaryOps /\ res = Joined(a, c) /\ c \in Outcome
    BY <1>3, <1>11, OperatorNodes DEF Made
  <2>2. a \in Outcome
    BY <1>5, <2>1
  <2>3. a # TooDeep /\ res = a \o c
    <3> HIDE DEF a, c
    <3> QED BY <1>3, <2>1, <2>2, JoinedIs
  <2>4. Computes(a, x, env)
    BY <1>4, <1>6, <1>11, <2>1, <2>3
  <2>5. Computes(a \o c, AnswerUnary(e.op, x, env), env)
    <3> HIDE DEF a, x
    <3> QED BY <2>1, <2>4, UnaryComputes
  <2>6. Eval(e, before) = AnswerUnary(e.op, Eval(e.operand, before), before) /\ e.op # "Load"
    BY <1>2, <1>8, <1>11, <2>1, WideEval DEF UnaryOps
  <2>7. AnswerUnary(e.op, x, env) = AnswerUnary(e.op, x, before)
    BY <2>6 DEF AnswerUnary
  <2> QED BY <1>8, <1>11, <2>3, <2>5, <2>6, <2>7 DEF res, before
<1>12. CASE e.kind = "bin"
  <2> DEFINE x == Eval(e.left, before)
             y == Eval(e.right, before)
             a == f[e.left][at]
             b == f[e.right][at]
  <2>1. /\ e.left \in Expression /\ e.right \in Expression /\ e.op \in BinaryOps
        /\ res = Joined(Joined(a, b), <<BinaryNode(e.op)>>)
    BY <1>3, <1>12 DEF Made
  <2>2. a \in Outcome /\ b \in Outcome
    BY <1>5, <2>1
  <2>3. a # TooDeep => Computes(a, x, env)
    BY <1>4, <1>6, <1>12, <2>1
  <2>4. b # TooDeep => Computes(b, y, env)
    BY <1>4, <1>6, <1>12, <2>1
  <2>5. Eval(e, before) = AnswerBinary(e.op, x, y)
    BY <1>2, <1>8, <1>12, WideEval
  <2> HIDE DEF a, b, x, y
  <2>6. Computes(Joined(Joined(a, b), <<BinaryNode(e.op)>>), AnswerBinary(e.op, x, y), env)
    BY <1>3, <2>1, <2>2, <2>3, <2>4, JoinedBinaryComputes
  <2>7. Computes(res, ValueAt(e, before), env)
    BY <1>8, <1>12, <2>1, <2>5, <2>6
  <2> QED BY <2>7 DEF res, before
<1>13. CASE e.kind = "cond"
  <2> DEFINE x == Eval(e.condition, before)
             y == Eval(e.true_expr, before)
             z == Eval(e.false_expr, before)
             a == f[e.condition][at]
             b == f[e.true_expr][at]
             c == f[e.false_expr][at]
  <2>1. /\ e.condition \in Expression /\ e.true_expr \in Expression /\ e.false_expr \in Expression
        /\ res = Joined(Joined(Joined(a, b), c), <<ConditionalNode>>)
    BY <1>3, <1>13 DEF Made
  <2>2. a \in Outcome /\ b \in Outcome /\ c \in Outcome
    BY <1>5, <2>1
  <2>3. a # TooDeep => Computes(a, x, env)
    <3>1. Part(ss, e.condition, at) /\ ValueAt(e.condition, before) = x
      BY <1>6, <1>13
    <3> QED BY <1>4, <2>1, <3>1
  <2>4. b # TooDeep => Computes(b, y, env)
    <3>1. Part(ss, e.true_expr, at) /\ ValueAt(e.true_expr, before) = y
      BY <1>6, <1>13
    <3> QED BY <1>4, <2>1, <3>1
  <2>5. c # TooDeep => Computes(c, z, env)
    <3>1. Part(ss, e.false_expr, at) /\ ValueAt(e.false_expr, before) = z
      BY <1>6, <1>13
    <3> QED BY <1>4, <2>1, <3>1
  <2>6. Eval(e, before) = IF x = 1 THEN y ELSE z
    BY <1>2, <1>8, <1>13, WideEval
  <2> HIDE DEF a, b, c, x, y, z
  <2>7. Computes(Joined(Joined(Joined(a, b), c), <<ConditionalNode>>), IF x = 1 THEN y ELSE z, env)
    BY <1>3, <2>1, <2>2, <2>3, <2>4, <2>5, JoinedConditionalComputes
  <2>8. Computes(res, ValueAt(e, before), env)
    BY <1>8, <1>13, <2>1, <2>6, <2>7
  <2> QED BY <2>8 DEF res, before
<1> QED BY <1>7, <1>9, <1>10, <1>11, <1>12, <1>13, ExpressionKinds

\* Whatever is resolved, at whatever depth, has the value it stands for.
LEMMA ResolvedMeets ==
  ASSUME NEW ss, NEW env, Legal(ss, env)
  PROVE  \A n \in Levels : Meets(ss, env, n)
<1> DEFINE G == {n \in Levels : Meets(ss, env, n)}
<1>1. 0 \in G
  <2>1. 0 \in Levels
    BY RegisterAstAssumption DEF Levels
  <2>2. \A at \in 1..Len(ss) : \A e \in Expression : Resolved(ss, 0, e, at) = TooDeep
    <3>1. \A at \in 1..Len(ss) : at \in Nat
      BY DEF Legal, Stream
    <3>2. \A at \in Nat : \A e \in Expression : Resolved(ss, 0, e, at) = TooDeep
      BY <2>1, OneLevel
    <3> QED BY <3>1, <3>2
  <2> QED BY <2>1, <2>2 DEF Meets
<1>2. \A n \in Levels : n # 0 /\ n - 1 \in G /\ Down(n - 1) \in G => n \in G
  BY LevelMeets
<1>3. Levels \subseteq G
  <2> HIDE DEF G
  <2> QED BY <1>1, <1>2, LevelInduction
<1> QED BY <1>3

-----------------------------------------------------------------------------
(***************************************************************************)
(* What a call answers is the value of the register.                       *)
(***************************************************************************)
LEMMA EvaluatedAnswer ==
  ASSUME NEW a, NEW x, NEW env, Computes(a, x, env)
  PROVE  EvalAnswer(a, env) = x
<1>1. StackAfter(a, Empty, env) = <<x, Empty>>
  BY DEF Computes
<1> QED BY <1>1 DEF EvalAnswer, OnTop

LEMMA DefinitionAnswers ==
  ASSUME NEW ss, NEW env, Legal(ss, env), NEW r \in Reg, NEW k \in 1..Len(ss), Defines(ss[k], r),
         Resolved(ss, MaxDepth + 1, ss[k].value, k) # TooDeep
  PROVE  EvalAnswer(Resolved(ss, MaxDepth + 1, ss[k].value, k), env) = Before(ss, k + 1, env).reg[r]
<1> DEFINE n == MaxDepth + 1
           x == Eval(ss[k].value, Before(ss, k, env))
<1>1. n \in Levels
  BY RegisterAstAssumption DEF Levels
<1>2. k \in 1..(Len(ss) + 1)
  BY DEF Legal, Stream
<1>3. Before(ss, k, env) \in Env
  BY <1>2, BeforeType
<1>4. Resolved(ss, n, ss[k].value, k) # TooDeep
  OBVIOUS
<1> HIDE DEF n
<1>5. Meets(ss, env, n)
  BY <1>1, ResolvedMeets
<1>6. Computes(Resolved(ss, n, ss[k].value, k), x, env)
  BY <1>1, <1>4, <1>5, DefinitionMeets
<1>7. Before(ss, k + 1, env).reg[r] = x
  BY <1>3, StatementWrites
<1>8. EvalAnswer(Resolved(ss, n, ss[k].value, k), env) = x
  BY <1>6, EvaluatedAnswer
<1> QED BY <1>7, <1>8 DEF n

LEMMA SessionIsLegal ==
  ASSUME SessionInv, NEW env \in Envs, Within(ir, env)
  PROVE  Legal(ir, env) /\ ir \in Seq(Statement) /\ Len(ir) \in Nat
BY EnvsAssumption DEF SessionInv, StreamInv, Legal, Stream

\* The definition that build_last() goes back to is the last of the stream, and
\* a register without one is as it was on entry.
LEMMA LastAnswerMeets ==
  ASSUME NEW ss, NEW env, Legal(ss, env), NEW r \in Reg,
         NEW answer, answer = Answer(ss, {}, r, DefsOf(ss, r)), answer # TooDeep
  PROVE  EvalAnswer(answer, env) = RunIR(ss, env).reg[r]
<1>1. /\ ss \in Seq(Statement) /\ Len(ss) \in Nat /\ env \in Env
      /\ 1 \in 1..(Len(ss) + 1) /\ Len(ss) + 1 \in 1..(Len(ss) + 1)
      /\ \A j \in 1..Len(ss) : j < Len(ss) + 1
  BY DEF Legal, Stream
<1>2. RunIR(ss, env) = Before(ss, Len(ss) + 1, env) /\ Before(ss, 1, env) = env
  BY <1>1, BeforeIs
<1>3. DefsOf(ss, r) = {k \in 1..Len(ss) : Defines(ss[k], r)}
  BY <1>1 DEF DefsOf
<1>4. \/ DefsOf(ss, r) = {} /\ answer = <<InputLeaf(r)>>
      \/ \E k \in DefsOf(ss, r) : /\ \A m \in DefsOf(ss, r) : m <= k
                                  /\ answer = Resolved(ss, MaxDepth + 1, ss[k].value, k)
  <2> DEFINE defs == DefsOf(ss, r)
  <2>1. defs \in SUBSET DefsOf(ss, r)
    OBVIOUS
  <2>2. answer = Answer(ss, {}, r, defs)
    OBVIOUS
  <2>3. \/ /\ defs = {} /\ Answer(ss, {}, r, defs) = <<InputLeaf(r)>>
           /\ <<InputLeaf(r)>> \in Answers
        \/ \E k \in defs :
             /\ \A m \in defs : m <= k
             /\ Answer(ss, {}, r, defs) = Resolved(ss, MaxDepth + 1, ss[k].value, k)
    <3> HIDE DEF defs
    <3> QED BY <1>1, <2>1, AnswerIs
  <2> QED BY <2>2, <2>3
<1>5. CASE DefsOf(ss, r) = {} /\ answer = <<InputLeaf(r)>>
  <2>1. Before(ss, Len(ss) + 1, env).reg[r] = Before(ss, 1, env).reg[r]
    <3>1. \A j \in 1..Len(ss) : 1 <= j /\ j < Len(ss) + 1 => ~Defines(ss[j], r)
      BY <1>3, <1>5
    <3> DEFINE end == Len(ss) + 1
    <3>2. end \in 1..(Len(ss) + 1) /\ 1 <= end
          /\ \A j \in 1..Len(ss) : 1 <= j /\ j < end => ~Defines(ss[j], r)
      BY <1>1, <3>1
    <3> HIDE DEF end
    <3>3. Before(ss, end, env).reg[r] = Before(ss, 1, env).reg[r]
      BY <1>1, <3>2, RegisterKept
    <3> QED BY <3>3 DEF end
  <2>2. Computes(answer, env.reg[r], env)
    BY <1>5, LeavesCompute
  <2>3. EvalAnswer(answer, env) = env.reg[r]
    BY <2>2, EvaluatedAnswer
  <2> QED BY <1>2, <2>1, <2>3
<1>6. CASE \E k \in DefsOf(ss, r) : /\ \A m \in DefsOf(ss, r) : m <= k
                                    /\ answer = Resolved(ss, MaxDepth + 1, ss[k].value, k)
  <2>1. PICK k \in DefsOf(ss, r) : /\ \A m \in DefsOf(ss, r) : m <= k
                                   /\ answer = Resolved(ss, MaxDepth + 1, ss[k].value, k)
    BY <1>6
  <2>2. k \in 1..Len(ss) /\ Defines(ss[k], r)
    BY <1>3, <2>1
  <2>3. EvalAnswer(answer, env) = Before(ss, k + 1, env).reg[r]
    BY <2>1, <2>2, DefinitionAnswers
  <2>4. Before(ss, Len(ss) + 1, env).reg[r] = Before(ss, k + 1, env).reg[r]
    <3> DEFINE end == Len(ss) + 1
               next == k + 1
    <3>1. ASSUME NEW j \in 1..Len(ss), next <= j PROVE ~Defines(ss[j], r)
      <4>1. ~(j <= k)
        BY <1>1, <2>2, <3>1
      <4> QED BY <1>3, <2>1, <4>1
    <3>2. end \in 1..(Len(ss) + 1) /\ next \in 1..(Len(ss) + 1) /\ next <= end
      BY <1>1, <2>2
    <3> HIDE DEF end, next
    <3>3. Before(ss, end, env).reg[r] = Before(ss, next, env).reg[r]
      BY <3>1, <3>2, RegisterKept
    <3> QED BY <3>3 DEF end, next
  <2> QED BY <1>2, <2>3, <2>4
<1> QED BY <1>4, <1>5, <1>6

\* The expression of the last version of a register has, in the environment of
\* the entry, the value the register holds after the block.
THEOREM LastValueResolvedHolds == Spec => []LastValueResolved
<1>1. ASSUME SessionInv PROVE LastValueResolved
  <2> SUFFICES ASSUME query.call = "build_last", value \notin Failed,
                      NEW env \in Envs, Within(ir, env)
               PROVE  EvalAnswer(value, env) = RunIR(ir, env).reg[query.reg]
    BY DEF LastValueResolved, Answered
  <2>1. Legal(ir, env) /\ ir \in Seq(Statement)
    BY <1>1, SessionIsLegal
  <2>2. PICK r \in Reg : /\ query = [call |-> "build_last", reg |-> r]
                         /\ value = Answer(ir, {}, r, DefsOf(ir, r))
    <3>1. query # NoQuery
      BY DEF NoQuery
    <3>2. \A r, id : query # [call |-> "build", reg |-> r, id |-> id]
      OBVIOUS
    <3> QED BY <1>1, <3>1, <3>2 DEF SessionInv, AnswerInv
  <2>3. value # TooDeep
    BY DEF Failed
  <2>4. EvalAnswer(value, env) = RunIR(ir, env).reg[r]
    BY <2>1, <2>2, <2>3, LastAnswerMeets
  <2> QED BY <2>2, <2>4
<1> QED BY <1>1, AnswersAreCurrent, PTL

\* The expression of any version that is defined has the value its definition
\* computed: the ids tell the definitions of a register apart.
THEOREM VersionResolvedHolds == Spec => []VersionResolved
<1>1. ASSUME SessionInv PROVE VersionResolved
  <2> SUFFICES ASSUME query.call = "build", value \notin Failed,
                      NEW n \in DOMAIN ir, Defines(ir[n], query.reg), ir[n].dst.ssa_id = query.id,
                      NEW env \in Envs, Within(ir, env)
               PROVE  EvalAnswer(value, env) = Before(ir, n + 1, env).reg[query.reg]
    BY DEF VersionResolved, Answered
  <2>1. Legal(ir, env) /\ ir \in Seq(Statement) /\ n \in 1..Len(ir) /\ L!SSAIds(ir)
    BY <1>1, SessionIsLegal DEF SessionInv, StreamInv
  <2>2. PICK r \in Reg, id \in Int : /\ query = [call |-> "build", reg |-> r, id |-> id]
                                     /\ value = Answer(ir, {}, r, DefsAs(ir, r, id))
    <3>1. query # NoQuery
      BY DEF NoQuery
    <3>2. \A r : query # [call |-> "build_last", reg |-> r]
      OBVIOUS
    <3> QED BY <1>1, <3>1, <3>2 DEF SessionInv, AnswerInv
  <2> DEFINE defs == DefsAs(ir, r, id)
  <2>3. defs = {k \in 1..Len(ir) : Defines(ir[k], r) /\ ir[k].dst.ssa_id = id}
    BY <2>1 DEF DefsAs, DefsOf
  <2>4. n \in defs /\ query.reg = r
    BY <2>1, <2>2, <2>3
  <2>5. defs \in SUBSET DefsOf(ir, r)
    BY DEF DefsAs
  <2>6. \A k \in defs : k = n
    <3> SUFFICES ASSUME NEW k \in defs PROVE k = n
      OBVIOUS
    <3>1. k \in 1..Len(ir) /\ Defines(ir[k], r) /\ ir[k].dst.ssa_id = id
          /\ Defines(ir[n], r) /\ ir[n].dst.ssa_id = id
      BY <2>3, <2>4
    <3>2. \A i, j \in 1..Len(ir) : i < j /\ Defines(ir[i], r) /\ Defines(ir[j], r)
                                     => ir[i].dst.ssa_id < ir[j].dst.ssa_id
      BY <2>1 DEF L!SSAIds, L!Reg, Reg, L!Defines, Defines
    <3>3. ~(k < n) /\ ~(n < k)
      BY <2>1, <3>1, <3>2
    <3> QED BY <2>1, <3>1, <3>3
  <2>7. \/ /\ defs = {} /\ Answer(ir, {}, r, defs) = <<InputLeaf(r)>>
           /\ <<InputLeaf(r)>> \in Answers
        \/ \E k \in defs :
             /\ \A m \in defs : m <= k
             /\ Answer(ir, {}, r, defs) = Resolved(ir, MaxDepth + 1, ir[k].value, k)
    <3> HIDE DEF defs
    <3> QED BY <2>1, <2>5, AnswerIs
  <2>8. value = Answer(ir, {}, r, defs) /\ value # TooDeep
    BY <2>2 DEF Failed
  <2> HIDE DEF defs
  <2>9. value = Resolved(ir, MaxDepth + 1, ir[n].value, n)
    BY <2>4, <2>6, <2>7, <2>8
  <2>10. EvalAnswer(Resolved(ir, MaxDepth + 1, ir[n].value, n), env) = Before(ir, n + 1, env).reg[r]
    <3>1. Defines(ir[n], r)
      BY <2>4
    <3> QED BY <2>1, <2>8, <2>9, <3>1, DefinitionAnswers
  <2> QED BY <2>4, <2>9, <2>10
<1> QED BY <1>1, AnswersAreCurrent, PTL

-----------------------------------------------------------------------------
(***************************************************************************)
(* Texts, read from the left: the first token tells what stands there.     *)
(***************************************************************************)
M(m) == <<"mark", m>>
R(r) == <<"register", r>>
N(n) == <<"numeral", n>>

Then(x, rest) == <<x>> \o rest

LEMMA TokensDiffer ==
  /\ \A m \in Marks : M(m) \in Token
  /\ \A r \in Reg : R(r) \in Token
  /\ \A n \in Int : N(n) \in Token
  /\ \A m, n : M(m) = M(n) => m = n
  /\ \A r, q : R(r) = R(q) => r = q
  /\ \A m, n : N(m) = N(n) => m = n
  /\ \A m, r : M(m) # R(r)
  /\ \A m, n : M(m) # N(n)
  /\ \A r, n : R(r) # N(n)
BY DEF Token, M, R, N

LEMMA ThenIs ==
  ASSUME NEW x \in Token, NEW s \in Texts
  PROVE  /\ Then(x, s) \in Texts /\ Then(x, s) # <<>> /\ Then(x, s)[1] = x
         /\ \A y \in Token, t \in Texts : Then(x, s) = Then(y, t) => x = y /\ s = t
<1>1. <<x>> \in Texts /\ Len(<<x>>) = 1 /\ <<x>>[1] = x /\ Len(s) \in Nat
  BY DEF Texts
<1>2. Then(x, s) \in Texts /\ Then(x, s) # <<>> /\ Then(x, s)[1] = x
  BY <1>1 DEF Texts, Then
<1>3. ASSUME NEW y \in Token, NEW t \in Texts, Then(x, s) = Then(y, t) PROVE x = y /\ s = t
  <2>1. <<y>> \in Texts /\ Then(y, t)[1] = y
    BY DEF Texts, Then
  <2>2. x = y
    BY <1>2, <1>3, <2>1
  <2>3. <<x>> \o s = <<x>> \o t
    BY <1>3, <2>2 DEF Then
  <2>4. s \in Seq(Token) /\ t \in Seq(Token) /\ <<x>> \in Seq(Token)
    BY <1>1 DEF Texts
  <2>5. s = t
    <3>1. Len(s) = Len(t) /\ Len(s) \in Nat
      <4>1. Len(<<x>> \o s) = 1 + Len(s)
        BY <1>1, <2>4, ConcatProperties
      <4>2. Len(<<x>> \o t) = 1 + Len(t)
        BY <1>1, <2>4, ConcatProperties
      <4>3. Len(s) \in Nat /\ Len(t) \in Nat
        BY <2>4
      <4> QED BY <2>3, <4>1, <4>2, <4>3
    <3>2. ASSUME NEW i \in 1 .. Len(s) PROVE s[i] = t[i]
      <4>1. i + 1 \in 1 .. 1 + Len(s) /\ ~(i + 1 <= 1) /\ i + 1 - 1 = i
        BY <3>1
      <4>2. (<<x>> \o s)[i + 1] = s[i]
        BY <1>1, <2>4, <4>1, ConcatProperties
      <4>3. (<<x>> \o t)[i + 1] = t[i]
        BY <1>1, <2>4, <3>1, <4>1, ConcatProperties
      <4> QED BY <2>3, <4>2, <4>3
    <3> QED BY <2>4, <3>1, <3>2, SeqEqual
  <2> QED BY <2>2, <2>5
<1> QED BY <1>2, <1>3

\* One text after another, as an operator of its own.
Cat(x, y) == x \o y

LEMMA TextsAssociate ==
  /\ <<>> \in Texts
  /\ \A a, b \in Texts : Cat(a, b) \in Texts
  /\ \A a, b, c \in Texts : Cat(Cat(a, b), c) = Cat(a, Cat(b, c))
  /\ \A a \in Texts : Cat(<<>>, a) = a /\ Cat(a, <<>>) = a
<1>1. \A a, b, c \in Seq(Token) : (a \o b) \o c = a \o (b \o c)
  BY ConcatAssociative
<1>2. \A a \in Seq(Token) : <<>> \o a = a /\ a \o <<>> = a
  BY ConcatEmptySeq
<1> QED BY <1>1, <1>2, TextParts DEF Texts, Cat

LEMMA ThreeAssociate ==
  ASSUME NEW x \in Texts, NEW y \in Texts, NEW z \in Texts, NEW r \in Texts
  PROVE  Cat(Cat(Cat(x, y), z), r) = Cat(x, Cat(y, Cat(z, r)))
<1>1. Cat(x, y) \in Texts /\ Cat(z, r) \in Texts
  BY TextsAssociate
<1>2. Cat(Cat(Cat(x, y), z), r) = Cat(Cat(x, y), Cat(z, r))
  BY <1>1, TextsAssociate
<1>3. Cat(Cat(x, y), Cat(z, r)) = Cat(x, Cat(y, Cat(z, r)))
  BY <1>1, TextsAssociate
<1> QED BY <1>2, <1>3

LEMMA MarkThen ==
  /\ \A m, r : Cat(Mark(m), r) = Then(M(m), r)
  /\ \A n, r : Cat(Numeral(n), r) = Then(N(n), r)
  /\ \A q, r : Cat(RegisterName(q), r) = Then(R(q), r)
BY DEF Cat, Then, Mark, Numeral, RegisterName, M, N, R

\* What can stand behind a value, the register of an address or its scale.
Ends == {M("comma"), M(")"), M("then"), M("else"), M("+"), M("-"), M("*"), M("]")}

Ended == {t \in Texts : t # <<>> /\ t[1] \in Ends}

LEMMA EndsAre ==
  /\ \A m \in {"comma", ")", "then", "else", "+", "-", "*", "]"} :
       /\ M(m) \in Ends /\ M(m) \in Token /\ m \in Marks
       /\ \A t \in Texts : Then(M(m), t) \in Ended
  /\ M(":") \notin Ends /\ M("[") \notin Ends
  /\ {"[", ":", "(", "Store(", "Assign(", "Conditional("} \subseteq Marks
<1>1. {"[", ":", "(", "Store(", "Assign(", "Conditional("} \subseteq Marks
  BY DEF Marks
<1>2. {"comma", ")", "then", "else", "+", "-", "*", "]"} \subseteq Marks
  BY DEF Marks
<1>3. M(":") \notin Ends /\ M("[") \notin Ends
  BY DEF Ends, M
<1>4. ASSUME NEW m \in {"comma", ")", "then", "else", "+", "-", "*", "]"}
      PROVE  M(m) \in Ends /\ M(m) \in Token /\ m \in Marks
  BY <1>2, TokensDiffer DEF Ends
<1>5. ASSUME NEW m \in {"comma", ")", "then", "else", "+", "-", "*", "]"}, NEW t \in Texts
      PROVE  Then(M(m), t) \in Ended
  BY <1>4, ThenIs DEF Ended
<1> QED BY <1>1, <1>3, <1>4, <1>5

\* The id of a register, if it has one.
LEMMA VersionSplits ==
  ASSUME NEW v \in RegValue, NEW w \in RegValue, NEW s \in Ended, NEW t \in Ended
  PROVE  /\ Cat(VersionText(v), s) \in Texts /\ Cat(VersionText(v), s) # <<>>
         /\ Cat(VersionText(v), s)[1] \in Ends \cup {M("[")}
         /\ Cat(VersionText(v), s) = Cat(VersionText(w), t) =>
              /\ s = t /\ (v.ssa_id >= 0 <=> w.ssa_id >= 0)
              /\ v.ssa_id >= 0 => v.ssa_id = w.ssa_id
<1>0. /\ v.ssa_id \in Int /\ w.ssa_id \in Int /\ s \in Texts /\ t \in Texts
      /\ s # <<>> /\ t # <<>> /\ s[1] \in Ends /\ t[1] \in Ends
      /\ M("[") \in Token /\ M("]") \in Token /\ M("[") \notin Ends
      /\ \A n \in Int : N(n) \in Token
  BY EndsAre, TokensDiffer DEF RegValue, Ended
<1>1. ASSUME NEW x \in RegValue, NEW r \in Texts
      PROVE  Cat(VersionText(x), r) = IF x.ssa_id >= 0
               THEN Then(M("["), Then(N(x.ssa_id), Then(M("]"), r))) ELSE r
  <2>1. CASE x.ssa_id >= 0
    <3>1. x.ssa_id \in Int
      BY DEF RegValue
    <3>2. Mark("[") \in Texts /\ Numeral(x.ssa_id) \in Texts /\ Mark("]") \in Texts
      BY <3>1, TextParts, EndsAre
    <3>3. Cat(VersionText(x), r) = Cat(Mark("["), Cat(Numeral(x.ssa_id), Cat(Mark("]"), r)))
      <4> DEFINE p == Mark("[")
                 q == Numeral(x.ssa_id)
                 u == Mark("]")
      <4>1. VersionText(x) = Cat(Cat(p, q), u)
        BY <2>1 DEF VersionText, Cat
      <4>2. p \in Texts
        BY <3>2
      <4>3. q \in Texts
        BY <3>2
      <4>4. u \in Texts
        BY <3>2
      <4> HIDE DEF p, q, u
      <4>5. Cat(Cat(Cat(p, q), u), r) = Cat(p, Cat(q, Cat(u, r)))
        BY <4>2, <4>3, <4>4, ThreeAssociate
      <4> QED BY <4>1, <4>5 DEF p, q, u
    <3> QED BY <2>1, <3>3, MarkThen
  <2>2. CASE ~(x.ssa_id >= 0)
    BY <2>2, TextsAssociate DEF VersionText
  <2> QED BY <2>1, <2>2
<1>2. ASSUME NEW n \in Int, NEW r \in Texts
      PROVE  /\ Then(M("]"), r) \in Texts /\ Then(N(n), Then(M("]"), r)) \in Texts
             /\ Then(M("["), Then(N(n), Then(M("]"), r))) \in Texts
             /\ Then(M("["), Then(N(n), Then(M("]"), r))) # <<>>
             /\ Then(M("["), Then(N(n), Then(M("]"), r)))[1] = M("[")
  <2>1. Then(M("]"), r) \in Texts
    BY <1>0, ThenIs
  <2>2. Then(N(n), Then(M("]"), r)) \in Texts
    BY <1>0, <2>1, ThenIs
  <2> QED BY <1>0, <2>1, <2>2, ThenIs
<1>3. /\ Cat(VersionText(v), s) = IF v.ssa_id >= 0
           THEN Then(M("["), Then(N(v.ssa_id), Then(M("]"), s))) ELSE s
      /\ Cat(VersionText(w), t) = IF w.ssa_id >= 0
           THEN Then(M("["), Then(N(w.ssa_id), Then(M("]"), t))) ELSE t
  BY <1>0, <1>1
<1>4. /\ Cat(VersionText(v), s) \in Texts /\ Cat(VersionText(v), s) # <<>>
      /\ Cat(VersionText(v), s)[1] \in Ends \cup {M("[")}
  BY <1>0, <1>2, <1>3
<1>5. ASSUME Cat(VersionText(v), s) = Cat(VersionText(w), t)
      PROVE  /\ s = t /\ (v.ssa_id >= 0 <=> w.ssa_id >= 0)
             /\ v.ssa_id >= 0 => v.ssa_id = w.ssa_id
  <2>1. v.ssa_id >= 0 <=> w.ssa_id >= 0
    <3>1. v.ssa_id >= 0 => Cat(VersionText(v), s)[1] = M("[")
      BY <1>0, <1>2, <1>3
    <3>2. w.ssa_id >= 0 => Cat(VersionText(w), t)[1] = M("[")
      BY <1>0, <1>2, <1>3
    <3>3. ~(v.ssa_id >= 0) => Cat(VersionText(v), s)[1] \in Ends
      BY <1>0, <1>3
    <3>4. ~(w.ssa_id >= 0) => Cat(VersionText(w), t)[1] \in Ends
      BY <1>0, <1>3
    <3> QED BY <1>0, <1>5, <3>1, <3>2, <3>3, <3>4
  <2>2. CASE v.ssa_id >= 0
    <3> DEFINE a == v.ssa_id
               b == w.ssa_id
    <3>1. Then(M("["), Then(N(a), Then(M("]"), s))) = Then(M("["), Then(N(b), Then(M("]"), t)))
      BY <1>3, <1>5, <2>1, <2>2
    <3>2. a \in Int /\ b \in Int
      BY <1>0
    <3> HIDE DEF a, b
    <3>3. Then(N(a), Then(M("]"), s)) = Then(N(b), Then(M("]"), t))
      BY <1>0, <1>2, <3>1, <3>2, ThenIs
    <3>4. N(a) = N(b) /\ Then(M("]"), s) = Then(M("]"), t)
      BY <1>0, <1>2, <3>2, <3>3, ThenIs
    <3>5. s = t /\ a = b
      BY <1>0, <3>4, ThenIs, TokensDiffer
    <3> QED BY <2>1, <3>5 DEF a, b
  <2>3. CASE ~(v.ssa_id >= 0)
    BY <1>3, <1>5, <2>1, <2>3
  <2> QED BY <2>1, <2>2, <2>3
<1> QED BY <1>4, <1>5

ShowsWidth(v) == v.width # 64 /\ v.reg \in GPR

Unmarked == {t \in Texts : t # <<>> /\ t[1] # M(":")}

LEMMA WidthSplits ==
  ASSUME NEW v \in RegValue, NEW w \in RegValue,
         NEW s \in Unmarked, NEW t \in Unmarked
  PROVE  /\ Cat(WidthText(v), s) \in Texts
         /\ Cat(WidthText(v), s) = Cat(WidthText(w), t) =>
              /\ s = t /\ (ShowsWidth(v) <=> ShowsWidth(w))
              /\ ShowsWidth(v) => v.width = w.width
<1>0. /\ M(":") \in Token /\ v.width \in Int /\ w.width \in Int
      /\ s \in Texts /\ t \in Texts /\ s[1] # M(":") /\ t[1] # M(":")
      /\ \A n \in Int : N(n) \in Token
  BY EndsAre, TokensDiffer DEF RegValue, Widths, Sizes, Unmarked
<1>1. ASSUME NEW x \in RegValue, NEW r \in Texts
      PROVE  Cat(WidthText(x), r) = IF ShowsWidth(x) THEN Then(M(":"), Then(N(x.width), r)) ELSE r
  <2>1. CASE ShowsWidth(x)
    <3>1. x.width \in Int
      BY DEF RegValue, Widths, Sizes
    <3>2. Mark(":") \in Texts /\ Numeral(x.width) \in Texts
      BY <3>1, TextParts, EndsAre
    <3>3. Cat(WidthText(x), r) = Cat(Mark(":"), Cat(Numeral(x.width), r))
      <4>1. WidthText(x) = Cat(Mark(":"), Numeral(x.width))
        BY <2>1 DEF WidthText, ShowsWidth, Cat
      <4> QED BY <3>2, <4>1, TextsAssociate
    <3> QED BY <2>1, <3>3, MarkThen
  <2>2. CASE ~ShowsWidth(x)
    BY <2>2, TextsAssociate DEF WidthText, ShowsWidth
  <2> QED BY <2>1, <2>2
<1>2. ASSUME NEW n \in Int, NEW r \in Texts
      PROVE  /\ Then(N(n), r) \in Texts /\ Then(M(":"), Then(N(n), r)) \in Texts
             /\ Then(M(":"), Then(N(n), r))[1] = M(":")
  <2>1. Then(N(n), r) \in Texts
    BY <1>0, ThenIs
  <2> QED BY <1>0, <2>1, ThenIs
<1>3. /\ Cat(WidthText(v), s) = IF ShowsWidth(v) THEN Then(M(":"), Then(N(v.width), s)) ELSE s
      /\ Cat(WidthText(w), t) = IF ShowsWidth(w) THEN Then(M(":"), Then(N(w.width), t)) ELSE t
  BY <1>0, <1>1
<1>4. Cat(WidthText(v), s) \in Texts
  BY <1>0, <1>2, <1>3
<1>5. ASSUME Cat(WidthText(v), s) = Cat(WidthText(w), t)
      PROVE  /\ s = t /\ (ShowsWidth(v) <=> ShowsWidth(w))
             /\ ShowsWidth(v) => v.width = w.width
  <2>1. ShowsWidth(v) <=> ShowsWidth(w)
    BY <1>0, <1>2, <1>3, <1>5
  <2>2. CASE ShowsWidth(v)
    <3> DEFINE a == v.width
               b == w.width
    <3>1. Then(M(":"), Then(N(a), s)) = Then(M(":"), Then(N(b), t))
      BY <1>3, <1>5, <2>1, <2>2
    <3>2. a \in Int /\ b \in Int
      BY <1>0
    <3> HIDE DEF a, b
    <3>3. Then(N(a), s) = Then(N(b), t)
      BY <1>0, <1>2, <3>1, <3>2, ThenIs
    <3>4. N(a) = N(b) /\ s = t
      BY <1>0, <3>2, <3>3, ThenIs
    <3>5. a = b
      BY <3>4, TokensDiffer
    <3> QED BY <2>1, <3>4, <3>5 DEF a, b
  <2>3. CASE ~ShowsWidth(v)
    BY <1>3, <1>5, <2>1, <2>3
  <2> QED BY <2>1, <2>2, <2>3
<1> QED BY <1>4, <1>5

LEMMA ShownRegisterIs ==
  ASSUME NEW x \in RegValue
  PROVE  ShownRegister(x) = [kind |-> "reg", reg |-> x.reg,
                             width |-> IF x.reg \in GPR THEN x.width ELSE 64,
                             ssa_id |-> IF x.ssa_id < 0 THEN -1 ELSE x.ssa_id]
<1> DEFINE a == IF x.reg \in GPR THEN x.width ELSE 64
           b == IF x.ssa_id < 0 THEN -1 ELSE x.ssa_id
<1>1. ShownRegister(x) = [[x EXCEPT !.width = a] EXCEPT !.ssa_id = b]
  BY DEF ShownRegister
<1> HIDE DEF a, b
<1>2. x = [kind |-> "reg", reg |-> x.reg, width |-> x.width, ssa_id |-> x.ssa_id]
  BY DEF RegValue
<1> DEFINE y == [kind |-> "reg", reg |-> x.reg, width |-> a, ssa_id |-> x.ssa_id]
<1>3. [x EXCEPT !.width = a] = y
  BY <1>2
<1>4. [y EXCEPT !.ssa_id = b] = [kind |-> "reg", reg |-> x.reg, width |-> a, ssa_id |-> b]
  OBVIOUS
<1> HIDE DEF y
<1> QED BY <1>1, <1>3, <1>4 DEF a, b

\* A register reads as itself, whatever stands behind it.
LEMMA RegisterSplits ==
  ASSUME NEW v \in RegValue, NEW w \in RegValue, NEW s \in Ended, NEW t \in Ended
  PROVE  /\ Cat(RegisterText(v), s) \in Texts /\ Cat(RegisterText(v), s) # <<>>
         /\ Cat(RegisterText(v), s)[1] = R(v.reg)
         /\ Cat(RegisterText(v), s) = Cat(RegisterText(w), t) =>
              s = t /\ ShownRegister(v) = ShownRegister(w)
<1>10. /\ Cat(VersionText(v), s) \in Texts /\ Cat(VersionText(v), s) # <<>>
       /\ Cat(VersionText(v), s)[1] \in Ends \cup {M("[")}
       /\ Cat(VersionText(v), s) = Cat(VersionText(w), t) =>
              /\ s = t /\ (v.ssa_id >= 0 <=> w.ssa_id >= 0)
              /\ v.ssa_id >= 0 => v.ssa_id = w.ssa_id
  BY VersionSplits
<1> DEFINE a == Cat(VersionText(v), s)
           b == Cat(VersionText(w), t)
           c == Cat(WidthText(v), a)
           d == Cat(WidthText(w), b)
<1>0. v.reg \in Reg /\ w.reg \in Reg /\ s \in Texts /\ t \in Texts
      /\ R(v.reg) \in Token /\ R(w.reg) \in Token
  BY TokensDiffer DEF RegValue, Ended
<1>1. /\ a \in Texts /\ a # <<>> /\ a[1] \in Ends \cup {M("[")}
      /\ a = b => /\ s = t /\ (v.ssa_id >= 0 <=> w.ssa_id >= 0)
                  /\ v.ssa_id >= 0 => v.ssa_id = w.ssa_id
  BY <1>10
<1>2. b \in Texts /\ b # <<>> /\ b[1] \in Ends \cup {M("[")}
  BY VersionSplits
<1>3. M(":") # M("[") /\ M(":") \notin Ends
  BY EndsAre DEF M
<1>4. \A x \in RegValue, r \in Texts :
        Cat(RegisterText(x), r) = Then(R(x.reg), Cat(WidthText(x), Cat(VersionText(x), r)))
  <2> SUFFICES ASSUME NEW x \in RegValue, NEW r \in Texts
               PROVE  Cat(RegisterText(x), r) = Then(R(x.reg), Cat(WidthText(x), Cat(VersionText(x), r)))
    OBVIOUS
  <2>1. x.reg \in Reg /\ x.width \in Int /\ x.ssa_id \in Int
    BY DEF RegValue, Widths, Sizes
  <2>2. WidthText(x) \in Texts /\ VersionText(x) \in Texts /\ RegisterName(x.reg) \in Texts
    BY <2>1, TextParts, EndsAre DEF WidthText, VersionText
  <2>3. RegisterText(x) = Cat(Cat(RegisterName(x.reg), WidthText(x)), VersionText(x))
    BY DEF RegisterText, Cat
  <2> DEFINE p == RegisterName(x.reg)
             q == WidthText(x)
             u == VersionText(x)
  <2>7. p \in Texts
    BY <2>2
  <2>8. q \in Texts
    BY <2>2
  <2>9. u \in Texts
    BY <2>2
  <2>5. RegisterText(x) = Cat(Cat(p, q), u)
    BY <2>3
  <2> HIDE DEF p, q, u
  <2>6. Cat(Cat(Cat(p, q), u), r) = Cat(p, Cat(q, Cat(u, r)))
    BY <2>7, <2>8, <2>9, ThreeAssociate
  <2>4. Cat(RegisterText(x), r) = Cat(RegisterName(x.reg), Cat(WidthText(x), Cat(VersionText(x), r)))
    BY <2>5, <2>6 DEF p, q, u
  <2> QED BY <2>4, MarkThen
<1>5. Cat(RegisterText(v), s) = Then(R(v.reg), c) /\ Cat(RegisterText(w), t) = Then(R(w.reg), d)
  BY <1>0, <1>4
<1> HIDE DEF a, b
<1>6. a[1] # M(":") /\ b[1] # M(":")
  BY <1>1, <1>2, <1>3
<1>7. /\ c \in Texts /\ d \in Texts
      /\ c = d => /\ a = b /\ (ShowsWidth(v) <=> ShowsWidth(w))
                  /\ ShowsWidth(v) => v.width = w.width
  <2>1. a \in Texts
    BY <1>1
  <2>2. b \in Texts
    BY <1>2
  <2>3. a # <<>> /\ b # <<>> /\ a[1] # M(":") /\ b[1] # M(":")
    BY <1>1, <1>2, <1>6
  <2>4. a \in Unmarked /\ b \in Unmarked
    BY <2>1, <2>2, <2>3 DEF Unmarked
  <2>5. a \in Unmarked
    BY <2>4
  <2>6. b \in Unmarked
    BY <2>4
  <2>7. /\ Cat(WidthText(v), a) \in Texts
        /\ Cat(WidthText(v), a) = Cat(WidthText(w), b) =>
              /\ a = b /\ (ShowsWidth(v) <=> ShowsWidth(w))
              /\ ShowsWidth(v) => v.width = w.width
    BY <2>5, <2>6, WidthSplits
  <2>8. /\ Cat(WidthText(w), b) \in Texts
        /\ Cat(WidthText(w), b) = Cat(WidthText(v), a) =>
              /\ b = a /\ (ShowsWidth(w) <=> ShowsWidth(v))
              /\ ShowsWidth(w) => w.width = v.width
    BY <2>5, <2>6, WidthSplits
  <2> QED BY <2>7, <2>8
<1> HIDE DEF c, d
<1>8. Then(R(v.reg), c) \in Texts /\ Then(R(v.reg), c) # <<>> /\ Then(R(v.reg), c)[1] = R(v.reg)
      /\ (Then(R(v.reg), c) = Then(R(w.reg), d) => R(v.reg) = R(w.reg) /\ c = d)
  BY <1>0, <1>7, ThenIs
<1>9. ASSUME Cat(RegisterText(v), s) = Cat(RegisterText(w), t)
      PROVE  s = t /\ ShownRegister(v) = ShownRegister(w)
  <2>1. v.reg = w.reg /\ c = d
    BY <1>5, <1>8, <1>9, TokensDiffer
  <2>2. /\ s = t /\ (v.ssa_id >= 0 <=> w.ssa_id >= 0) /\ (v.ssa_id >= 0 => v.ssa_id = w.ssa_id)
        /\ (ShowsWidth(v) <=> ShowsWidth(w)) /\ (ShowsWidth(v) => v.width = w.width)
    BY <1>1, <1>7, <2>1
  <2>3. \A x \in RegValue :
          ShownRegister(x) = [kind |-> "reg", reg |-> x.reg,
                              width |-> IF x.reg \in GPR THEN x.width ELSE 64,
                              ssa_id |-> IF x.ssa_id < 0 THEN -1 ELSE x.ssa_id]
    BY ShownRegisterIs
  <2>4. v.ssa_id \in Int /\ w.ssa_id \in Int
    BY DEF RegValue
  <2>5. (IF v.ssa_id < 0 THEN -1 ELSE v.ssa_id) = (IF w.ssa_id < 0 THEN -1 ELSE w.ssa_id)
    BY <2>2, <2>4
  <2>6. (IF v.reg \in GPR THEN v.width ELSE 64) = (IF w.reg \in GPR THEN w.width ELSE 64)
    BY <2>1, <2>2 DEF ShowsWidth
  <2> QED BY <2>1, <2>2, <2>3, <2>5, <2>6
<1> QED BY <1>5, <1>8, <1>9


LEMMA ThenApart ==
  ASSUME NEW x \in Token, NEW s \in Texts, NEW y \in Token, NEW t \in Texts,
         Then(x, s) = Then(y, t)
  PROVE  x = y /\ s = t
BY ThenIs

\* What stands behind the terms of an address, and what stands there instead of
\* them: the displacement and the end of the address.
Close(s) == Then(M("]"), s)
Shifted(n, s) ==
  IF n = 0 THEN Close(s)
  ELSE Then(M(IF n > 0 THEN "+" ELSE "-"), Then(N(Magnitude(n)), Close(s)))
Alone(n, s) == IF n = 0 THEN Close(s) ELSE Then(N(Magnitude(n)), Close(s))

LEMMA NumberTexts ==
  ASSUME NEW n \in Int, NEW s \in Texts
  PROVE  /\ Magnitude(n) \in Int /\ N(Magnitude(n)) \in Token
         /\ M("]") \in Token /\ M("+") \in Token /\ M("-") \in Token
         /\ Close(s) \in Texts /\ Close(s) \in Ended /\ Close(s)[1] = M("]")
         /\ Then(N(Magnitude(n)), Close(s)) \in Texts
         /\ Then(N(Magnitude(n)), Close(s))[1] = N(Magnitude(n))
<1>1. Magnitude(n) \in Int /\ N(Magnitude(n)) \in Token
  BY TokensDiffer DEF Magnitude
<1>2. M("]") \in Token /\ M("+") \in Token /\ M("-") \in Token
  BY EndsAre
<1>3. Close(s) \in Texts /\ Close(s)[1] = M("]")
  BY <1>2, ThenIs DEF Close
<1>4. Close(s) \in Ended
  BY EndsAre DEF Close
<1>5. /\ Then(N(Magnitude(n)), Close(s)) \in Texts
      /\ Then(N(Magnitude(n)), Close(s))[1] = N(Magnitude(n))
  BY <1>1, <1>3, ThenIs
<1> QED BY <1>1, <1>2, <1>3, <1>4, <1>5

LEMMA ShiftedIs ==
  ASSUME NEW n \in Int, NEW s \in Texts
  PROVE  /\ Shifted(n, s) \in Texts /\ Shifted(n, s) \in Ended
         /\ n = 0 => Shifted(n, s)[1] = M("]")
         /\ n > 0 => Shifted(n, s)[1] = M("+")
         /\ n < 0 => Shifted(n, s)[1] = M("-")
<1> DEFINE u == Then(N(Magnitude(n)), Close(s))
<1>1. u \in Texts /\ M("+") \in Token /\ M("-") \in Token
  BY NumberTexts
<1>2. Shifted(n, s) = IF n = 0 THEN Close(s) ELSE IF n > 0 THEN Then(M("+"), u) ELSE Then(M("-"), u)
  BY DEF Shifted
<1> HIDE DEF u
<1>3. CASE n = 0
  BY <1>2, <1>3, NumberTexts
<1>4. CASE n > 0
  <2>1. Shifted(n, s) = Then(M("+"), u)
    BY <1>2, <1>4
  <2>2. Then(M("+"), u) \in Texts /\ Then(M("+"), u)[1] = M("+")
    BY <1>1, ThenIs
  <2>3. Then(M("+"), u) \in Ended
    BY <1>1, EndsAre
  <2> QED BY <1>4, <2>1, <2>2, <2>3
<1>5. CASE n < 0
  <2>1. Shifted(n, s) = Then(M("-"), u)
    BY <1>2, <1>5
  <2>2. Then(M("-"), u) \in Texts /\ Then(M("-"), u)[1] = M("-")
    BY <1>1, ThenIs
  <2>3. Then(M("-"), u) \in Ended
    BY <1>1, EndsAre
  <2> QED BY <1>5, <2>1, <2>2, <2>3
<1> QED BY <1>3, <1>4, <1>5

LEMMA MarksApart ==
  /\ M("+") # M("-") /\ M("+") # M("]") /\ M("-") # M("]") /\ M("*") # M("+")
  /\ M("*") # M("-") /\ M("*") # M("]")
BY DEF M

LEMMA ShiftedSplits ==
  ASSUME NEW m \in Int, NEW s \in Texts, NEW n \in Int, NEW t \in Texts,
         Shifted(m, s) = Shifted(n, t)
  PROVE  m = n /\ s = t
<1> DEFINE a == Magnitude(m)
           b == Magnitude(n)
           u == Then(N(a), Close(s))
           v == Then(N(b), Close(t))
<1>1. /\ m = 0 => Shifted(m, s)[1] = M("]")
      /\ m > 0 => Shifted(m, s)[1] = M("+")
      /\ m < 0 => Shifted(m, s)[1] = M("-")
  BY ShiftedIs
<1>2. /\ n = 0 => Shifted(n, t)[1] = M("]")
      /\ n > 0 => Shifted(n, t)[1] = M("+")
      /\ n < 0 => Shifted(n, t)[1] = M("-")
  BY ShiftedIs
<1>3. (m = 0 <=> n = 0) /\ (m > 0 <=> n > 0) /\ (m < 0 <=> n < 0)
  BY <1>1, <1>2, MarksApart
<1>4. Close(s) = Close(t) => s = t
  BY NumberTexts, ThenApart DEF Close
<1>5. u = v => N(a) = N(b) /\ Close(s) = Close(t)
  <2>1. N(a) \in Token /\ Close(s) \in Texts
    BY NumberTexts
  <2>2. N(b) \in Token /\ Close(t) \in Texts
    BY NumberTexts
  <2> HIDE DEF a, b
  <2> QED BY <2>1, <2>2, ThenApart
<1>6. CASE m = 0
  BY <1>3, <1>4, <1>6 DEF Shifted
<1>7. CASE m # 0
  <2> DEFINE x == M(IF m > 0 THEN "+" ELSE "-")
             y == M(IF n > 0 THEN "+" ELSE "-")
  <2>1. Shifted(m, s) = Then(x, u) /\ Shifted(n, t) = Then(y, v)
    BY <1>3, <1>7 DEF Shifted
  <2>2. x \in Token
    BY NumberTexts
  <2>3. y \in Token
    BY NumberTexts
  <2>4. u \in Texts
    BY NumberTexts
  <2>5. v \in Texts
    BY NumberTexts
  <2> HIDE DEF x, y, u, v
  <2>6. u = v
    BY <2>1, <2>2, <2>3, <2>4, <2>5, ThenApart
  <2>7. a = b /\ s = t
    BY <1>4, <1>5, <2>6, TokensDiffer
  <2>8. m = n
    BY <1>3, <1>7, <2>7 DEF Magnitude
  <2> QED BY <2>7, <2>8
<1> QED BY <1>6, <1>7

LEMMA AloneSplits ==
  ASSUME NEW m \in Int, NEW s \in Texts, NEW n \in Int, NEW t \in Texts
  PROVE  /\ Alone(m, s) \in Texts /\ Alone(m, s) # <<>>
         /\ \A r : Alone(m, s)[1] # R(r)
         /\ Alone(m, s) = Alone(n, t) => Magnitude(m) = Magnitude(n) /\ s = t
<1> DEFINE a == Magnitude(m)
           b == Magnitude(n)
<1>1. /\ a \in Int /\ N(a) \in Token /\ Close(s) \in Texts /\ Close(s)[1] = M("]")
      /\ Then(N(a), Close(s))[1] = N(a) /\ Then(N(a), Close(s)) \in Texts
  BY NumberTexts
<1>2. /\ b \in Int /\ N(b) \in Token /\ Close(t) \in Texts /\ Close(t)[1] = M("]")
      /\ Then(N(b), Close(t))[1] = N(b)
  BY NumberTexts
<1>3. Close(s) # <<>> /\ Then(N(a), Close(s)) # <<>>
  <2>1. Close(s) # <<>>
    BY NumberTexts DEF Ended
  <2> HIDE DEF a
  <2> QED BY <1>1, <2>1, ThenIs
<1>4. /\ Alone(m, s) \in Texts /\ Alone(m, s) # <<>> /\ \A r : Alone(m, s)[1] # R(r)
  BY <1>1, <1>3, TokensDiffer DEF Alone
<1>5. ASSUME Alone(m, s) = Alone(n, t) PROVE a = b /\ s = t
  <2>1. m = 0 => Alone(m, s) = Close(s) /\ a = 0
    BY DEF Alone, Magnitude
  <2>2. n = 0 => Alone(n, t) = Close(t) /\ b = 0
    BY DEF Alone, Magnitude
  <2>3. m # 0 => Alone(m, s) = Then(N(a), Close(s))
    BY DEF Alone
  <2>4. n # 0 => Alone(n, t) = Then(N(b), Close(t))
    BY DEF Alone
  <2>5. m = 0 <=> n = 0
    BY <1>1, <1>2, <1>5, <2>1, <2>2, <2>3, <2>4, TokensDiffer
  <2>6. Close(s) = Close(t) => s = t
    BY NumberTexts, ThenApart DEF Close
  <2> HIDE DEF a, b
  <2>7. Then(N(a), Close(s)) = Then(N(b), Close(t)) => N(a) = N(b) /\ Close(s) = Close(t)
    BY <1>1, <1>2, ThenApart
  <2> QED BY <1>5, <2>1, <2>2, <2>3, <2>4, <2>5, <2>6, <2>7, TokensDiffer
<1> QED BY <1>4, <1>5

\* The scale of an index, and what can stand behind it.
Scaled(k, x) == IF k # 1 THEN Then(M("*"), Then(N(k), x)) ELSE x
Unscaled == {t \in Ended : t[1] # M("*")}

LEMMA ScaledIs ==
  ASSUME NEW k \in Int, NEW x \in Unscaled
  PROVE  /\ Scaled(k, x) \in Ended /\ Scaled(k, x) \in Texts
         /\ M("*") \in Token /\ N(k) \in Token /\ Then(N(k), x) \in Texts /\ x \in Texts
         /\ k # 1 => Scaled(k, x)[1] = M("*")
<1>1. x \in Texts /\ x \in Ended /\ M("*") \in Token /\ N(k) \in Token
  BY EndsAre, TokensDiffer DEF Unscaled, Ended
<1>2. Then(N(k), x) \in Texts
  BY <1>1, ThenIs
<1> DEFINE u == Then(N(k), x)
<1> HIDE DEF u
<1>3. u \in Texts /\ Scaled(k, x) = IF k # 1 THEN Then(M("*"), u) ELSE x
  BY <1>2 DEF Scaled, u
<1>4. Then(M("*"), u) \in Texts /\ Then(M("*"), u)[1] = M("*")
  BY <1>1, <1>3, ThenIs
<1>5. Then(M("*"), u) \in Ended
  BY <1>3, EndsAre
<1> QED BY <1>1, <1>2, <1>3, <1>4, <1>5

LEMMA ScaledSplits ==
  ASSUME NEW k \in Int, NEW x \in Unscaled, NEW l \in Int, NEW y \in Unscaled,
         Scaled(k, x) = Scaled(l, y)
  PROVE  k = l /\ x = y
<1>1. /\ M("*") \in Token /\ N(k) \in Token /\ Then(N(k), x) \in Texts /\ x \in Texts
      /\ k # 1 => Scaled(k, x)[1] = M("*")
  BY ScaledIs
<1>2. /\ N(l) \in Token /\ Then(N(l), y) \in Texts /\ y \in Texts
      /\ l # 1 => Scaled(l, y)[1] = M("*")
  BY ScaledIs
<1>3. k = 1 => Scaled(k, x) = x
  BY DEF Scaled
<1>4. l = 1 => Scaled(l, y) = y
  BY DEF Scaled
<1>5. x[1] # M("*") /\ y[1] # M("*")
  BY DEF Unscaled
<1>6. k = 1 <=> l = 1
  BY <1>1, <1>2, <1>3, <1>4, <1>5
<1>7. CASE k = 1
  BY <1>3, <1>4, <1>6, <1>7
<1>8. CASE k # 1
  <2>1. Scaled(k, x) = Then(M("*"), Then(N(k), x)) /\ Scaled(l, y) = Then(M("*"), Then(N(l), y))
    BY <1>6, <1>8 DEF Scaled
  <2> DEFINE u == Then(N(k), x)
             v == Then(N(l), y)
  <2>2. u \in Texts
    BY <1>1
  <2>3. v \in Texts
    BY <1>2
  <2>4. M("*") \in Token /\ Then(M("*"), u) = Then(M("*"), v)
    BY <1>1, <2>1
  <2> HIDE DEF u, v
  <2>5. u = v
    BY <2>2, <2>3, <2>4, ThenApart
  <2>6. N(k) = N(l) /\ x = y
    BY <1>1, <1>2, <2>5, ThenApart DEF u, v
  <2> QED BY <2>6, TokensDiffer
<1> QED BY <1>7, <1>8


\* An address, from the left: the register that leads, if there is one, what
\* multiplies it, and the rest.
Lead(v) == IF v.base = NullValue THEN v.index ELSE v.base
Factor(v) == IF v.index = NullValue THEN 1 ELSE v.scale
Terse(v) == v.base = NullValue /\ v.index = NullValue
Both(v) == v.base # NullValue /\ v.index # NullValue

Tail1(v, s) == Scaled(Factor(v), Shifted(v.displacement, s))
Rest(v, s) == IF Both(v) THEN Then(M("+"), Cat(RegisterText(v.index), Tail1(v, s))) ELSE Tail1(v, s)
Inside(v, s) ==
  IF Terse(v) THEN Alone(v.displacement, s) ELSE Cat(RegisterText(Lead(v)), Rest(v, s))

LEMMA AddressParts ==
  ASSUME NEW v \in MemoryValue
  PROVE  /\ v.displacement \in Int /\ v.scale \in Int /\ Factor(v) \in Int
         /\ v.base # NullValue => v.base \in RegValue
         /\ v.index # NullValue => v.index \in RegValue
         /\ ~Terse(v) => Lead(v) \in RegValue
         /\ Both(v) => v.index \in RegValue /\ Lead(v) = v.base
BY TermsAreRegisters DEF Factor, Terse, Lead, Both

LEMMA ShownMemoryIs ==
  ASSUME NEW v \in MemoryValue
  PROVE  /\ Terse(v) => ShownMemory(v) = MemV(8, NullValue, NullValue, 1, Magnitude(v.displacement))
         /\ ~Terse(v) /\ ~Both(v) =>
              ShownMemory(v) =
                IF Factor(v) = 1
                THEN MemV(8, ShownRegister(Lead(v)), NullValue, 1, v.displacement)
                ELSE MemV(8, NullValue, ShownRegister(Lead(v)), Factor(v), v.displacement)
         /\ Both(v) => ShownMemory(v) = MemV(8, ShownRegister(Lead(v)), ShownRegister(v.index),
                                             Factor(v), v.displacement)
<1> DEFINE swapped == v.base = NullValue /\ v.index # NullValue /\ v.scale = 1
           base == IF swapped THEN v.index ELSE v.base
           index == IF swapped THEN NullValue ELSE v.index
<1>1. ShownMemory(v) =
        MemV(8, ShownOptional(base), ShownOptional(index), IF index = NullValue THEN 1 ELSE v.scale,
             IF base = NullValue /\ index = NullValue THEN Magnitude(v.displacement)
             ELSE v.displacement)
  BY DEF ShownMemory
<1>2. \A x : ShownOptional(x) = IF x = NullValue THEN NullValue ELSE ShownRegister(x)
  BY DEF ShownOptional
<1>3. CASE Terse(v)
  <2>1. base = NullValue /\ index = NullValue
    BY <1>3 DEF Terse
  <2> HIDE DEF base, index
  <2> QED BY <1>1, <1>2, <1>3, <2>1 DEF Both, Terse
<1>4. CASE Both(v)
  <2>1. base = v.base /\ index = v.index /\ base # NullValue /\ index # NullValue
        /\ Lead(v) = v.base /\ Factor(v) = v.scale
    BY <1>4 DEF Both, Lead, Factor
  <2> HIDE DEF base, index
  <2> QED BY <1>1, <1>2, <1>4, <2>1 DEF Both, Terse
<1>5. CASE ~Terse(v) /\ ~Both(v)
  <2>1. CASE Factor(v) = 1
    <3>1. base = Lead(v) /\ index = NullValue /\ base # NullValue
      BY <1>5, <2>1 DEF Both, Terse, Lead, Factor
    <3> HIDE DEF base, index
    <3> QED BY <1>1, <1>2, <1>5, <2>1, <3>1 DEF Both, Terse
  <2>2. CASE Factor(v) # 1
    <3>1. base = NullValue /\ index = Lead(v) /\ index # NullValue /\ v.scale = Factor(v)
      BY <1>5, <2>2 DEF Both, Terse, Lead, Factor
    <3> HIDE DEF base, index
    <3> QED BY <1>1, <1>2, <1>5, <2>2, <3>1 DEF Both, Terse
  <2> QED BY <2>1, <2>2
<1> QED BY <1>3, <1>4, <1>5

Associate(a, b, c, d, e, f, r) ==
  Cat(Cat(Cat(Cat(Cat(Cat(a, b), c), d), e), f), r)
    = Cat(a, Cat(b, Cat(c, Cat(d, Cat(e, Cat(f, r))))))

LEMMA MoreAssociate ==
  ASSUME NEW a \in Texts, NEW b \in Texts, NEW c \in Texts, NEW d \in Texts, NEW e \in Texts,
         NEW f \in Texts, NEW r \in Texts
  PROVE  Associate(a, b, c, d, e, f, r)
<1> DEFINE x == Cat(Cat(Cat(a, b), c), d)
           y == Cat(e, Cat(f, r))
<1>1. Cat(a, b) \in Texts /\ Cat(Cat(a, b), c) \in Texts
  BY TextsAssociate
<1>2. x \in Texts /\ y \in Texts
  <2>1. Cat(f, r) \in Texts
    BY TextsAssociate
  <2> QED BY <1>1, <2>1, TextsAssociate
<1>3. Cat(x, y) = Cat(a, Cat(b, Cat(c, Cat(d, y))))
  <2>1. Cat(x, y) = Cat(Cat(a, b), Cat(c, Cat(d, y)))
    <3> DEFINE p == Cat(a, b)
    <3>1. p \in Texts
      BY <1>1
    <3> HIDE DEF p, y
    <3>2. Cat(Cat(Cat(p, c), d), y) = Cat(p, Cat(c, Cat(d, y)))
      BY <1>2, <3>1, ThreeAssociate
    <3> QED BY <3>2 DEF p
  <2>2. Cat(c, Cat(d, y)) \in Texts
    <3> HIDE DEF y
    <3>1. Cat(d, y) \in Texts
      BY <1>2, TextsAssociate
    <3> QED BY <3>1, TextsAssociate
  <2> HIDE DEF x, y
  <2>3. Cat(Cat(a, b), Cat(c, Cat(d, y))) = Cat(a, Cat(b, Cat(c, Cat(d, y))))
    BY <2>2, TextsAssociate
  <2> QED BY <2>1, <2>3
<1>4. Cat(Cat(Cat(x, e), f), r) = Cat(x, y)
  <2> HIDE DEF x
  <2> QED BY <1>2, ThreeAssociate
<1> QED BY <1>3, <1>4 DEF Associate

LEMMA TailIs ==
  ASSUME NEW v \in MemoryValue, NEW s \in Texts
  PROVE  Tail1(v, s) \in Ended /\ Tail1(v, s) \in Texts
         /\ Shifted(v.displacement, s) \in Unscaled
<1>1. v.displacement \in Int /\ Factor(v) \in Int
  BY AddressParts
<1> DEFINE d == v.displacement
           x == Shifted(d, s)
<1>2. /\ x \in Ended /\ (d = 0 => x[1] = M("]")) /\ (d > 0 => x[1] = M("+"))
      /\ (d < 0 => x[1] = M("-"))
  BY <1>1, ShiftedIs
<1>3. d = 0 \/ d > 0 \/ d < 0
  BY <1>1
<1>4. x \in Unscaled
  BY <1>2, <1>3, MarksApart DEF Unscaled
<1> HIDE DEF x
<1>5. Scaled(Factor(v), x) \in Ended /\ Scaled(Factor(v), x) \in Texts
  BY <1>1, <1>4, ScaledIs
<1> QED BY <1>4, <1>5 DEF Tail1, x

LEMMA MemoryReads ==
  ASSUME NEW v \in MemoryValue, NEW s \in Texts
  PROVE  Cat(MemoryText(v), s) = Then(M("["), Inside(v, s))
<1> DEFINE plus == IF v.base = NullValue \/ v.index = NullValue THEN <<>> ELSE Mark("+")
           a == Mark("[")
           b == BaseText(v)
           d == IndexText(v)
           e == DisplacementText(v)
           f == Mark("]")
           n == v.displacement
           close == Close(s)
<1>0. n \in Int /\ v.scale \in Int
  BY AddressParts
<1>1. b \in Texts /\ plus \in Texts /\ a \in Texts /\ f \in Texts
  BY AddressParts, RegisterTextType, TextParts DEF BaseText, Marks
<1>2. ScaleText(v) \in Texts
  BY <1>0, TextParts DEF ScaleText, Marks
<1>3. d \in Texts
  BY <1>2, AddressParts, RegisterTextType, TextParts DEF IndexText
<1>4. Numeral(Magnitude(n)) \in Texts /\ \A first \in BOOLEAN : SignText(v, first) \in Texts
  BY <1>0, NumberTexts, TextParts DEF SignText, Marks
<1>5. e \in Texts
  BY <1>4, TextParts DEF DisplacementText
<1>6. close \in Texts /\ Cat(f, s) = close
  BY <1>0, NumberTexts, MarkThen DEF Close
<1>7. MemoryText(v) = Cat(Cat(Cat(Cat(Cat(a, b), plus), d), e), f)
  BY DEF MemoryText, Cat
<1>8. Cat(e, close) = IF Terse(v) THEN Alone(n, s) ELSE Shifted(n, s)
  <2>1. CASE n = 0
    <3>1. e = <<>>
      BY <2>1 DEF DisplacementText
    <3> HIDE DEF e
    <3> QED BY <1>6, <2>1, <3>1, TextsAssociate DEF Alone, Shifted
  <2>2. CASE n # 0
    <3> DEFINE sign == SignText(v, Terse(v))
               num == Numeral(Magnitude(n))
    <3>1. e = Cat(sign, num)
      BY <2>2 DEF DisplacementText, Cat, Terse
    <3>2. sign \in Texts
      BY <1>4 DEF Terse
    <3>3. num \in Texts
      BY <1>4
    <3>4. Cat(num, close) = Then(N(Magnitude(n)), close)
      BY MarkThen
    <3>5. CASE Terse(v)
      <4>1. sign = <<>>
        BY <3>5 DEF SignText
      <4> HIDE DEF sign, num, e, close
      <4>2. e = num
        BY <3>1, <3>3, <4>1, TextsAssociate
      <4> QED BY <2>2, <3>4, <3>5, <4>2 DEF Alone, close
    <3>6. CASE ~Terse(v)
      <4> DEFINE mark == IF n > 0 THEN "+" ELSE "-"
      <4>1. sign = Mark(mark)
        BY <3>6 DEF SignText
      <4> HIDE DEF sign, num, e, close, mark
      <4>2. Cat(e, close) = Cat(sign, Cat(num, close))
        BY <1>6, <3>1, <3>2, <3>3, TextsAssociate
      <4>3. Cat(e, close) = Then(M(mark), Then(N(Magnitude(n)), close))
        BY <3>4, <4>1, <4>2, MarkThen
      <4> QED BY <2>2, <3>6, <4>3 DEF Shifted, close, mark
    <3> QED BY <3>5, <3>6
  <2> QED BY <2>1, <2>2
<1> DEFINE shifted == Shifted(n, s)
<1>9. shifted \in Texts
  BY <1>0, ShiftedIs
<1>10. v.index # NullValue => Cat(d, shifted) = Cat(RegisterText(v.index), Tail1(v, s))
  <2> SUFFICES ASSUME v.index # NullValue
               PROVE  Cat(d, shifted) = Cat(RegisterText(v.index), Tail1(v, s))
    OBVIOUS
  <2> DEFINE x == RegisterText(v.index)
             k == ScaleText(v)
  <2>1. d = Cat(x, k) /\ Factor(v) = v.scale
    BY DEF IndexText, Cat, Factor
  <2>2. x \in Texts
    BY AddressParts, RegisterTextType
  <2>3. k \in Texts
    BY <1>2
  <2>4. Cat(k, shifted) = Tail1(v, s)
    <3>1. CASE v.scale = 1
      <4>1. k = <<>>
        BY <3>1 DEF ScaleText
      <4> HIDE DEF k, shifted
      <4>2. Cat(k, shifted) = shifted
        BY <1>9, <4>1, TextsAssociate
      <4> QED BY <2>1, <3>1, <4>2 DEF Tail1, Scaled, shifted
    <3>2. CASE v.scale # 1
      <4> DEFINE y == Mark("*")
                 z == Numeral(v.scale)
      <4>1. k = Cat(y, z)
        BY <3>2 DEF ScaleText, Cat
      <4>2. y \in Texts
        BY TextParts DEF Marks
      <4>3. z \in Texts
        BY <1>0, TextParts
      <4> HIDE DEF y, z, k, shifted
      <4>4. Cat(k, shifted) = Cat(y, Cat(z, shifted))
        BY <1>9, <4>1, <4>2, <4>3, TextsAssociate
      <4>5. Cat(k, shifted) = Then(M("*"), Then(N(v.scale), shifted))
        BY <4>4, MarkThen DEF y, z
      <4> QED BY <2>1, <3>2, <4>5 DEF Tail1, Scaled, shifted
    <3> QED BY <3>1, <3>2
  <2> HIDE DEF x, k, d, shifted
  <2> QED BY <1>9, <2>1, <2>2, <2>3, <2>4, TextsAssociate DEF x
<1>11. v.index = NullValue => Cat(d, shifted) = Tail1(v, s)
  <2> SUFFICES ASSUME v.index = NullValue PROVE Cat(d, shifted) = Tail1(v, s)
    OBVIOUS
  <2>1. d = <<>> /\ Factor(v) = 1
    BY DEF IndexText, Factor
  <2> HIDE DEF d, shifted
  <2> QED BY <1>9, <2>1, TextsAssociate DEF Tail1, Scaled, shifted
<1>12. Cat(MemoryText(v), s) = Then(M("["), Cat(b, Cat(plus, Cat(d, Cat(e, close)))))
  <2> HIDE DEF b, d, e, f, plus, a, close
  <2>1. Associate(a, b, plus, d, e, f, s)
    <3>1. a \in Texts
      BY <1>1
    <3>2. b \in Texts
      BY <1>1
    <3>3. plus \in Texts
      BY <1>1
    <3>4. d \in Texts
      BY <1>3
    <3>5. e \in Texts
      BY <1>5
    <3>6. f \in Texts
      BY <1>1
    <3> QED BY <3>1, <3>2, <3>3, <3>4, <3>5, <3>6, MoreAssociate
  <2>2. Cat(MemoryText(v), s) = Cat(a, Cat(b, Cat(plus, Cat(d, Cat(e, close)))))
    BY <1>6, <1>7, <2>1 DEF Associate
  <2> QED BY <2>2, MarkThen DEF a
<1>13. CASE Terse(v)
  <2>1. b = <<>> /\ plus = <<>> /\ d = <<>> /\ Alone(n, s) \in Texts
    BY <1>0, <1>13, AloneSplits DEF BaseText, IndexText, Terse
  <2> DEFINE alone == Alone(n, s)
  <2>2. Cat(e, close) = alone
    BY <1>8, <1>13
  <2> HIDE DEF b, plus, d, e, close, alone
  <2>3. Cat(b, Cat(plus, Cat(d, Cat(e, close)))) = alone
    BY <2>1, <2>2, TextsAssociate DEF alone
  <2> QED BY <1>12, <1>13, <2>3 DEF Inside, alone
<1>14. CASE ~Terse(v)
  <2>1. Cat(e, close) = shifted
    BY <1>8, <1>14
  <2>2. Cat(plus, Cat(d, shifted)) = IF v.base = NullValue THEN Cat(d, shifted) ELSE Rest(v, s)
    <3>1. Cat(d, shifted) \in Texts
      <4> HIDE DEF d, shifted
      <4> QED BY <1>3, <1>9, TextsAssociate
    <3>2. CASE Both(v)
      <4>1. plus = Mark("+")
        BY <3>2 DEF Both
      <4> HIDE DEF d, shifted, plus
      <4> QED BY <1>10, <3>2, <4>1, MarkThen DEF Rest, Both
    <3>3. CASE ~Both(v)
      <4>1. plus = <<>>
        BY <3>3 DEF Both
      <4>2. Cat(plus, Cat(d, shifted)) = Cat(d, shifted)
        <5> HIDE DEF plus, d, shifted
        <5> QED BY <3>1, <4>1, TextsAssociate
      <4>3. v.base # NullValue => Cat(d, shifted) = Rest(v, s)
        <5> HIDE DEF plus, d, shifted
        <5> QED BY <1>11, <3>3 DEF Both, Rest
      <4> HIDE DEF plus, d, shifted
      <4> QED BY <4>2, <4>3
    <3> QED BY <3>2, <3>3
  <2> HIDE DEF plus, d, e, close, shifted
  <2>3. Cat(b, Cat(plus, Cat(d, shifted))) = Cat(RegisterText(Lead(v)), Rest(v, s))
    <3>1. CASE v.base = NullValue
      <4>1. b = <<>> /\ Cat(d, shifted) \in Texts /\ Lead(v) = v.index /\ v.index # NullValue
        BY <1>3, <1>9, <1>14, <3>1, TextsAssociate DEF BaseText, Lead, Terse
      <4>2. Rest(v, s) = Tail1(v, s)
        BY <3>1 DEF Rest, Both
      <4>3. Cat(b, Cat(plus, Cat(d, shifted))) = Cat(d, shifted)
        <5> HIDE DEF b
        <5> QED BY <2>2, <3>1, <4>1, TextsAssociate
      <4> QED BY <1>10, <4>1, <4>2, <4>3
    <3>2. CASE v.base # NullValue
      <4>1. b = RegisterText(v.base) /\ Lead(v) = v.base
        BY <3>2 DEF BaseText, Lead
      <4> QED BY <2>2, <3>2, <4>1
    <3> QED BY <3>1, <3>2
  <2> QED BY <1>12, <1>14, <2>1, <2>3 DEF Inside
<1> QED BY <1>13, <1>14


LEMMA InsideIs ==
  ASSUME NEW v \in MemoryValue, NEW s \in Texts
  PROVE  /\ Rest(v, s) \in Ended /\ Inside(v, s) \in Texts
         /\ Terse(v) => \A r : Inside(v, s)[1] # R(r)
         /\ ~Terse(v) => \E r \in Reg : Inside(v, s)[1] = R(r)
<1>1. Tail1(v, s) \in Ended /\ Tail1(v, s) \in Texts
  BY TailIs
<1>2. Both(v) => Cat(RegisterText(v.index), Tail1(v, s)) \in Texts
  BY <1>1, AddressParts, RegisterTextType, TextsAssociate
<1>3. Rest(v, s) \in Ended
  BY <1>1, <1>2, EndsAre DEF Rest
<1>4. CASE Terse(v)
  <2>1. v.displacement \in Int
    BY AddressParts
  <2>2. Alone(v.displacement, s) \in Texts /\ \A r : Alone(v.displacement, s)[1] # R(r)
    BY <2>1, AloneSplits
  <2> QED BY <1>3, <1>4, <2>2 DEF Inside
<1>5. CASE ~Terse(v)
  <2> DEFINE x == Lead(v)
             y == Rest(v, s)
  <2>1. x \in RegValue /\ x.reg \in Reg
    BY <1>5, AddressParts DEF RegValue
  <2>2. y \in Ended
    BY <1>3
  <2>3. Inside(v, s) = Cat(RegisterText(x), y)
    BY <1>5 DEF Inside
  <2> HIDE DEF x, y
  <2>4. Cat(RegisterText(x), y) \in Texts /\ Cat(RegisterText(x), y)[1] = R(x.reg)
    BY <2>1, <2>2, RegisterSplits
  <2> QED BY <1>3, <1>5, <2>1, <2>3, <2>4
<1> QED BY <1>4, <1>5

\* What stands behind the leading register tells the rest of the address.
LEMMA RestSplits ==
  ASSUME NEW v \in MemoryValue, NEW w \in MemoryValue, NEW s \in Texts, NEW t \in Texts,
         Rest(v, s) = Rest(w, t)
  PROVE  /\ s = t /\ v.displacement = w.displacement /\ Factor(v) = Factor(w)
         /\ Both(v) <=> Both(w)
         /\ Both(v) => ShownRegister(v.index) = ShownRegister(w.index)
<1> DEFINE m == v.displacement
           n == w.displacement
           k == Factor(v)
           l == Factor(w)
           x == Shifted(m, s)
           y == Shifted(n, t)
<1>1. m \in Int /\ n \in Int /\ k \in Int /\ l \in Int
  BY AddressParts
<1>2. x \in Unscaled /\ Tail1(v, s) = Scaled(k, x) /\ Tail1(v, s) \in Ended /\ Tail1(v, s) \in Texts
  BY TailIs DEF Tail1
<1>3. y \in Unscaled /\ Tail1(w, t) = Scaled(l, y) /\ Tail1(w, t) \in Ended /\ Tail1(w, t) \in Texts
  BY TailIs DEF Tail1
<1>4. x = y => m = n /\ s = t
  BY <1>1, ShiftedSplits
<1> HIDE DEF x, y, m, n, k, l
<1>5. Tail1(v, s) = Tail1(w, t) => k = l /\ x = y
  <2>1. x \in Unscaled
    BY <1>2
  <2>2. y \in Unscaled
    BY <1>3
  <2>3. k \in Int
    BY <1>1
  <2>4. l \in Int
    BY <1>1
  <2>5. Scaled(k, x) = Scaled(l, y) => k = l /\ x = y
    BY <2>1, <2>2, <2>3, <2>4, ScaledSplits
  <2> QED BY <1>2, <1>3, <2>5
<1>6. CASE Both(v) /\ Both(w)
  <2> DEFINE a == Tail1(v, s)
             b == Tail1(w, t)
             c == Cat(RegisterText(v.index), a)
             d == Cat(RegisterText(w.index), b)
             i == v.index
             j == w.index
  <2>1. i \in RegValue
    BY <1>6, AddressParts
  <2>2. j \in RegValue
    BY <1>6, AddressParts
  <2>3. a \in Ended
    BY <1>2
  <2>4. b \in Ended
    BY <1>3
  <2>5. c = d => a = b /\ ShownRegister(i) = ShownRegister(j)
    <3> HIDE DEF a, b, i, j
    <3>1. Cat(RegisterText(i), a) = Cat(RegisterText(j), b)
            => a = b /\ ShownRegister(i) = ShownRegister(j)
      BY <2>1, <2>2, <2>3, <2>4, RegisterSplits
    <3> QED BY <3>1 DEF i, j
  <2>6. c \in Texts /\ d \in Texts
    <3>1. RegisterText(i) \in Texts
      BY <2>1, RegisterTextType
    <3>2. RegisterText(j) \in Texts
      BY <2>2, RegisterTextType
    <3> QED BY <1>2, <1>3, <3>1, <3>2, TextsAssociate
  <2>7. Then(M("+"), c) = Then(M("+"), d)
    BY <1>6 DEF Rest
  <2> HIDE DEF a, b, c, d
  <2>8. c = d
    <3>1. M("+") \in Token
      BY EndsAre
    <3> QED BY <2>6, <2>7, <3>1, ThenApart
  <2> QED BY <1>4, <1>5, <1>6, <2>5, <2>8 DEF a, b, m, n, k, l
<1>7. CASE ~Both(v) /\ ~Both(w)
  <2>1. Tail1(v, s) = Tail1(w, t)
    BY <1>7 DEF Rest
  <2> QED BY <1>4, <1>5, <1>7, <2>1 DEF m, n, k, l
<1>8. \A z \in MemoryValue, q \in MemoryValue, u \in Texts, r \in Texts :
        Both(z) /\ ~Both(q) => Rest(z, u) # Rest(q, r)
  <2> SUFFICES ASSUME NEW z \in MemoryValue, NEW q \in MemoryValue, NEW u \in Texts, NEW r \in Texts,
                      Both(z), ~Both(q), Rest(z, u) = Rest(q, r)
               PROVE  FALSE
    OBVIOUS
  <2> DEFINE i == z.index
             e == Tail1(z, u)
             c == Cat(RegisterText(i), e)
             f == q.displacement
             h == Shifted(f, r)
  <2>1. i \in RegValue
    BY AddressParts
  <2>2. e \in Ended
    BY TailIs
  <2>3. c \in Texts /\ c[1] = R(i.reg)
    <3> HIDE DEF i, e
    <3> QED BY <2>1, <2>2, RegisterSplits
  <2>4. Then(M("+"), c) = Scaled(Factor(q), h)
    BY DEF Rest, Tail1
  <2>5. f \in Int /\ Factor(q) \in Int
    BY AddressParts
  <2>6. h \in Unscaled
    BY TailIs
  <2>7. M("+") \in Token
    BY EndsAre
  <2> HIDE DEF c
  <2>8. Then(M("+"), c)[1] = M("+")
    BY <2>3, <2>7, ThenIs
  <2>9. Factor(q) = 1
    <3> HIDE DEF h
    <3>1. Factor(q) # 1 => Scaled(Factor(q), h)[1] = M("*")
      BY <2>5, <2>6, ScaledIs
    <3> QED BY <2>4, <2>8, <3>1, MarksApart
  <2>10. Then(M("+"), c) = h
    BY <2>4, <2>9 DEF Scaled
  <2>11. f > 0
    <3>1. /\ f = 0 => h[1] = M("]")
          /\ f > 0 => h[1] = M("+")
          /\ f < 0 => h[1] = M("-")
      BY <2>5, ShiftedIs
    <3> HIDE DEF f, h
    <3> QED BY <2>5, <2>8, <2>10, <3>1, MarksApart
  <2>12. h = Then(M("+"), Then(N(Magnitude(f)), Close(r)))
    BY <2>11 DEF Shifted
  <2> DEFINE g == Then(N(Magnitude(f)), Close(r))
  <2>13. g \in Texts /\ g[1] = N(Magnitude(f))
    BY <2>5, NumberTexts
  <2> HIDE DEF g, h
  <2>14. c = g
    BY <2>3, <2>7, <2>10, <2>12, <2>13, ThenApart DEF g
  <2> QED BY <2>3, <2>13, <2>14, TokensDiffer
<1>9. Both(v) <=> Both(w)
  BY <1>8
<1> QED BY <1>6, <1>7, <1>9

LEMMA MemorySplits ==
  ASSUME NEW v \in MemoryValue, NEW w \in MemoryValue, NEW s \in Ended, NEW t \in Ended
  PROVE  /\ Cat(MemoryText(v), s) \in Texts /\ Cat(MemoryText(v), s) # <<>>
         /\ Cat(MemoryText(v), s)[1] = M("[")
         /\ Cat(MemoryText(v), s) = Cat(MemoryText(w), t) =>
              s = t /\ ShownMemory(v) = ShownMemory(w)
<1> DEFINE a == Inside(v, s)
           b == Inside(w, t)
<1>1. s \in Texts /\ t \in Texts /\ M("[") \in Token
  BY EndsAre, TokensDiffer DEF Ended
<1>2. Cat(MemoryText(v), s) = Then(M("["), a) /\ Cat(MemoryText(w), t) = Then(M("["), b)
  BY <1>1, MemoryReads
<1>3. a \in Texts /\ b \in Texts
  BY <1>1, InsideIs
<1>4. ASSUME a = b PROVE s = t /\ ShownMemory(v) = ShownMemory(w)
  <2>1. Terse(v) <=> Terse(w)
    <3>1. (Terse(v) => \A r : a[1] # R(r)) /\ (~Terse(v) => \E r \in Reg : a[1] = R(r))
      BY <1>1, InsideIs
    <3>2. (Terse(w) => \A r : b[1] # R(r)) /\ (~Terse(w) => \E r \in Reg : b[1] = R(r))
      BY <1>1, InsideIs
    <3> HIDE DEF a, b
    <3> QED BY <1>4, <3>1, <3>2
  <2>2. CASE Terse(v)
    <3>1. v.displacement \in Int /\ w.displacement \in Int
      BY AddressParts
    <3>2. Alone(v.displacement, s) = Alone(w.displacement, t)
      BY <1>4, <2>1, <2>2 DEF Inside
    <3>3. Magnitude(v.displacement) = Magnitude(w.displacement) /\ s = t
      BY <1>1, <3>1, <3>2, AloneSplits
    <3>4. ShownMemory(v) = MemV(8, NullValue, NullValue, 1, Magnitude(v.displacement))
      BY <2>2, ShownMemoryIs
    <3>5. ShownMemory(w) = MemV(8, NullValue, NullValue, 1, Magnitude(w.displacement))
      BY <2>1, <2>2, ShownMemoryIs
    <3> QED BY <3>3, <3>4, <3>5
  <2>3. CASE ~Terse(v)
    <3> DEFINE x == Lead(v)
               y == Lead(w)
               c == Rest(v, s)
               d == Rest(w, t)
    <3>1. x \in RegValue
      BY <2>3, AddressParts
    <3>2. y \in RegValue
      BY <2>1, <2>3, AddressParts
    <3>3. c \in Ended
      BY <1>1, InsideIs
    <3>4. d \in Ended
      BY <1>1, InsideIs
    <3>5. Cat(RegisterText(x), c) = Cat(RegisterText(y), d)
      BY <1>4, <2>1, <2>3 DEF Inside
    <3> HIDE DEF x, y, c, d
    <3>6. c = d /\ ShownRegister(x) = ShownRegister(y)
      BY <3>1, <3>2, <3>3, <3>4, <3>5, RegisterSplits
    <3>7. Rest(v, s) = Rest(w, t)
      BY <3>6 DEF c, d
    <3>8. /\ s = t /\ v.displacement = w.displacement /\ Factor(v) = Factor(w)
          /\ Both(v) <=> Both(w)
          /\ Both(v) => ShownRegister(v.index) = ShownRegister(w.index)
      BY <1>1, <3>7, RestSplits
    <3>9. ShownRegister(Lead(v)) = ShownRegister(Lead(w))
      BY <3>6 DEF x, y
    <3>10. CASE Both(v)
      <4>1. ShownMemory(v) = MemV(8, ShownRegister(Lead(v)), ShownRegister(v.index),
                                  Factor(v), v.displacement)
        BY <3>10, ShownMemoryIs
      <4>2. ShownMemory(w) = MemV(8, ShownRegister(Lead(w)), ShownRegister(w.index),
                                  Factor(w), w.displacement)
        BY <3>8, <3>10, ShownMemoryIs
      <4> QED BY <3>8, <3>9, <3>10, <4>1, <4>2
    <3>11. CASE ~Both(v)
      <4>1. ShownMemory(v) = IF Factor(v) = 1
                THEN MemV(8, ShownRegister(Lead(v)), NullValue, 1, v.displacement)
                ELSE MemV(8, NullValue, ShownRegister(Lead(v)), Factor(v), v.displacement)
        BY <2>3, <3>11, ShownMemoryIs
      <4>2. ShownMemory(w) = IF Factor(w) = 1
                THEN MemV(8, ShownRegister(Lead(w)), NullValue, 1, w.displacement)
                ELSE MemV(8, NullValue, ShownRegister(Lead(w)), Factor(w), w.displacement)
        BY <2>1, <2>3, <3>8, <3>11, ShownMemoryIs
      <4> QED BY <3>8, <3>9, <4>1, <4>2
    <3> QED BY <3>10, <3>11
  <2> QED BY <2>2, <2>3
<1> HIDE DEF a, b
<1>5. Then(M("["), a) \in Texts /\ Then(M("["), a) # <<>> /\ Then(M("["), a)[1] = M("[")
  BY <1>1, <1>3, ThenIs
<1>6. Then(M("["), a) = Then(M("["), b) => a = b
  BY <1>1, <1>3, ThenApart
<1> QED BY <1>2, <1>4, <1>5, <1>6


\* How a value begins.
Opens == {R(r) : r \in Reg} \cup {N(n) : n \in Int} \cup {M("[")}

LEMMA ValueSplits ==
  ASSUME NEW v \in Value, NEW w \in Value, NEW s \in Ended, NEW t \in Ended
  PROVE  /\ Cat(ValueText(v), s) \in Texts /\ Cat(ValueText(v), s)[1] \in Opens
         /\ Cat(ValueText(v), s) = Cat(ValueText(w), t) =>
              s = t /\ ShownValue(v) = ShownValue(w)
<1>1. \A x \in RegValue : x.reg \in Reg /\ ValueText(x) = RegisterText(x)
                          /\ ShownValue(x) = ShownRegister(x)
  BY DEF RegValue, ValueText, ShownValue
<1>2. \A x \in MemoryValue : ValueText(x) = MemoryText(x) /\ ShownValue(x) = ShownMemory(x)
  BY DEF MemoryValue, ValueText, ShownValue
<1>3. \A x \in ImmValue : /\ x.value \in Int /\ ValueText(x) = Numeral(x.value)
                          /\ ShownValue(x) = x
                          /\ \A y \in ImmValue : x.value = y.value => x = y
  BY WidthFacts DEF ImmValue, ValueText, ShownValue, Word
<1>4. s \in Texts /\ t \in Texts
  BY DEF Ended
<1>5. \A x \in RegValue, r \in Ended :
        Cat(ValueText(x), r) \in Texts /\ \E q \in Reg : Cat(ValueText(x), r)[1] = R(q)
  BY <1>1, RegisterSplits
<1>6. \A x \in MemoryValue, r \in Ended :
        Cat(ValueText(x), r) \in Texts /\ Cat(ValueText(x), r)[1] = M("[")
  BY <1>2, MemorySplits
<1>7. \A x \in ImmValue, r \in Texts :
        /\ Cat(ValueText(x), r) = Then(N(x.value), r) /\ N(x.value) \in Token
        /\ Cat(ValueText(x), r) \in Texts /\ Cat(ValueText(x), r)[1] = N(x.value)
  <2> SUFFICES ASSUME NEW x \in ImmValue, NEW r \in Texts
               PROVE  /\ Cat(ValueText(x), r) = Then(N(x.value), r) /\ N(x.value) \in Token
                      /\ Cat(ValueText(x), r) \in Texts /\ Cat(ValueText(x), r)[1] = N(x.value)
    OBVIOUS
  <2>1. Cat(ValueText(x), r) = Then(N(x.value), r) /\ N(x.value) \in Token
    BY <1>3, MarkThen, TokensDiffer
  <2> QED BY <2>1, ThenIs
<1>8. \A x \in Value : x \in RegValue \/ x \in ImmValue \/ x \in MemoryValue
  BY DEF Value
<1>9. Cat(ValueText(v), s) \in Texts /\ Cat(ValueText(v), s)[1] \in Opens
  <2>1. CASE v \in RegValue
    BY <1>5, <2>1 DEF Opens
  <2>2. CASE v \in ImmValue
    BY <1>3, <1>4, <1>7, <2>2 DEF Opens
  <2>3. CASE v \in MemoryValue
    BY <1>6, <2>3 DEF Opens
  <2> QED BY <1>8, <2>1, <2>2, <2>3
<1>10. ASSUME Cat(ValueText(v), s) = Cat(ValueText(w), t)
       PROVE  s = t /\ ShownValue(v) = ShownValue(w)
  <2>1. CASE v \in RegValue
    <3>1. w \in RegValue
      BY <1>4, <1>5, <1>6, <1>7, <1>8, <1>10, <2>1, TokensDiffer
    <3>2. Cat(RegisterText(v), s) = Cat(RegisterText(w), t)
      BY <1>1, <1>10, <2>1, <3>1
    <3>3. s = t /\ ShownRegister(v) = ShownRegister(w)
      BY <2>1, <3>1, <3>2, RegisterSplits
    <3> QED BY <1>1, <2>1, <3>1, <3>3
  <2>2. CASE v \in ImmValue
    <3>1. w \in ImmValue
      BY <1>4, <1>5, <1>6, <1>7, <1>8, <1>10, <2>2, TokensDiffer
    <3> DEFINE a == v.value
               b == w.value
    <3>2. Then(N(a), s) = Then(N(b), t) /\ N(a) \in Token /\ N(b) \in Token
      BY <1>4, <1>7, <1>10, <2>2, <3>1
    <3> HIDE DEF a, b
    <3>3. N(a) = N(b) /\ s = t
      BY <1>4, <3>2, ThenApart
    <3>4. v.value = w.value
      BY <3>3, TokensDiffer DEF a, b
    <3> QED BY <1>3, <2>2, <3>1, <3>3, <3>4
  <2>3. CASE v \in MemoryValue
    <3>1. w \in MemoryValue
      BY <1>4, <1>5, <1>6, <1>7, <1>8, <1>10, <2>3, TokensDiffer
    <3>2. Cat(MemoryText(v), s) = Cat(MemoryText(w), t)
      BY <1>2, <1>10, <2>3, <3>1
    <3>3. s = t /\ ShownMemory(v) = ShownMemory(w)
      BY <2>3, <3>1, <3>2, MemorySplits
    <3> QED BY <1>2, <2>3, <3>1, <3>3
  <2> QED BY <1>8, <2>1, <2>2, <2>3
<1> QED BY <1>9, <1>10

\* An operator, its operands in brackets.
Single(e, s) == Then(M(e.op), Then(M("("), Cat(ValueText(e.operand), Then(M(")"), s))))
Pair(e, s) ==
  Then(M(e.op), Then(M("("), Cat(ValueText(e.left),
       Then(M("comma"), Cat(ValueText(e.right), Then(M(")"), s))))))

LEMMA FlatReadsAs ==
  ASSUME NEW e \in FlatExpression, NEW s \in Texts
  PROVE  /\ e \in Value => Cat(FlatText(e), s) = Cat(ValueText(e), s)
         /\ e.kind = "un" => Cat(FlatText(e), s) = Single(e, s)
         /\ e.kind = "bin" => Cat(FlatText(e), s) = Pair(e, s)
<1>0. {"(", ")", "comma"} \subseteq Marks
  BY DEF Marks
<1>1. e \in Expression
  BY ValuesAreExpressions
<1>2. CASE e \in Value
  <2>1. e.kind \in {"reg", "imm", "mem"}
    BY <1>1, <1>2, ExpressionKinds
  <2>2. FlatText(e) = ValueText(e)
    BY <2>1 DEF FlatText
  <2> QED BY <1>2, <2>1, <2>2
<1>3. CASE e.kind = "un"
  <2> DEFINE a == Mark(e.op)
             b == Mark("(")
             c == ValueText(e.operand)
             d == Mark(")")
  <2>1. e.op \in UnaryOps /\ e.operand \in Value /\ e \notin Value
    BY <1>1, <1>3, ExpressionKinds
  <2>2. a \in Texts
    BY <2>1, OperatorsAreNamed, TextParts
  <2>3. b \in Texts
    BY <1>0, TextParts
  <2>4. c \in Texts
    BY <2>1, ValueTextType
  <2>5. d \in Texts
    BY <1>0, TextParts
  <2>6. FlatText(e) = Cat(Cat(Cat(a, b), c), d)
    BY <1>3, <2>1, OperatorsAreNamed DEF FlatText, Wrap, Cat
  <2>7. Cat(FlatText(e), s) = Cat(a, Cat(b, Cat(c, Cat(d, s))))
    <3> DEFINE x == Cat(a, b)
               y == Cat(d, s)
    <3> HIDE DEF a, b, c, d
    <3>1. x \in Texts /\ y \in Texts
      BY <2>2, <2>3, <2>5, TextsAssociate
    <3>2. Cat(c, y) \in Texts
      <4> HIDE DEF x, y
      <4> QED BY <2>4, <3>1, TextsAssociate
    <3>3. Cat(Cat(Cat(x, c), d), s) = Cat(x, Cat(c, y))
      <4>1. x \in Texts
        BY <3>1
      <4> HIDE DEF x
      <4> QED BY <2>4, <2>5, <4>1, ThreeAssociate
    <3> HIDE DEF y
    <3>4. Cat(x, Cat(c, y)) = Cat(a, Cat(b, Cat(c, y)))
      BY <2>2, <2>3, <3>2, TextsAssociate
    <3> QED BY <2>6, <3>3, <3>4 DEF y
  <2> HIDE DEF c
  <2>8. Cat(FlatText(e), s) = Then(M(e.op), Then(M("("), Cat(c, Then(M(")"), s))))
    BY <2>7, MarkThen
  <2> QED BY <1>3, <2>1, <2>8 DEF Single, c
<1>4. CASE e.kind = "bin"
  <2> DEFINE a == Mark(e.op)
             b == Mark("(")
             c == ValueText(e.left)
             d == Mark("comma")
             f == ValueText(e.right)
             g == Mark(")")
             x == Cat(Cat(c, d), f)
  <2>1. e.op \in BinaryOps /\ e.left \in Value /\ e.right \in Value /\ e \notin Value
    BY <1>1, <1>4, ExpressionKinds
  <2>2. a \in Texts
    BY <2>1, OperatorsAreNamed, TextParts
  <2>3. b \in Texts
    BY <1>0, TextParts
  <2>4. c \in Texts
    BY <2>1, ValueTextType
  <2>5. d \in Texts
    BY <1>0, TextParts
  <2>6. f \in Texts
    BY <2>1, ValueTextType
  <2>7. g \in Texts
    BY <1>0, TextParts
  <2>8. FlatText(e) = Cat(Cat(Cat(a, b), x), g)
    BY <1>4, <2>1, OperatorsAreNamed DEF FlatText, Wrap, Cat
  <2> DEFINE y == Cat(g, s)
  <2>9. Cat(FlatText(e), s) = Cat(a, Cat(b, Cat(c, Cat(d, Cat(f, y)))))
    <3> HIDE DEF a, b, c, d, f, g
    <3>1. x \in Texts
      <4>1. Cat(c, d) \in Texts
        BY <2>4, <2>5, TextsAssociate
      <4> QED BY <2>6, <4>1, TextsAssociate
    <3>2. y \in Texts
      BY <2>7, TextsAssociate
    <3>3. Cat(x, y) = Cat(c, Cat(d, Cat(f, y)))
      <4> HIDE DEF y
      <4> QED BY <2>4, <2>5, <2>6, <3>2, ThreeAssociate
    <3> HIDE DEF x
    <3>4. Cat(a, b) \in Texts
      BY <2>2, <2>3, TextsAssociate
    <3>5. Cat(Cat(Cat(a, b), x), g) \in Texts
      <4>1. Cat(Cat(a, b), x) \in Texts
        BY <3>1, <3>4, TextsAssociate
      <4> QED BY <2>7, <4>1, TextsAssociate
    <3>6. Cat(Cat(Cat(Cat(a, b), x), g), s) = Cat(Cat(a, b), Cat(x, Cat(g, s)))
      <4> DEFINE p == Cat(a, b)
      <4>1. p \in Texts
        BY <3>4
      <4> HIDE DEF p
      <4>2. Cat(Cat(Cat(p, x), g), s) = Cat(p, Cat(x, Cat(g, s)))
        BY <2>7, <3>1, <4>1, ThreeAssociate
      <4> QED BY <4>2 DEF p
    <3> HIDE DEF y
    <3>7. Cat(x, y) \in Texts
      BY <3>1, <3>2, TextsAssociate
    <3>8. Cat(Cat(a, b), Cat(x, y)) = Cat(a, Cat(b, Cat(x, y)))
      BY <2>2, <2>3, <3>7, TextsAssociate
    <3> QED BY <2>8, <3>3, <3>6, <3>8 DEF y
  <2> HIDE DEF c, f
  <2>10. Cat(FlatText(e), s)
           = Then(M(e.op), Then(M("("), Cat(c, Then(M("comma"), Cat(f, Then(M(")"), s))))))
    BY <2>9, MarkThen
  <2> QED BY <1>4, <2>1, <2>10 DEF Pair, c, f
<1> QED BY <1>1, <1>2, <1>3, <1>4, ExpressionKinds


LEMMA OperatorMarks ==
  /\ \A op \in UnaryOps \cup BinaryOps : M(op) \in Token /\ M(op) \notin Opens
                                         /\ M(op) # M("Conditional(")
  /\ UnaryOps \cap BinaryOps = {}
  /\ M("Conditional(") \in Token /\ M("Conditional(") \notin Opens
  /\ M("(") \in Token /\ M("then") \in Token /\ M("else") \in Token
  /\ M("Store(") \in Token /\ M("Assign(") \in Token
<1>1. /\ \A op \in UnaryOps \cup BinaryOps : op \in Marks /\ op # "[" /\ op # "Conditional("
      /\ UnaryOps \cap BinaryOps = {}
  BY DEF UnaryOps, BinaryOps, Marks
<1>2. {"Conditional(", "(", "then", "else", "Store(", "Assign("} \subseteq Marks
  BY DEF Marks
<1>3. "Conditional(" # "["
  OBVIOUS
<1>4. \A m \in Marks : M(m) \in Token
  BY TokensDiffer
<1>5. \A m : M(m) \in Opens => m = "["
  BY TokensDiffer DEF Opens
<1>6. \A m, n : M(m) = M(n) => m = n
  BY TokensDiffer
<1> QED BY <1>1, <1>2, <1>3, <1>4, <1>5, <1>6

LEMMA SingleSplits ==
  ASSUME NEW e \in UnaryExpression, NEW f \in UnaryExpression, NEW s \in Ended, NEW t \in Ended
  PROVE  /\ Single(e, s) \in Texts /\ Single(e, s)[1] = M(e.op)
         /\ Single(e, s) = Single(f, t) =>
              s = t /\ e.op = f.op /\ ShownValue(e.operand) = ShownValue(f.operand)
<1> DEFINE a == e.operand
           b == f.operand
           u == Then(M(")"), s)
           v == Then(M(")"), t)
           c == Cat(ValueText(a), u)
           d == Cat(ValueText(b), v)
           x == Then(M("("), c)
           y == Then(M("("), d)
<1>1. e.op \in UnaryOps /\ f.op \in UnaryOps
  BY DEF UnaryExpression
<1>2. M(e.op) \in Token /\ M(f.op) \in Token /\ M("(") \in Token /\ M(")") \in Token
  BY <1>1, OperatorMarks, EndsAre
<1>3. a \in Value
  BY DEF UnaryExpression
<1>4. b \in Value
  BY DEF UnaryExpression
<1>5. s \in Texts /\ t \in Texts
  BY DEF Ended
<1>6. u \in Ended
  BY <1>5, EndsAre
<1>7. v \in Ended
  BY <1>5, EndsAre
<1>8. u = v => s = t
  BY <1>2, <1>5, ThenApart
<1> HIDE DEF u, v
<1>9. c \in Texts /\ (c = d => u = v /\ ShownValue(a) = ShownValue(b))
  <2> HIDE DEF a, b
  <2>1. Cat(ValueText(a), u) \in Texts
    BY <1>3, <1>4, <1>6, <1>7, ValueSplits
  <2>2. Cat(ValueText(a), u) = Cat(ValueText(b), v) => u = v /\ ShownValue(a) = ShownValue(b)
    BY <1>3, <1>4, <1>6, <1>7, ValueSplits
  <2> QED BY <2>1, <2>2
<1>10. d \in Texts
  <2> HIDE DEF a, b
  <2> QED BY <1>3, <1>4, <1>6, <1>7, ValueSplits
<1> HIDE DEF c, d
<1>11. x \in Texts /\ y \in Texts /\ (x = y => c = d)
  BY <1>2, <1>9, <1>10, ThenIs, ThenApart
<1> HIDE DEF x, y
<1>12. Single(e, s) = Then(M(e.op), x) /\ Single(f, t) = Then(M(f.op), y)
  BY DEF Single, x, y, c, d, u, v
<1>13. Then(M(e.op), x) \in Texts /\ Then(M(e.op), x)[1] = M(e.op)
  BY <1>2, <1>11, ThenIs
<1>14. Then(M(e.op), x) = Then(M(f.op), y) => M(e.op) = M(f.op) /\ x = y
  BY <1>2, <1>11, ThenApart
<1>15. M(e.op) = M(f.op) => e.op = f.op
  BY TokensDiffer
<1> QED BY <1>8, <1>9, <1>11, <1>12, <1>13, <1>14, <1>15 DEF a, b

LEMMA PairSplits ==
  ASSUME NEW e \in BinaryExpression, NEW f \in BinaryExpression, NEW s \in Ended, NEW t \in Ended
  PROVE  /\ Pair(e, s) \in Texts /\ Pair(e, s)[1] = M(e.op)
         /\ Pair(e, s) = Pair(f, t) =>
              /\ s = t /\ e.op = f.op /\ ShownValue(e.left) = ShownValue(f.left)
              /\ ShownValue(e.right) = ShownValue(f.right)
<1> DEFINE a == e.right
           b == f.right
           u == Then(M(")"), s)
           v == Then(M(")"), t)
           c == Cat(ValueText(a), u)
           d == Cat(ValueText(b), v)
           g == e.left
           h == f.left
           k == Then(M("comma"), c)
           l == Then(M("comma"), d)
           m == Cat(ValueText(g), k)
           n == Cat(ValueText(h), l)
           x == Then(M("("), m)
           y == Then(M("("), n)
<1>1. e.op \in BinaryOps /\ f.op \in BinaryOps
  BY DEF BinaryExpression
<1>2. M(e.op) \in Token /\ M(f.op) \in Token /\ M("(") \in Token /\ M(")") \in Token
      /\ M("comma") \in Token
  BY <1>1, OperatorMarks, EndsAre
<1>3. a \in Value
  BY DEF BinaryExpression
<1>4. b \in Value
  BY DEF BinaryExpression
<1>5. s \in Texts /\ t \in Texts
  BY DEF Ended
<1>6. u \in Ended
  BY <1>5, EndsAre
<1>7. v \in Ended
  BY <1>5, EndsAre
<1>8. u = v => s = t
  BY <1>2, <1>5, ThenApart
<1> HIDE DEF u, v
<1>9. c \in Texts /\ (c = d => u = v /\ ShownValue(a) = ShownValue(b))
  <2> HIDE DEF a, b
  <2>1. Cat(ValueText(a), u) \in Texts
    BY <1>3, <1>4, <1>6, <1>7, ValueSplits
  <2>2. Cat(ValueText(a), u) = Cat(ValueText(b), v) => u = v /\ ShownValue(a) = ShownValue(b)
    BY <1>3, <1>4, <1>6, <1>7, ValueSplits
  <2> QED BY <2>1, <2>2
<1>10. d \in Texts
  <2> HIDE DEF a, b
  <2> QED BY <1>3, <1>4, <1>6, <1>7, ValueSplits
<1> HIDE DEF c, d
<1>11. k \in Ended
  BY <1>9, EndsAre
<1>12. l \in Ended
  BY <1>10, EndsAre
<1>13. k = l => c = d
  BY <1>2, <1>9, <1>10, ThenApart
<1> HIDE DEF k, l
<1>14. g \in Value
  BY DEF BinaryExpression
<1>15. h \in Value
  BY DEF BinaryExpression
<1>16. m \in Texts /\ (m = n => k = l /\ ShownValue(g) = ShownValue(h))
  <2> HIDE DEF g, h
  <2>1. Cat(ValueText(g), k) \in Texts
    BY <1>11, <1>12, <1>14, <1>15, ValueSplits
  <2>2. Cat(ValueText(g), k) = Cat(ValueText(h), l) => k = l /\ ShownValue(g) = ShownValue(h)
    BY <1>11, <1>12, <1>14, <1>15, ValueSplits
  <2> QED BY <2>1, <2>2
<1>17. n \in Texts
  <2> HIDE DEF g, h
  <2> QED BY <1>11, <1>12, <1>14, <1>15, ValueSplits
<1> HIDE DEF m, n
<1>18. x \in Texts /\ y \in Texts /\ (x = y => m = n)
  BY <1>2, <1>16, <1>17, ThenIs, ThenApart
<1> HIDE DEF x, y
<1>19. Pair(e, s) = Then(M(e.op), x) /\ Pair(f, t) = Then(M(f.op), y)
  BY DEF Pair, x, y, c, d, u, v, k, l, m, n
<1>20. Then(M(e.op), x) \in Texts /\ Then(M(e.op), x)[1] = M(e.op)
  BY <1>2, <1>18, ThenIs
<1>21. Then(M(e.op), x) = Then(M(f.op), y) => M(e.op) = M(f.op) /\ x = y
  BY <1>2, <1>18, ThenApart
<1>22. M(e.op) = M(f.op) => e.op = f.op
  BY TokensDiffer
<1> QED BY <1>8, <1>9, <1>13, <1>16, <1>18, <1>19, <1>20, <1>21, <1>22 DEF a, b, g, h

LEMMA ShownFlatIs ==
  ASSUME NEW e \in FlatExpression
  PROVE  /\ e \in Value => ShownFlat(e) = ShownValue(e)
         /\ e \in UnaryExpression => ShownFlat(e) = Unary(e.op, ShownValue(e.operand))
         /\ e \in BinaryExpression =>
              ShownFlat(e) = Binary(e.op, ShownValue(e.left), ShownValue(e.right))
<1>1. e \in Value => e.kind \in {"reg", "imm", "mem"}
  BY ExpressionKinds, ValuesAreExpressions
<1>2. CASE e \in Value
  <2>1. ShownFlat(e) = ShownValue(e)
    BY <1>1, <1>2 DEF ShownFlat
  <2> QED BY <1>1, <1>2, <2>1 DEF UnaryExpression, BinaryExpression
<1>3. CASE e \in UnaryExpression
  <2> DEFINE v == ShownValue(e.operand)
  <2>1. e = [kind |-> "un", op |-> e.op, operand |-> e.operand] /\ e.kind = "un"
    BY <1>3 DEF UnaryExpression
  <2>2. ShownFlat(e) = [e EXCEPT !.operand = v]
    BY <2>1 DEF ShownFlat
  <2> HIDE DEF v
  <2>3. [e EXCEPT !.operand = v] = [kind |-> "un", op |-> e.op, operand |-> v]
    BY <2>1
  <2> QED BY <1>1, <2>1, <2>2, <2>3 DEF Unary, BinaryExpression, v
<1>4. CASE e \in BinaryExpression
  <2> DEFINE v == ShownValue(e.left)
             w == ShownValue(e.right)
  <2>1. e = [kind |-> "bin", op |-> e.op, left |-> e.left, right |-> e.right] /\ e.kind = "bin"
    BY <1>4 DEF BinaryExpression
  <2>2. ShownFlat(e) = [[e EXCEPT !.left = v] EXCEPT !.right = w]
    BY <2>1 DEF ShownFlat
  <2> HIDE DEF v, w
  <2> DEFINE x == [kind |-> "bin", op |-> e.op, left |-> v, right |-> e.right]
  <2>3. [e EXCEPT !.left = v] = x
    BY <2>1
  <2>4. [x EXCEPT !.right = w] = [kind |-> "bin", op |-> e.op, left |-> v, right |-> w]
    OBVIOUS
  <2> HIDE DEF x
  <2> QED BY <1>1, <2>1, <2>2, <2>3, <2>4 DEF Binary, UnaryExpression, v, w
<1> QED BY <1>2, <1>3, <1>4 DEF FlatExpression

LEMMA FlatSplits ==
  ASSUME NEW e \in FlatExpression, NEW f \in FlatExpression, NEW s \in Ended, NEW t \in Ended
  PROVE  /\ Cat(FlatText(e), s) \in Texts /\ Cat(FlatText(e), s)[1] # M("Conditional(")
         /\ Cat(FlatText(e), s) = Cat(FlatText(f), t) => s = t /\ ShownFlat(e) = ShownFlat(f)
<1>0. s \in Texts /\ t \in Texts
  BY DEF Ended
<1>1. \A g \in FlatExpression : g \in Value \/ g \in UnaryExpression \/ g \in BinaryExpression
  BY DEF FlatExpression
<1>2. \A g \in UnaryExpression : g.kind = "un" /\ g.op \in UnaryOps /\ g \in FlatExpression
  BY DEF UnaryExpression, FlatExpression
<1>3. \A g \in BinaryExpression : g.kind = "bin" /\ g.op \in BinaryOps /\ g \in FlatExpression
  BY DEF BinaryExpression, FlatExpression
<1>4. \A g \in Value, r \in Ended :
        /\ g \in FlatExpression => Cat(FlatText(g), r) = Cat(ValueText(g), r)
        /\ Cat(ValueText(g), r) \in Texts /\ Cat(ValueText(g), r)[1] \in Opens
  BY FlatReadsAs, ValueSplits DEF Ended
<1>5. \A g \in UnaryExpression, r \in Ended :
        /\ Cat(FlatText(g), r) = Single(g, r)
        /\ Cat(FlatText(g), r) \in Texts /\ Cat(FlatText(g), r)[1] = M(g.op)
  <2> SUFFICES ASSUME NEW g \in UnaryExpression, NEW r \in Ended
               PROVE  /\ Cat(FlatText(g), r) = Single(g, r)
                      /\ Cat(FlatText(g), r) \in Texts /\ Cat(FlatText(g), r)[1] = M(g.op)
    OBVIOUS
  <2>1. Cat(FlatText(g), r) = Single(g, r)
    BY <1>2, FlatReadsAs DEF Ended
  <2> QED BY <2>1, SingleSplits
<1>6. \A g \in BinaryExpression, r \in Ended :
        /\ Cat(FlatText(g), r) = Pair(g, r)
        /\ Cat(FlatText(g), r) \in Texts /\ Cat(FlatText(g), r)[1] = M(g.op)
  <2> SUFFICES ASSUME NEW g \in BinaryExpression, NEW r \in Ended
               PROVE  /\ Cat(FlatText(g), r) = Pair(g, r)
                      /\ Cat(FlatText(g), r) \in Texts /\ Cat(FlatText(g), r)[1] = M(g.op)
    OBVIOUS
  <2>1. Cat(FlatText(g), r) = Pair(g, r)
    BY <1>3, FlatReadsAs DEF Ended
  <2> QED BY <2>1, PairSplits
<1>7. /\ \A op \in UnaryOps \cup BinaryOps : M(op) \notin Opens /\ M(op) # M("Conditional(")
      /\ UnaryOps \cap BinaryOps = {} /\ M("Conditional(") \notin Opens
      /\ \A m, n : M(m) = M(n) => m = n
  BY OperatorMarks, TokensDiffer
<1>8. Cat(FlatText(e), s) \in Texts /\ Cat(FlatText(e), s)[1] # M("Conditional(")
  BY <1>1, <1>2, <1>3, <1>4, <1>5, <1>6, <1>7
<1>9. ASSUME Cat(FlatText(e), s) = Cat(FlatText(f), t) PROVE s = t /\ ShownFlat(e) = ShownFlat(f)
  <2> DEFINE x == Cat(FlatText(e), s)[1]
             y == Cat(FlatText(f), t)[1]
  <2>1. /\ e \in Value => x \in Opens
        /\ e \in UnaryExpression => \E op \in UnaryOps : x = M(op)
        /\ e \in BinaryExpression => \E op \in BinaryOps : x = M(op)
    BY <1>2, <1>3, <1>4, <1>5, <1>6
  <2>2. /\ f \in Value => y \in Opens
        /\ f \in UnaryExpression => \E op \in UnaryOps : y = M(op)
        /\ f \in BinaryExpression => \E op \in BinaryOps : y = M(op)
    BY <1>2, <1>3, <1>4, <1>5, <1>6
  <2>3. x = y
    BY <1>9
  <2> HIDE DEF x, y
  <2>4. /\ e \in Value => f \in Value
        /\ e \in UnaryExpression => f \in UnaryExpression
        /\ e \in BinaryExpression => f \in BinaryExpression
    BY <1>1, <1>7, <2>1, <2>2, <2>3
  <2>5. CASE e \in Value
    <3>1. Cat(ValueText(e), s) = Cat(ValueText(f), t)
      BY <1>4, <1>9, <2>4, <2>5
    <3>2. s = t /\ ShownValue(e) = ShownValue(f)
      BY <2>4, <2>5, <3>1, ValueSplits
    <3> QED BY <2>4, <2>5, <3>2, ShownFlatIs
  <2>6. CASE e \in UnaryExpression
    <3>1. Single(e, s) = Single(f, t)
      BY <1>5, <1>9, <2>4, <2>6
    <3>2. s = t /\ e.op = f.op /\ ShownValue(e.operand) = ShownValue(f.operand)
      BY <2>4, <2>6, <3>1, SingleSplits
    <3>3. ShownFlat(e) = Unary(e.op, ShownValue(e.operand))
      BY <2>6, ShownFlatIs
    <3>4. ShownFlat(f) = Unary(f.op, ShownValue(f.operand))
      BY <2>4, <2>6, ShownFlatIs
    <3> QED BY <3>2, <3>3, <3>4
  <2>7. CASE e \in BinaryExpression
    <3>1. Pair(e, s) = Pair(f, t)
      BY <1>6, <1>9, <2>4, <2>7
    <3>2. /\ s = t /\ e.op = f.op /\ ShownValue(e.left) = ShownValue(f.left)
          /\ ShownValue(e.right) = ShownValue(f.right)
      BY <2>4, <2>7, <3>1, PairSplits
    <3>3. ShownFlat(e) = Binary(e.op, ShownValue(e.left), ShownValue(e.right))
      BY <2>7, ShownFlatIs
    <3>4. ShownFlat(f) = Binary(f.op, ShownValue(f.left), ShownValue(f.right))
      BY <2>4, <2>7, ShownFlatIs
    <3> QED BY <3>2, <3>3, <3>4
  <2> QED BY <1>1, <2>5, <2>6, <2>7
<1> QED BY <1>8, <1>9


\* A conditional: its three parts, each with the mark that ends it.
Nested(e, s) ==
  Then(M("Conditional("), Cat(FlatText(e.condition),
       Then(M("then"), Cat(FlatText(e.true_expr),
            Then(M("else"), Cat(FlatText(e.false_expr), Then(M(")"), s)))))))

LEMMA NestedIs ==
  ASSUME NEW e \in ConditionalExpression, NEW s \in Texts
  PROVE  Cat(ExpressionText(e), s) = Nested(e, s)
<1> DEFINE a == Mark("Conditional(")
           c == FlatText(e.condition)
           b == Mark("then")
           t == FlatText(e.true_expr)
           d == Mark("else")
           f == FlatText(e.false_expr)
           g == Mark(")")
           p == Cat(a, c)
           front == Cat(Cat(p, b), t)
           z == Cat(d, Cat(f, Cat(g, s)))
<1>1. /\ e.kind = "cond" /\ e.condition \in FlatExpression /\ e.true_expr \in FlatExpression
      /\ e.false_expr \in FlatExpression
  BY DEF ConditionalExpression
<1>2. c \in Texts /\ t \in Texts /\ f \in Texts
  BY <1>1, FlatTextType
<1>3. a \in Texts /\ b \in Texts /\ d \in Texts /\ g \in Texts
  BY TextParts DEF Marks
<1>4. ExpressionText(e) = Cat(Cat(Cat(front, d), f), g)
  BY <1>1 DEF ExpressionText, Cat
<1>5. c \in Texts
  BY <1>2
<1>6. t \in Texts
  BY <1>2
<1>7. f \in Texts
  BY <1>2
<1>8. a \in Texts
  BY <1>3
<1>9. b \in Texts
  BY <1>3
<1>10. d \in Texts
  BY <1>3
<1>11. g \in Texts
  BY <1>3
<1> HIDE DEF a, b, c, d, f, g, t
<1>12. p \in Texts
  BY <1>5, <1>8, TextsAssociate
<1> HIDE DEF p
<1>13. front \in Texts
  <2>1. Cat(p, b) \in Texts
    BY <1>9, <1>12, TextsAssociate
  <2> QED BY <1>6, <2>1, TextsAssociate
<1>14. z \in Texts
  <2>1. Cat(g, s) \in Texts
    BY <1>11, TextsAssociate
  <2>2. Cat(f, Cat(g, s)) \in Texts
    BY <1>7, <2>1, TextsAssociate
  <2> QED BY <1>10, <2>2, TextsAssociate
<1>15. Cat(Cat(Cat(Cat(front, d), f), g), s) = Cat(front, z)
  <2> HIDE DEF front, z
  <2>1. Cat(g, s) \in Texts
    BY <1>11, TextsAssociate
  <2> DEFINE y == Cat(g, s)
             x == Cat(Cat(front, d), f)
  <2>2. Cat(front, d) \in Texts
    BY <1>10, <1>13, TextsAssociate
  <2>3. x \in Texts
    BY <1>7, <2>2, TextsAssociate
  <2>4. Cat(Cat(x, g), s) = Cat(x, y)
    <3> HIDE DEF x
    <3> QED BY <1>11, <2>3, TextsAssociate
  <2>5. Cat(x, y) = Cat(front, Cat(d, Cat(f, y)))
    <3> HIDE DEF y
    <3>1. y \in Texts
      BY <2>1 DEF y
    <3> QED BY <1>7, <1>10, <1>13, <3>1, ThreeAssociate
  <2> QED BY <2>4, <2>5 DEF z
<1> HIDE DEF z
<1>16. Cat(front, z) = Cat(p, Cat(b, Cat(t, z)))
  BY <1>6, <1>9, <1>12, <1>14, ThreeAssociate
<1>17. Cat(p, Cat(b, Cat(t, z))) = Cat(a, Cat(c, Cat(b, Cat(t, z))))
  <2>1. Cat(t, z) \in Texts
    BY <1>6, <1>14, TextsAssociate
  <2>2. Cat(b, Cat(t, z)) \in Texts
    BY <1>9, <2>1, TextsAssociate
  <2> QED BY <1>5, <1>8, <2>2, TextsAssociate DEF p
<1> HIDE DEF front
<1>18. Cat(ExpressionText(e), s) = Cat(a, Cat(c, Cat(b, Cat(t, z))))
  BY <1>4, <1>15, <1>16, <1>17
<1>19. z = Then(M("else"), Cat(f, Then(M(")"), s)))
  BY MarkThen DEF z, d, g
<1>20. Cat(ExpressionText(e), s) = Then(M("Conditional("), Cat(c, Then(M("then"), Cat(t, z))))
  BY <1>18, MarkThen DEF a, b
<1> QED BY <1>19, <1>20 DEF Nested, c, t, f

LEMMA FlatThen ==
  ASSUME NEW e \in FlatExpression, NEW f \in FlatExpression, NEW s \in Texts, NEW t \in Texts,
         NEW m \in {"then", "else", ")"}
  PROVE  /\ Cat(FlatText(e), Then(M(m), s)) \in Texts
         /\ Cat(FlatText(e), Then(M(m), s)) = Cat(FlatText(f), Then(M(m), t)) =>
              s = t /\ ShownFlat(e) = ShownFlat(f)
<1> DEFINE u == Then(M(m), s)
           v == Then(M(m), t)
<1>1. u \in Ended
  BY EndsAre
<1>2. v \in Ended
  BY EndsAre
<1>3. u = v => s = t
  <2>1. M(m) \in Token
    BY EndsAre
  <2> QED BY <2>1, ThenApart
<1> HIDE DEF u, v
<1>4. Cat(FlatText(e), u) \in Texts
  BY <1>1, <1>2, FlatSplits
<1>5. Cat(FlatText(e), u) = Cat(FlatText(f), v) => u = v /\ ShownFlat(e) = ShownFlat(f)
  BY <1>1, <1>2, FlatSplits
<1> QED BY <1>3, <1>4, <1>5 DEF u, v

LEMMA NestedSplits ==
  ASSUME NEW e \in ConditionalExpression, NEW f \in ConditionalExpression,
         NEW s \in Texts, NEW t \in Texts
  PROVE  /\ Nested(e, s) \in Texts /\ Nested(e, s)[1] = M("Conditional(")
         /\ Nested(e, s) = Nested(f, t) => s = t /\ ShownExpression(e) = ShownExpression(f)
<1> DEFINE a == Cat(FlatText(e.false_expr), Then(M(")"), s))
           b == Cat(FlatText(f.false_expr), Then(M(")"), t))
           c == Cat(FlatText(e.true_expr), Then(M("else"), a))
           d == Cat(FlatText(f.true_expr), Then(M("else"), b))
           x == Cat(FlatText(e.condition), Then(M("then"), c))
           y == Cat(FlatText(f.condition), Then(M("then"), d))
           p == e.condition
           q == f.condition
           g == e.true_expr
           h == f.true_expr
           k == e.false_expr
           l == f.false_expr
<1>1. e.kind = "cond" /\ p \in FlatExpression /\ g \in FlatExpression /\ k \in FlatExpression
  BY DEF ConditionalExpression
<1>2. f.kind = "cond" /\ q \in FlatExpression /\ h \in FlatExpression /\ l \in FlatExpression
  BY DEF ConditionalExpression
<1> HIDE DEF p, q, g, h, k, l
<1>3. k \in FlatExpression
  BY <1>1
<1>4. l \in FlatExpression
  BY <1>2
<1>5. g \in FlatExpression
  BY <1>1
<1>6. h \in FlatExpression
  BY <1>2
<1>7. p \in FlatExpression
  BY <1>1
<1>8. q \in FlatExpression
  BY <1>2
<1>9. a \in Texts /\ b \in Texts /\ (a = b => s = t /\ ShownFlat(k) = ShownFlat(l))
  <2>1. Cat(FlatText(k), Then(M(")"), s)) \in Texts
    BY <1>3, FlatThen
  <2>2. Cat(FlatText(l), Then(M(")"), t)) \in Texts
    BY <1>4, FlatThen
  <2>3. Cat(FlatText(k), Then(M(")"), s)) = Cat(FlatText(l), Then(M(")"), t)) =>
          s = t /\ ShownFlat(k) = ShownFlat(l)
    BY <1>3, <1>4, FlatThen
  <2> QED BY <2>1, <2>2, <2>3 DEF k, l
<1> HIDE DEF a, b
<1>10. a \in Texts
  BY <1>9
<1>11. b \in Texts
  BY <1>9
<1>12. c \in Texts /\ d \in Texts /\ (c = d => a = b /\ ShownFlat(g) = ShownFlat(h))
  <2>1. Cat(FlatText(g), Then(M("else"), a)) \in Texts
    BY <1>5, <1>10, FlatThen
  <2>2. Cat(FlatText(h), Then(M("else"), b)) \in Texts
    BY <1>6, <1>11, FlatThen
  <2>3. Cat(FlatText(g), Then(M("else"), a)) = Cat(FlatText(h), Then(M("else"), b)) =>
          a = b /\ ShownFlat(g) = ShownFlat(h)
    BY <1>5, <1>6, <1>10, <1>11, FlatThen
  <2> QED BY <2>1, <2>2, <2>3 DEF g, h
<1> HIDE DEF c, d
<1>13. c \in Texts
  BY <1>12
<1>14. d \in Texts
  BY <1>12
<1>15. x \in Texts /\ y \in Texts /\ (x = y => c = d /\ ShownFlat(p) = ShownFlat(q))
  <2>1. Cat(FlatText(p), Then(M("then"), c)) \in Texts
    BY <1>7, <1>13, FlatThen
  <2>2. Cat(FlatText(q), Then(M("then"), d)) \in Texts
    BY <1>8, <1>14, FlatThen
  <2>3. Cat(FlatText(p), Then(M("then"), c)) = Cat(FlatText(q), Then(M("then"), d)) =>
          c = d /\ ShownFlat(p) = ShownFlat(q)
    BY <1>7, <1>8, <1>13, <1>14, FlatThen
  <2> QED BY <2>1, <2>2, <2>3 DEF p, q
<1> HIDE DEF x, y
<1>16. M("Conditional(") \in Token
  BY OperatorMarks
<1>17. Nested(e, s) = Then(M("Conditional("), x) /\ Nested(f, t) = Then(M("Conditional("), y)
  BY DEF Nested, x, y, a, b, c, d
<1>18. Then(M("Conditional("), x) \in Texts
       /\ Then(M("Conditional("), x)[1] = M("Conditional(")
  BY <1>15, <1>16, ThenIs
<1>19. Then(M("Conditional("), x) = Then(M("Conditional("), y) => x = y
  BY <1>15, <1>16, ThenApart
<1>20. ShownExpression(e) = Conditional(ShownFlat(p), ShownFlat(g), ShownFlat(k))
  BY <1>1 DEF ShownExpression, p, g, k
<1>21. ShownExpression(f) = Conditional(ShownFlat(q), ShownFlat(h), ShownFlat(l))
  BY <1>2 DEF ShownExpression, q, h, l
<1> QED BY <1>9, <1>12, <1>15, <1>17, <1>18, <1>19, <1>20, <1>21

LEMMA ExpressionSplits ==
  ASSUME NEW e \in Expression, NEW f \in Expression, NEW s \in Ended, NEW t \in Ended
  PROVE  /\ Cat(ExpressionText(e), s) \in Texts
         /\ Cat(ExpressionText(e), s) = Cat(ExpressionText(f), t) =>
              s = t /\ ShownExpression(e) = ShownExpression(f)
<1>0. s \in Texts /\ t \in Texts
  BY DEF Ended
<1>1. \A g \in FlatExpression : g.kind # "cond" /\ ExpressionText(g) = FlatText(g)
                                /\ ShownExpression(g) = ShownFlat(g)
  BY ExpressionKinds, ValuesAreExpressions DEF ExpressionText, ShownExpression
<1>2. \A g \in Expression : g \in FlatExpression \/ g \in ConditionalExpression
  BY DEF Expression
<1>3. \A g \in FlatExpression, r \in Ended :
        /\ Cat(ExpressionText(g), r) = Cat(FlatText(g), r)
        /\ Cat(FlatText(g), r) \in Texts /\ Cat(FlatText(g), r)[1] # M("Conditional(")
  BY <1>1, FlatSplits
<1>4. \A g \in ConditionalExpression, r \in Texts :
        /\ Cat(ExpressionText(g), r) = Nested(g, r)
        /\ Nested(g, r) \in Texts /\ Nested(g, r)[1] = M("Conditional(")
  BY NestedIs, NestedSplits
<1>5. Cat(ExpressionText(e), s) \in Texts
  BY <1>0, <1>2, <1>3, <1>4
<1>6. ASSUME Cat(ExpressionText(e), s) = Cat(ExpressionText(f), t)
      PROVE  s = t /\ ShownExpression(e) = ShownExpression(f)
  <2>1. CASE e \in FlatExpression
    <3>1. f \in FlatExpression
      BY <1>0, <1>2, <1>3, <1>4, <1>6, <2>1
    <3>2. Cat(FlatText(e), s) = Cat(FlatText(f), t)
      BY <1>3, <1>6, <2>1, <3>1
    <3>3. s = t /\ ShownFlat(e) = ShownFlat(f)
      BY <2>1, <3>1, <3>2, FlatSplits
    <3> QED BY <1>1, <2>1, <3>1, <3>3
  <2>2. CASE e \in ConditionalExpression
    <3>1. f \in ConditionalExpression
      BY <1>0, <1>2, <1>3, <1>4, <1>6, <2>2
    <3>2. Nested(e, s) = Nested(f, t)
      BY <1>0, <1>4, <1>6, <2>2, <3>1
    <3> QED BY <1>0, <2>2, <3>1, <3>2, NestedSplits
  <2> QED BY <1>2, <2>1, <2>2
<1> QED BY <1>5, <1>6

\* A statement: its head, its place and its value, each ended by a mark.
HeadMark(s) == IF s.kind = "store" THEN "Store(" ELSE "Assign("
Spelt(s) ==
  Then(M(HeadMark(s)), Cat(ValueText(Destination(s)),
       Then(M("comma"), Cat(ExpressionText(s.value), Then(M(")"), <<>>)))))

LEMMA StatementReadsAs ==
  ASSUME NEW s \in Statement
  PROVE  /\ StatementText(s) = Spelt(s)
         /\ Destination(s) \in Value /\ s.value \in Expression /\ s.kind \in {"store", "assign"}
<1> DEFINE h == Mark(HeadMark(s))
           v == ValueText(Destination(s))
           c == Mark("comma")
           x == ExpressionText(s.value)
           p == Mark(")")
           y == Cat(x, p)
<1>1. s.value \in Expression /\ Destination(s) \in Value /\ s.kind \in {"store", "assign"}
  BY ValuesAreExpressions DEF Statement, AssignStatement, StoreStatement, Destination
<1>2. h \in Texts
  BY TextParts DEF Marks, HeadMark
<1>3. v \in Texts
  BY <1>1, ValueTextType
<1>4. c \in Texts
  BY TextParts DEF Marks
<1>5. p \in Texts
  BY TextParts DEF Marks
<1>6. x \in Texts
  <2>1. CASE s.value \in FlatExpression
    BY <2>1, FlatTextType, ExpressionKinds, ValuesAreExpressions DEF ExpressionText
  <2>2. CASE s.value \in ConditionalExpression
    <3> DEFINE e == s.value
    <3>1. /\ e.kind = "cond" /\ e.condition \in FlatExpression /\ e.true_expr \in FlatExpression
          /\ e.false_expr \in FlatExpression
      BY <2>2 DEF ConditionalExpression
    <3>2. FlatText(e.condition) \in Texts /\ FlatText(e.true_expr) \in Texts
          /\ FlatText(e.false_expr) \in Texts
      BY <3>1, FlatTextType
    <3>3. /\ Mark("Conditional(") \in Texts /\ Mark("then") \in Texts /\ Mark("else") \in Texts
      BY TextParts DEF Marks
    <3> DEFINE b == FlatText(e.condition)
               t == FlatText(e.true_expr)
               f == FlatText(e.false_expr)
               front == Mark("Conditional(") \o b \o Mark("then") \o t
    <3>4. x = front \o Mark("else") \o f \o Mark(")")
      BY <3>1 DEF ExpressionText
    <3> HIDE DEF b, t, f, x, p
    <3>5. front \in Texts
      BY <3>2, <3>3, TextParts DEF b, t
    <3> HIDE DEF front
    <3> QED BY <1>5, <3>2, <3>3, <3>4, <3>5, TextParts DEF f, p
  <2> QED BY <1>1, <2>1, <2>2 DEF Expression
<1>7. StatementText(s) = Cat(Cat(Cat(Cat(h, v), c), x), p)
  BY DEF StatementText, Cat, HeadMark
<1> HIDE DEF h, v, c, x, p
<1>8. y \in Texts
  BY <1>5, <1>6, TextsAssociate
<1>9. Cat(Cat(Cat(Cat(h, v), c), x), p) = Cat(Cat(Cat(h, v), c), y)
  <2> DEFINE z == Cat(Cat(h, v), c)
  <2>1. Cat(h, v) \in Texts
    BY <1>2, <1>3, TextsAssociate
  <2>2. z \in Texts
    BY <1>4, <2>1, TextsAssociate
  <2> HIDE DEF z
  <2>3. Cat(Cat(z, x), p) = Cat(z, Cat(x, p))
    BY <1>5, <1>6, <2>2, TextsAssociate
  <2> QED BY <2>3 DEF z
<1> HIDE DEF y
<1>10. Cat(Cat(Cat(h, v), c), y) = Cat(h, Cat(v, Cat(c, y)))
  BY <1>2, <1>3, <1>4, <1>8, ThreeAssociate
<1>11. p = Then(M(")"), <<>>)
  <2>1. Cat(p, <<>>) = p
    BY <1>5, TextsAssociate
  <2>2. Cat(p, <<>>) = Then(M(")"), <<>>)
    BY MarkThen DEF p
  <2> QED BY <2>1, <2>2
<1>12. StatementText(s) = Then(M(HeadMark(s)), Cat(v, Then(M("comma"), y)))
  BY <1>7, <1>9, <1>10, MarkThen DEF h, c
<1>13. y = Cat(x, Then(M(")"), <<>>))
  BY <1>11 DEF y
<1> QED BY <1>1, <1>12, <1>13 DEF Spelt, v, x

LEMMA StatementSplits ==
  ASSUME NEW m \in Statement, NEW n \in Statement, StatementText(m) = StatementText(n)
  PROVE  ShownStatement(m) = ShownStatement(n)
<1> DEFINE u == Then(M(")"), <<>>)
           x == Cat(ExpressionText(m.value), u)
           y == Cat(ExpressionText(n.value), u)
           a == Then(M("comma"), x)
           b == Then(M("comma"), y)
           c == Cat(ValueText(Destination(m)), a)
           d == Cat(ValueText(Destination(n)), b)
<1>1. /\ StatementText(m) = Spelt(m) /\ Destination(m) \in Value /\ m.value \in Expression
      /\ m.kind \in {"store", "assign"}
  BY StatementReadsAs
<1>2. /\ StatementText(n) = Spelt(n) /\ Destination(n) \in Value /\ n.value \in Expression
      /\ n.kind \in {"store", "assign"}
  BY StatementReadsAs
<1>3. u \in Ended
  BY TextsAssociate, EndsAre
<1> HIDE DEF u
<1>4. x \in Texts /\ (x = y => ShownExpression(m.value) = ShownExpression(n.value))
  <2> DEFINE e == m.value
             f == n.value
  <2>1. e \in Expression
    BY <1>1
  <2>2. f \in Expression
    BY <1>2
  <2> HIDE DEF e, f
  <2>3. Cat(ExpressionText(e), u) \in Texts
    BY <1>3, <2>1, ExpressionSplits
  <2>4. Cat(ExpressionText(e), u) = Cat(ExpressionText(f), u) =>
              u = u /\ ShownExpression(e) = ShownExpression(f)
    BY <1>3, <2>1, <2>2, ExpressionSplits
  <2> QED BY <2>3, <2>4 DEF e, f
<1>5. y \in Texts
  <2> DEFINE f == n.value
  <2>1. f \in Expression
    BY <1>2
  <2> HIDE DEF f
  <2>2. Cat(ExpressionText(f), u) \in Texts
    BY <1>3, <2>1, ExpressionSplits
  <2> QED BY <2>2 DEF f
<1> HIDE DEF x, y
<1>6. a \in Ended
  BY <1>4, EndsAre
<1>7. b \in Ended
  BY <1>5, EndsAre
<1>8. a = b => x = y
  <2>1. M("comma") \in Token
    BY EndsAre
  <2> QED BY <1>4, <1>5, <2>1, ThenApart
<1> HIDE DEF a, b
<1>9. c \in Texts /\ d \in Texts
      /\ (c = d => a = b /\ ShownValue(Destination(m)) = ShownValue(Destination(n)))
  <2> DEFINE v == Destination(m)
             w == Destination(n)
  <2>1. v \in Value
    BY <1>1
  <2>2. w \in Value
    BY <1>2
  <2> HIDE DEF v, w
  <2>3. Cat(ValueText(v), a) \in Texts
    BY <1>6, <2>1, ValueSplits
  <2>4. Cat(ValueText(w), b) \in Texts
    BY <1>7, <2>2, ValueSplits
  <2>5. Cat(ValueText(v), a) = Cat(ValueText(w), b) => a = b /\ ShownValue(v) = ShownValue(w)
    BY <1>6, <1>7, <2>1, <2>2, ValueSplits
  <2> QED BY <2>3, <2>4, <2>5 DEF v, w
<1> HIDE DEF c, d
<1>10. Then(M(HeadMark(m)), c) = Then(M(HeadMark(n)), d)
  BY <1>1, <1>2 DEF Spelt, c, d, a, b, x, y, u
<1>11. M(HeadMark(m)) \in Token /\ M(HeadMark(n)) \in Token
  BY OperatorMarks DEF HeadMark
<1>12. M(HeadMark(m)) = M(HeadMark(n)) /\ c = d
  BY <1>9, <1>10, <1>11, ThenApart
<1>13. m.kind = n.kind
  <2>1. HeadMark(m) = HeadMark(n)
    BY <1>12, TokensDiffer
  <2> QED BY <1>1, <1>2, <2>1 DEF HeadMark
<1> QED BY <1>4, <1>8, <1>9, <1>12, <1>13 DEF ShownStatement

\* What main() prints tells the statements apart: two statements of the stream
\* with one text agree in all that a text shows (IR::statement_str, IR::value_str,
\* RegValue::display_name), whatever the stream, simplified or not.
THEOREM PrintedApartHolds == Spec => []PrintedApart
<1>1. ASSUME SessionInv PROVE PrintedApart
  <2>1. ir \in Seq(Statement)
    BY <1>1 DEF SessionInv, StreamInv, Stream
  <2>2. \A n \in DOMAIN ir : ir[n] \in Statement
    BY <2>1
  <2> QED BY <2>2, StatementSplits DEF PrintedApart
<1> QED BY <1>1, AnswersAreCurrent, PTL
=============================================================================
