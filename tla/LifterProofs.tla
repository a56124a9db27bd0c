---------------------------- MODULE LifterProofs ----------------------------
(***************************************************************************)
(* Proofs about the lifter: its type invariant and the two SSA properties, *)
(* for any set of instructions, any register set and any block length.     *)
(*                                                                         *)
(* SingleAssignment and ReadsSeeReachingDef are not inductive: that a read *)
(* is tagged with the reaching definition follows from what the register   *)
(* file holds, so the invariant ties versions to the statement stream.     *)
(***************************************************************************)
EXTENDS Lifter, TLAPS

LifterState == [versions : [Reg -> Int], statements : Seq(Statement), next_id : Nat]

\* The version of a register is -1 as long as nothing defines it and the id of
\* its last definition afterwards; no definition carries a larger id.
VersionsMatch(st) ==
  \A r \in Reg :
    /\ \/ st.versions[r] = -1 /\ \A k \in DOMAIN st.statements : ~Defines(st.statements[k], r)
       \/ /\ st.versions[r] \in Nat
          /\ \E k \in DOMAIN st.statements :
               /\ ReachingDef(st.statements, k, Len(st.statements) + 1, r)
               /\ st.statements[k].dst.ssa_id = st.versions[r]
    /\ \A k \in DOMAIN st.statements :
         Defines(st.statements[k], r) => st.statements[k].dst.ssa_id <= st.versions[r]

StateInv(st) ==
  /\ st \in LifterState
  /\ VersionsMatch(st)
  /\ SSAIds(st.statements)
  /\ ReadsReach(st.statements)

-----------------------------------------------------------------------------
(***************************************************************************)
(* Tagging.                                                                *)
(***************************************************************************)

\* Tagging keeps a node a node of its class, and every register it reads then
\* carries the version the register file holds.
Tagged(S, vers) == \A u \in S : u \in RegValue /\ u.ssa_id = ReadId(vers, u.reg)

LEMMA TagReadIsTagged ==
  ASSUME NEW vers \in [Reg -> Int], NEW v \in OptReg
  PROVE  /\ TagRead(v, vers) \in OptReg
         /\ v \in RegValue => TagRead(v, vers) \in RegValue
         /\ Tagged({TagRead(v, vers)} \ {NullValue}, vers)
BY DEF OptReg, NullValue, RegValue, TagRead, Tagged, ReadId

LEMMA TagValueIsTagged ==
  ASSUME NEW vers \in [Reg -> Int], NEW v \in Value
  PROVE  /\ TagValue(v, vers) \in Value
         /\ v \in MemoryValue => TagValue(v, vers) \in MemoryValue
         /\ Tagged(ValueReads(TagValue(v, vers)), vers)
<1>1. CASE v \in RegValue
  <2>1. v.kind = "reg" /\ v \in OptReg /\ v \notin MemoryValue
    BY <1>1 DEF RegValue, OptReg, MemoryValue
  <2>2. TagValue(v, vers) = TagRead(v, vers)
    BY <2>1 DEF TagValue
  <2>3. TagRead(v, vers) \in RegValue /\ Tagged({TagRead(v, vers)} \ {NullValue}, vers)
    BY <1>1, <2>1, TagReadIsTagged
  <2>4. ValueReads(TagRead(v, vers)) = {TagRead(v, vers)} \ {NullValue}
    BY <2>3 DEF ValueReads, RegValue, NullValue
  <2> QED BY <2>1, <2>2, <2>3, <2>4 DEF Value
<1>2. CASE v \in ImmValue
  BY <1>2 DEF ImmValue, MemoryValue, Value, TagValue, ValueReads, Tagged
<1>3. CASE v \in MemoryValue
  <2>1. v.kind = "mem" /\ v.base \in OptReg /\ v.index \in OptReg
    BY <1>3 DEF MemoryValue
  <2> DEFINE b == TagRead(v.base, vers)
             i == TagRead(v.index, vers)
             w == [v EXCEPT !.base = b, !.index = i]
  <2>2. TagValue(v, vers) = w
    BY <2>1 DEF TagValue
  <2>3. /\ b \in OptReg /\ i \in OptReg
        /\ Tagged({b} \ {NullValue}, vers) /\ Tagged({i} \ {NullValue}, vers)
    BY <2>1, TagReadIsTagged
  <2>4. w \in MemoryValue /\ w.kind = "mem" /\ w.base = b /\ w.index = i
    BY <1>3, <2>3 DEF MemoryValue
  <2>5. ValueReads(w) = {b, i} \ {NullValue}
    BY <2>4 DEF ValueReads
  <2> QED BY <2>2, <2>3, <2>4, <2>5 DEF Tagged, Value
<1> QED BY <1>1, <1>2, <1>3 DEF Value

LEMMA TagFlatIsTagged ==
  ASSUME NEW vers \in [Reg -> Int], NEW e \in FlatExpression
  PROVE  /\ TagFlat(e, vers) \in FlatExpression
         /\ Tagged(FlatReads(TagFlat(e, vers)), vers)
<1>1. CASE e \in Value
  <2>1. e.kind \in {"reg", "imm", "mem"}
    BY <1>1 DEF Value, RegValue, ImmValue, MemoryValue
  <2>2. TagValue(e, vers) \in Value /\ Tagged(ValueReads(TagValue(e, vers)), vers)
    BY <1>1, TagValueIsTagged
  <2>3. TagValue(e, vers).kind \in {"reg", "imm", "mem"}
    BY <2>2 DEF Value, RegValue, ImmValue, MemoryValue
  <2> QED BY <2>1, <2>2, <2>3 DEF TagFlat, FlatReads, FlatExpression
<1>2. CASE e \in UnaryExpression
  <2> DEFINE w == [e EXCEPT !.operand = TagValue(e.operand, vers)]
  <2>1. e.kind = "un" /\ e.operand \in Value
    BY <1>2 DEF UnaryExpression
  <2>2. TagValue(e.operand, vers) \in Value /\ Tagged(ValueReads(TagValue(e.operand, vers)), vers)
    BY <2>1, TagValueIsTagged
  <2>3. w \in UnaryExpression /\ w.kind = "un" /\ w.operand = TagValue(e.operand, vers)
    BY <1>2, <2>2 DEF UnaryExpression
  <2>4. TagFlat(e, vers) = w
    BY <2>1 DEF TagFlat
  <2> QED BY <2>2, <2>3, <2>4 DEF FlatReads, FlatExpression
<1>3. CASE e \in BinaryExpression
  <2> DEFINE l == TagValue(e.left, vers)
             r == TagValue(e.right, vers)
             w == [e EXCEPT !.left = l, !.right = r]
  <2>1. e.kind = "bin" /\ e.left \in Value /\ e.right \in Value
    BY <1>3 DEF BinaryExpression
  <2>2. /\ l \in Value /\ Tagged(ValueReads(l), vers)
        /\ r \in Value /\ Tagged(ValueReads(r), vers)
    BY <2>1, TagValueIsTagged
  <2>3. w \in BinaryExpression /\ w.kind = "bin" /\ w.left = l /\ w.right = r
    BY <1>3, <2>2 DEF BinaryExpression
  <2>4. TagFlat(e, vers) = w
    BY <2>1 DEF TagFlat
  <2> QED BY <2>2, <2>3, <2>4 DEF FlatReads, FlatExpression, Tagged
<1> QED BY <1>1, <1>2, <1>3 DEF FlatExpression

LEMMA TagReadsIsTagged ==
  ASSUME NEW vers \in [Reg -> Int], NEW e \in Expression
  PROVE  /\ TagReads(e, vers) \in Expression
         /\ Tagged(Reads(TagReads(e, vers)), vers)
<1>1. CASE e \in FlatExpression
  <2>1. e.kind # "cond"
    BY <1>1 DEF FlatExpression, Value, RegValue, ImmValue, MemoryValue,
                UnaryExpression, BinaryExpression
  <2>2. TagFlat(e, vers) \in FlatExpression /\ Tagged(FlatReads(TagFlat(e, vers)), vers)
    BY <1>1, TagFlatIsTagged
  <2>3. TagFlat(e, vers).kind # "cond"
    BY <2>2 DEF FlatExpression, Value, RegValue, ImmValue, MemoryValue,
                UnaryExpression, BinaryExpression
  <2> QED BY <2>1, <2>2, <2>3 DEF TagReads, Reads, Expression
<1>2. CASE e \in ConditionalExpression
  <2> DEFINE c == TagFlat(e.condition, vers)
             t == TagFlat(e.true_expr, vers)
             f == TagFlat(e.false_expr, vers)
  <2>1. /\ e.kind = "cond" /\ e.condition \in FlatExpression
        /\ e.true_expr \in FlatExpression /\ e.false_expr \in FlatExpression
    BY <1>2 DEF ConditionalExpression
  <2>2. /\ c \in FlatExpression /\ Tagged(FlatReads(c), vers)
        /\ t \in FlatExpression /\ Tagged(FlatReads(t), vers)
        /\ f \in FlatExpression /\ Tagged(FlatReads(f), vers)
    BY <2>1, TagFlatIsTagged
  <2>3. TagReads(e, vers) = Conditional(c, t, f)
    BY <2>1 DEF TagReads
  <2>4. Conditional(c, t, f) \in ConditionalExpression
    BY <2>2 DEF Conditional, ConditionalExpression
  <2>5. Reads(Conditional(c, t, f)) = FlatReads(c) \cup FlatReads(t) \cup FlatReads(f)
    BY DEF Conditional, Reads
  <2> QED BY <2>2, <2>3, <2>4, <2>5 DEF Tagged, Expression
<1> QED BY <1>1, <1>2 DEF Expression

-----------------------------------------------------------------------------
(***************************************************************************)
(* One appended statement.                                                 *)
(***************************************************************************)

\* The register file vers is st.versions with the register s defines, if any,
\* moved to the next version, which is the id of the definition.
CountsDefinition(st, s, vers) ==
  \A r \in Reg :
    IF Defines(s, r)
    THEN vers[r] = st.versions[r] + 1 /\ s.dst.ssa_id = vers[r]
    ELSE vers[r] = st.versions[r]

LEMMA AppendKeepsInv ==
  ASSUME NEW st, StateInv(st),
         NEW s \in Statement, NEW vers \in [Reg -> Int], NEW id \in Nat,
         Tagged(StatementReads(s), st.versions),
         CountsDefinition(st, s, vers)
  PROVE  StateInv([versions |-> vers, statements |-> Append(st.statements, s),
                   next_id |-> id])
<1> DEFINE ss == st.statements
           N == Len(ss)
           ts == Append(ss, s)
           new == [versions |-> vers, statements |-> ts, next_id |-> id]
<1>1. /\ ss \in Seq(Statement) /\ N \in Nat /\ DOMAIN ss = 1..N
      /\ st.versions \in [Reg -> Int]
  BY DEF StateInv, LifterState
<1>2. /\ ts \in Seq(Statement) /\ Len(ts) = N + 1 /\ DOMAIN ts = 1..(N + 1)
      /\ \A k \in 1..N : ts[k] = ss[k]
      /\ ts[N + 1] = s
  BY <1>1
<1>v. \A r \in Reg :
        /\ \/ st.versions[r] = -1 /\ \A k \in 1..N : ~Defines(ss[k], r)
           \/ /\ st.versions[r] \in Nat
              /\ \E k \in 1..N : /\ ReachingDef(ss, k, N + 1, r)
                                 /\ ss[k].dst.ssa_id = st.versions[r]
        /\ \A k \in 1..N : Defines(ss[k], r) => ss[k].dst.ssa_id <= st.versions[r]
  BY <1>1 DEF StateInv, VersionsMatch
<1> HIDE DEF N
<1>0. /\ N \in Nat
      /\ \A k \in 1..(N + 1) : k \in 1..N \/ k = N + 1
      /\ N + 1 \in 1..(N + 1) /\ 1..N \subseteq 1..(N + 1)
      /\ N + 1 - 1 = N /\ N + 2 - 1 = N + 1 /\ (N + 1) + 1 = N + 2
  BY <1>1
<1>3. new \in LifterState
  BY <1>2 DEF LifterState
<1>4. ASSUME NEW r \in Reg
      PROVE  \A k \in 1..N : Defines(ts[k], r) => ts[k].dst.ssa_id <= st.versions[r]
  BY <1>v, <1>2
<1>5. VersionsMatch(new)
  <2> SUFFICES ASSUME NEW r \in Reg
               PROVE  /\ \/ vers[r] = -1 /\ \A k \in 1..(N + 1) : ~Defines(ts[k], r)
                         \/ /\ vers[r] \in Nat
                            /\ \E k \in 1..(N + 1) :
                                 /\ ReachingDef(ts, k, N + 2, r)
                                 /\ ts[k].dst.ssa_id = vers[r]
                      /\ \A k \in 1..(N + 1) :
                           Defines(ts[k], r) => ts[k].dst.ssa_id <= vers[r]
    <3>1. new.versions = vers /\ new.statements = ts /\ Len(ts) + 1 = N + 2
      BY <1>0, <1>2
    <3> QED BY <3>1, <1>2 DEF VersionsMatch
  <2>0. st.versions[r] \in Int /\ st.versions[r] >= -1
    BY <1>1, <1>v
  <2>1. CASE Defines(s, r)
    <3>1. vers[r] = st.versions[r] + 1 /\ s.dst.ssa_id = vers[r]
      BY <2>1 DEF CountsDefinition
    <3>2. ReachingDef(ts, N + 1, N + 2, r)
      BY <1>1, <1>2, <2>1 DEF ReachingDef
    <3>3. vers[r] \in Nat
      BY <2>0, <3>1
    <3>4. ASSUME NEW k \in 1..(N + 1), Defines(ts[k], r)
          PROVE  ts[k].dst.ssa_id <= vers[r]
      <4>1. CASE k = N + 1
        BY <4>1, <1>2, <3>1, <3>3
      <4>2. CASE k \in 1..N
        <5>1. ts[k].dst.ssa_id <= st.versions[r]
          BY <4>2, <3>4, <1>4
        <5>2. ts[k] \in AssignStatement /\ ts[k].dst \in RegValue
          BY <3>4, <1>2 DEF Defines, Statement, AssignStatement, StoreStatement,
                            Value, RegValue, ImmValue, MemoryValue
        <5>3. ts[k].dst.ssa_id \in Int
          BY <5>2 DEF RegValue
        <5>4. vers[r] \in Int /\ st.versions[r] <= vers[r]
          BY <3>1, <2>0
        <5> HIDE DEF ts
        <5> QED BY <5>1, <5>3, <5>4, <2>0
      <4> QED BY <4>1, <4>2, <1>0
    <3>5. N + 1 \in 1..(N + 1) /\ ts[N + 1].dst.ssa_id = vers[r]
      BY <1>0, <1>2, <3>1
    <3>6. \E k \in 1..(N + 1) : ReachingDef(ts, k, N + 2, r) /\ ts[k].dst.ssa_id = vers[r]
      BY <3>2, <3>5
    <3> HIDE DEF ts
    <3> QED BY <3>3, <3>4, <3>6
  <2>2. CASE ~Defines(s, r)
    <3>1. vers[r] = st.versions[r]
      BY <2>2 DEF CountsDefinition
    <3>2. \A k \in 1..(N + 1) : Defines(ts[k], r) => k \in 1..N
      BY <1>1, <1>2, <2>2
    <3>3. CASE st.versions[r] = -1 /\ \A k \in 1..N : ~Defines(ss[k], r)
      <4>1. \A k \in 1..(N + 1) : ~Defines(ts[k], r)
        BY <3>2, <3>3, <1>2
      <4> QED BY <4>1, <3>1, <3>3
    <3>4. CASE /\ st.versions[r] \in Nat
               /\ \E k \in 1..N : /\ ReachingDef(ss, k, N + 1, r)
                                  /\ ss[k].dst.ssa_id = st.versions[r]
      <4>1. PICK k \in 1..N : /\ ReachingDef(ss, k, N + 1, r)
                              /\ ss[k].dst.ssa_id = st.versions[r]
        BY <3>4
      <4>2. ReachingDef(ts, k, N + 2, r)
        <5>1. /\ \A m \in (k + 1)..(N + 1) : m \in (k + 1)..N \/ m = N + 1
              /\ \A m \in (k + 1)..N : m \in 1..N
              /\ k \in 1..(N + 1)
          BY <1>0
        <5>2. Defines(ss[k], r) /\ \A m \in (k + 1)..N : ~Defines(ss[m], r)
          BY <4>1, <1>0 DEF ReachingDef
        <5>3. \A m \in (k + 1)..(N + 1) : ~Defines(ts[m], r)
          BY <5>1, <5>2, <1>2, <2>2
        <5> QED BY <5>1, <5>2, <5>3, <1>0, <1>2 DEF ReachingDef
      <4>3. k \in 1..(N + 1) /\ ts[k].dst.ssa_id = vers[r]
        BY <4>1, <3>1, <1>0, <1>2
      <4>4. \A m \in 1..(N + 1) : Defines(ts[m], r) => ts[m].dst.ssa_id <= vers[r]
        BY <3>1, <3>2, <1>4
      <4> QED BY <4>2, <4>3, <4>4, <3>4, <3>1
    <3> QED BY <3>3, <3>4, <1>v
  <2> QED BY <2>1, <2>2
<1>6. SSAIds(ts)
  <2> SUFFICES ASSUME NEW i \in 1..(N + 1), NEW j \in 1..(N + 1), NEW r \in Reg,
                      i < j, Defines(ts[i], r), Defines(ts[j], r)
               PROVE  ts[i].dst.ssa_id < ts[j].dst.ssa_id
    BY <1>2 DEF SSAIds
  <2>1. CASE j \in 1..N
    <3>1. i \in 1..N /\ ts[i] = ss[i] /\ ts[j] = ss[j]
      BY <2>1, <1>1, <1>2
    <3> QED BY <2>1, <3>1, <1>1 DEF StateInv, SSAIds
  <2>2. CASE j = N + 1
    <3>1. i \in 1..N /\ ts[i].dst.ssa_id <= st.versions[r]
      <4>1. i \in 1..N
        BY <2>2, <1>0
      <4> QED BY <4>1, <1>4
    <3>2. s.dst.ssa_id = st.versions[r] + 1
      BY <2>2, <1>2 DEF CountsDefinition
    <3>3. ts[i] \in AssignStatement /\ ts[i].dst \in RegValue
      BY <1>2 DEF Defines, Statement, AssignStatement, StoreStatement,
                  Value, RegValue, ImmValue, MemoryValue
    <3> QED BY <2>2, <1>1, <1>2, <3>1, <3>2, <3>3 DEF RegValue
  <2> QED BY <2>1, <2>2, <1>0
<1>7. ReadsReach(ts)
  <2> SUFFICES ASSUME NEW n \in 1..(N + 1), NEW u \in StatementReads(ts[n])
               PROVE  ReachesRead(ts, n, u)
    BY <1>2 DEF ReadsReach
  <2>1. CASE n \in 1..N
    <3>1. u \in StatementReads(ss[n]) /\ ReachesRead(ss, n, u)
      BY <2>1, <1>1, <1>2 DEF StateInv, ReadsReach
    <3>2. CASE \E k \in 1..N : ReachingDef(ss, k, n, u.reg) /\ ss[k].dst.ssa_id = u.ssa_id
      <4>1. PICK k \in 1..N : ReachingDef(ss, k, n, u.reg) /\ ss[k].dst.ssa_id = u.ssa_id
        BY <3>2
      <4>2. ReachingDef(ts, k, n, u.reg)
        BY <4>1, <2>1, <1>1, <1>2 DEF ReachingDef
      <4> QED BY <4>1, <4>2, <1>1, <1>2 DEF ReachesRead
    <3>3. CASE (\A k \in 1..(n - 1) : ~Defines(ss[k], u.reg)) /\ u.ssa_id = 0
      BY <3>3, <2>1, <1>1, <1>2 DEF ReachesRead
    <3> QED BY <3>1, <3>2, <3>3, <1>1 DEF ReachesRead
  <2>2. CASE n = N + 1
    <3>1. /\ u.reg \in Reg
          /\ u.ssa_id = IF st.versions[u.reg] < 0 THEN 0 ELSE st.versions[u.reg]
      BY <2>2, <1>2 DEF Tagged, ReadId, RegValue
    <3>2. CASE st.versions[u.reg] = -1 /\ \A k \in 1..N : ~Defines(ss[k], u.reg)
      BY <2>2, <3>1, <3>2, <1>1, <1>2 DEF ReachesRead
    <3>3. CASE /\ st.versions[u.reg] \in Nat
               /\ \E k \in 1..N : /\ ReachingDef(ss, k, N + 1, u.reg)
                                  /\ ss[k].dst.ssa_id = st.versions[u.reg]
      <4>1. PICK k \in 1..N : /\ ReachingDef(ss, k, N + 1, u.reg)
                              /\ ss[k].dst.ssa_id = st.versions[u.reg]
        BY <3>3
      <4>2. ReachingDef(ts, k, N + 1, u.reg)
        <5>1. /\ k \in 1..N /\ Defines(ss[k], u.reg)
              /\ \A m \in (k + 1)..N : ~Defines(ss[m], u.reg)
          BY <4>1, <1>0 DEF ReachingDef
        <5>2. \A m \in (k + 1)..N : m \in 1..N
          BY <1>0
        <5> QED BY <5>1, <5>2, <1>0, <1>2 DEF ReachingDef
      <4> QED BY <4>1, <4>2, <3>1, <3>3, <2>2, <1>1, <1>2 DEF ReachesRead
    <3> QED BY <3>1, <3>2, <3>3, <1>v
  <2> QED BY <2>1, <2>2, <1>1
<1> QED BY <1>3, <1>5, <1>6, <1>7 DEF StateInv

-----------------------------------------------------------------------------
(***************************************************************************)
(* The emitters of the lifter keep the invariant.                          *)
(***************************************************************************)

LEMMA NewAssignKeepsInv ==
  ASSUME NEW st, StateInv(st), NEW dst \in Value, NEW value \in Expression
  PROVE  StateInv(NewAssign(st, dst, value))
<1> DEFINE bumped == Bumped(st.versions, dst)
           e == TagReads(value, st.versions)
           s == Assign(TagWrite(dst, bumped), e)
<1>1. st.versions \in [Reg -> Int] /\ st.next_id + 1 \in Nat
  BY DEF StateInv, LifterState
<1>2. e \in Expression /\ Tagged(Reads(e), st.versions)
  BY <1>1, TagReadsIsTagged
<1>3. /\ bumped \in [Reg -> Int] /\ TagWrite(dst, bumped) \in Value
      /\ CountsDefinition(st, s, bumped)
  <2>1. CASE dst \in RegValue
    <3>1. dst.kind = "reg" /\ dst.reg \in Reg
      BY <2>1 DEF RegValue
    <3>2. bumped = [st.versions EXCEPT ![dst.reg] = @ + 1]
      BY <3>1 DEF Bumped
    <3>3. bumped \in [Reg -> Int]
      BY <1>1, <3>1, <3>2
    <3>4. TagWrite(dst, bumped) = [dst EXCEPT !.ssa_id = bumped[dst.reg]]
      BY <3>1 DEF TagWrite
    <3> HIDE DEF bumped
    <3>5. /\ TagWrite(dst, bumped) \in RegValue
          /\ TagWrite(dst, bumped).kind = "reg"
          /\ TagWrite(dst, bumped).reg = dst.reg
          /\ TagWrite(dst, bumped).ssa_id = bumped[dst.reg]
      BY <2>1, <3>1, <3>3, <3>4 DEF RegValue
    <3>6. \A r \in Reg : Defines(s, r) <=> r = dst.reg
      BY <3>5 DEF Defines, Assign
    <3>7. s.dst = TagWrite(dst, bumped)
      BY DEF Assign
    <3>8. CountsDefinition(st, s, bumped)
      BY <1>1, <3>1, <3>2, <3>5, <3>6, <3>7 DEF CountsDefinition
    <3> QED BY <3>3, <3>5, <3>8 DEF Value
  <2>2. CASE dst \notin RegValue
    <3>1. dst.kind # "reg"
      BY <2>2 DEF Value, ImmValue, MemoryValue
    <3>2. bumped = st.versions /\ TagWrite(dst, bumped) = dst
      BY <3>1 DEF Bumped, TagWrite
    <3> HIDE DEF bumped
    <3> QED BY <1>1, <3>1, <3>2 DEF CountsDefinition, Defines, Assign
  <2> QED BY <2>1, <2>2
<1>4. s \in Statement /\ StatementReads(s) = Reads(e)
  BY <1>2, <1>3 DEF Assign, Statement, AssignStatement, StatementReads
<1>5. NewAssign(st, dst, value) =
        [versions |-> bumped, statements |-> Append(st.statements, s),
         next_id |-> st.next_id + 1]
  BY DEF NewAssign
<1> HIDE DEF s, e, bumped
<1> QED BY <1>1, <1>2, <1>3, <1>4, <1>5, AppendKeepsInv

LEMMA NewStoreKeepsInv ==
  ASSUME NEW st, StateInv(st), NEW dst \in MemoryValue, NEW src \in Expression
  PROVE  StateInv(NewStore(st, dst, src))
<1> DEFINE a == TagValue(dst, st.versions)
           e == TagReads(src, st.versions)
           s == Store(a, e)
<1>1. st.versions \in [Reg -> Int] /\ st.next_id \in Nat /\ st \in LifterState
  BY DEF StateInv, LifterState
<1>2. e \in Expression /\ Tagged(Reads(e), st.versions)
  BY <1>1, TagReadsIsTagged
<1>3. a \in MemoryValue /\ Tagged(ValueReads(a), st.versions)
  BY <1>1, TagValueIsTagged DEF Value
<1> HIDE DEF a, e
<1>4. Reads(a) = ValueReads(a)
  BY <1>3 DEF MemoryValue, Reads, FlatReads
<1>5. s \in Statement /\ StatementReads(s) = ValueReads(a) \cup Reads(e)
  BY <1>2, <1>3, <1>4 DEF Store, Statement, StoreStatement, StatementReads
<1>6. Tagged(StatementReads(s), st.versions)
  BY <1>2, <1>3, <1>5 DEF Tagged
<1>7. CountsDefinition(st, s, st.versions)
  BY DEF CountsDefinition, Defines, Store
<1>8. NewStore(st, dst, src) =
        [versions |-> st.versions, statements |-> Append(st.statements, s),
         next_id |-> st.next_id]
  <2> DEFINE ss == Append(st.statements, s)
  <2>1. NewStore(st, dst, src) = [st EXCEPT !.statements = ss]
    BY DEF NewStore, a, e
  <2> HIDE DEF ss
  <2>2. [st EXCEPT !.statements = ss] =
          [versions |-> st.versions, statements |-> ss, next_id |-> st.next_id]
    BY <1>1 DEF LifterState
  <2> QED BY <2>1, <2>2 DEF ss
<1> HIDE DEF s
<1> QED BY <1>1, <1>5, <1>6, <1>7, <1>8, AppendKeepsInv

LEMMA EmitKeepsInv ==
  ASSUME NEW st, StateInv(st), NEW dst \in Value, NEW src \in Expression
  PROVE  StateInv(EmitAssignmentOrStore(st, dst, src))
<1>1. CASE dst.kind = "mem"
  <2>1. dst \in MemoryValue
    BY <1>1 DEF Value, RegValue, ImmValue
  <2> QED BY <1>1, <2>1, NewStoreKeepsInv DEF EmitAssignmentOrStore
<1>2. CASE dst.kind # "mem"
  BY <1>2, NewAssignKeepsInv DEF EmitAssignmentOrStore
<1> QED BY <1>1, <1>2


\* The cast of an immediate to uint64_t stays in the word.
LEMMA ImmType == \A n \in Int : ImmV(n) \in ImmValue
<1>1. 64 \in Widths
  BY DEF Widths, Sizes
<1>2. PICK m \in Nat \ {0} : m = Modulus[64]
  BY <1>1, ScaleAssumption
<1>3. \A n \in Int : n % m \in 0..(m - 1)
  OBVIOUS
<1> QED BY <1>2, <1>3 DEF ImmV, ImmValue, Word

\* An operand that decodes is a value, and a place to write is a register or
\* memory, never an immediate.
LEMMA OperandType ==
  ASSUME NEW o, IsPlace(o) \/ IsImmOp(o)
  PROVE  Operand(o) \in Value
<1>1. CASE IsRegOp(o)
  <2>1. o.type = "reg" /\ o.reg.family \in Reg /\ 8 * o.size \in Widths
    BY <1>1 DEF IsRegOp, Reg, Widths
  <2> QED BY <2>1 DEF Operand, RegV, FamilyOf, Value, RegValue
<1>2. CASE IsImmOp(o)
  <2>1. o.type = "imm" /\ o.imm \in Int
    BY <1>2 DEF IsImmOp
  <2> QED BY <2>1, ImmType DEF Operand, Value
<1>3. CASE IsMemOp(o)
  <2>1. \A r \in MemBases : OptionalReg(r) \in OptReg
    <3> SUFFICES ASSUME NEW r \in MemBases, r # X86_REG_INVALID
                 PROVE  RegV(FamilyOf(r), 64) \in RegValue
      BY DEF OptionalReg, OptReg
    <3>1. r.family \in Reg
      BY DEF MemBases, X86Reg, Reg
    <3>2. 64 \in Widths
      BY DEF Widths, Sizes
    <3> QED BY <3>1, <3>2 DEF RegV, FamilyOf, RegValue
  <2>2. /\ o.type = "mem" /\ o.base \in MemBases /\ o.index \in MemBases
        /\ o.scale \in Scales /\ o.disp \in Int /\ o.size \in Sizes
    BY <1>3 DEF IsMemOp
  <2>3. Operand(o) = MemV(o.size, OptionalReg(o.base), OptionalReg(o.index), o.scale, o.disp)
    BY <2>2 DEF Operand
  <2> QED BY <2>1, <2>2, <2>3 DEF MemV, MemoryValue, Value
<1> QED BY <1>1, <1>2, <1>3 DEF IsPlace

\* The values the emitters build themselves.
LEMMA BuiltValues ==
  /\ \A r \in Reg : RegV(r, 64) \in RegValue
  /\ \A n \in Int : ImmV(n) \in ImmValue
  /\ StackSlot \in MemoryValue
  /\ {"RSP", "RIP", "RFLAGS", "ZF"} \subseteq Reg
<1>1. 64 \in Widths /\ 8 \in Sizes /\ 1 \in Scales
  BY DEF Widths, Sizes, Scales
<1>2. {"RSP", "RIP", "RFLAGS", "ZF"} \subseteq Reg
  BY GPRAssumption DEF Reg
<1>3. \A r \in Reg : RegV(r, 64) \in RegValue
  BY <1>1 DEF RegV, RegValue
<1>5. \A n \in Int : ImmV(n) \in ImmValue
  BY ImmType
<1>4. StackSlot \in MemoryValue
  BY <1>1, <1>2, <1>3 DEF StackSlot, MemV, MemoryValue, OptReg
<1> QED BY <1>2, <1>3, <1>4, <1>5

LEMMA BinaryType ==
  ASSUME NEW op \in BinaryOps, NEW l \in Value, NEW r \in Value
  PROVE  Binary(op, l, r) \in FlatExpression /\ Binary(op, l, r) \in Expression
BY DEF Binary, BinaryExpression, FlatExpression, Expression

LEMMA ValueIsExpression == Value \subseteq FlatExpression /\ Value \subseteq Expression
BY DEF FlatExpression, Expression

LEMMA AdjustRspKeepsInv ==
  ASSUME NEW st, StateInv(st), NEW op \in {"Add", "Sub"}
  PROVE  StateInv(AdjustRsp(st, op))
<1>1. RegV("RSP", 64) \in Value /\ ImmV(Slot) \in Value
  BY BuiltValues, ScaleAssumption DEF Value
<1>2. Binary(op, RegV("RSP", 64), ImmV(Slot)) \in Expression
  BY <1>1, BinaryType DEF BinaryOps
<1> QED BY <1>1, <1>2, NewAssignKeepsInv DEF AdjustRsp

LEMMA PushKeepsInv ==
  ASSUME NEW st, StateInv(st), NEW src \in Value
  PROVE  StateInv(EmitStackPush(st, src))
BY AdjustRspKeepsInv, EmitKeepsInv, BuiltValues, ValueIsExpression DEF EmitStackPush, Value

LEMMA PopKeepsInv ==
  ASSUME NEW st, StateInv(st), NEW dst \in Value
  PROVE  StateInv(EmitStackPop(st, dst))
<1>1. StackSlot \in Expression
  BY BuiltValues, ValueIsExpression DEF Value
<1>2. StateInv(EmitAssignmentOrStore(st, dst, StackSlot))
  BY <1>1, EmitKeepsInv
<1> QED BY <1>2, AdjustRspKeepsInv DEF EmitStackPop

LEMMA ConditionalJumpKeepsInv ==
  ASSUME NEW st, StateInv(st), NEW id \in CondJumpIds, NEW target \in Int,
         NEW x, x.id = id, x.ops[1].imm = target
  PROVE  StateInv(EmitConditionalJump(st, x))
<1> DEFINE c == ConditionOf(id)
           f == Binary("Add", RegV("RIP", 64), ImmV(AddrSize))
<1>1. /\ RegV("RIP", 64) \in Value /\ RegV("ZF", 64) \in Value
      /\ ImmV(AddrSize) \in Value /\ ImmV(target) \in Value
      /\ ImmV(0) \in Value /\ ImmV(1) \in Value
  BY BuiltValues, LifterAssumption DEF Value
<1>2. c \in FlatExpression
  BY <1>1, BinaryType DEF CondJumpIds, ConditionOf, BinaryOps
<1>3. f \in FlatExpression
  BY <1>1, BinaryType DEF BinaryOps
<1>4. EmitConditionalJump(st, x) =
        NewAssign(st, RegV("RIP", 64), Conditional(c, ImmV(target), f))
  BY DEF EmitConditionalJump
<1> HIDE DEF c, f
<1>5. Conditional(c, ImmV(target), f) \in Expression
  BY <1>1, <1>2, <1>3, ValueIsExpression
     DEF Conditional, ConditionalExpression, Expression
<1> QED BY <1>1, <1>4, <1>5, NewAssignKeepsInv

-----------------------------------------------------------------------------
(***************************************************************************)
(* The specification.                                                      *)
(***************************************************************************)

\* The inductive invariant: the type invariant and, of the register file and
\* the stream together, what makes both SSA properties hold.
IInv ==
  /\ TypeOK
  /\ StateInv(Current)

LEMMA InitEstablishesIInv == Init => IInv
<1> SUFFICES ASSUME Init PROVE IInv
  OBVIOUS
<1>1. NoVersions \in [Reg -> Int] /\ \A r \in Reg : NoVersions[r] = -1
  BY DEF NoVersions
<1>2. TypeOK
  BY <1>1, LifterAssumption DEF Init, TypeOK
<1>3. StateInv(Current)
  BY <1>1 DEF Init, Current, StateInv, LifterState, VersionsMatch, SSAIds, ReadsReach
<1> QED BY <1>2, <1>3 DEF IInv


\* A handler step, whatever state it leaves, keeps the invariant if that state
\* satisfies it: the rest of the type invariant is bookkeeping.
LEMMA HandleKeepsIInv ==
  ASSUME IInv, NEW x \in Insns, NEW st, StateInv(st), Handle(x, st)
  PROVE  IInv'
<1>1. /\ Current'.versions = st.versions /\ Current'.statements = st.statements
      /\ Current'.next_id = st.next_id
  BY DEF Handle, Current
<1>2. /\ st.versions \in [Reg -> Int] /\ st.statements \in Seq(Statement)
      /\ st.next_id \in Nat /\ \A r \in Reg : st.versions[r] >= -1
  BY DEF StateInv, LifterState, VersionsMatch
<1>3. TypeOK'
  BY <1>2 DEF IInv, TypeOK, Handle
<1>4. StateInv(Current)'
  <2>1. Current' \in LifterState
    BY <1>2 DEF Handle, Current, LifterState
  <2> QED BY <1>1, <2>1 DEF StateInv, VersionsMatch
<1> QED BY <1>3, <1>4 DEF IInv

LEMMA HandleInsnKeepsIInv ==
  ASSUME IInv, NEW x \in Insns, HandleInsn(x)
  PROVE  IInv'
<1>1. StateInv(Current) /\ WellFormed(x)
  BY LifterAssumption DEF IInv
<1>2. {"RSP", "RIP", "RFLAGS", "ZF"} \subseteq Reg /\ \A r \in Reg : RegV(r, 64) \in Value
  BY BuiltValues DEF Value
<1>3. CASE HandleMov(x)
  <2>1. Operand(x.ops[1]) \in Value /\ Operand(x.ops[2]) \in Value
    BY <1>1, <1>3, OperandType DEF HandleMov, WellFormed
  <2> QED BY <1>1, <1>3, <2>1, ValueIsExpression, EmitKeepsInv, HandleKeepsIInv DEF HandleMov
<1>4. CASE HandlePush(x)
  <2>1. Operand(x.ops[1]) \in Value
    BY <1>1, <1>4, OperandType DEF HandlePush, WellFormed
  <2> QED BY <1>1, <1>4, <2>1, PushKeepsInv, HandleKeepsIInv DEF HandlePush
<1>5. CASE HandlePop(x)
  <2>1. Operand(x.ops[1]) \in Value
    BY <1>1, <1>5, OperandType DEF HandlePop, WellFormed
  <2> QED BY <1>1, <1>5, <2>1, PopKeepsInv, HandleKeepsIInv DEF HandlePop
<1>6. CASE HandlePushfq(x)
  BY <1>1, <1>2, <1>6, PushKeepsInv, HandleKeepsIInv DEF HandlePushfq
<1>7. CASE HandlePopfq(x)
  BY <1>1, <1>2, <1>7, PopKeepsInv, HandleKeepsIInv DEF HandlePopfq
<1>8. CASE HandleLea(x)
  <2>1. Operand(x.ops[1]) \in Value /\ Operand(x.ops[2]) \in Value
    BY <1>1, <1>8, OperandType DEF HandleLea, WellFormed, IsPlace
  <2> QED BY <1>1, <1>8, <2>1, ValueIsExpression, NewAssignKeepsInv, HandleKeepsIInv
          DEF HandleLea
<1>9. CASE HandleJmp(x)
  <2>1. PICK target \in JumpTargets(x) :
          Handle(x, NewAssign(Current, RegV("RIP", 64), ImmV(target)))
    BY <1>9 DEF HandleJmp
  <2>2. target \in Int
    BY <1>1, <1>9, LifterAssumption
       DEF HandleJmp, WellFormed, JumpTargets, IsPlace, IsRegOp, IsMemOp, IsImmOp
  <2>3. ImmV(target) \in Expression
    BY <2>2, BuiltValues, ValueIsExpression DEF Value
  <2> QED BY <1>1, <1>2, <2>1, <2>3, NewAssignKeepsInv, HandleKeepsIInv
<1>10. CASE HandleCall(x)
  BY <1>1, <1>2, <1>10, PushKeepsInv, HandleKeepsIInv DEF HandleCall
<1>11. CASE HandleRet(x)
  BY <1>1, <1>2, <1>11, PopKeepsInv, HandleKeepsIInv DEF HandleRet
<1>12. CASE HandleBinary(x)
  <2> DEFINE dst == Operand(x.ops[1])
             e == Binary(BinaryOpOf(x.id), dst, Operand(x.ops[2]))
  <2>1. x.id \in BinaryIds /\ dst \in Value /\ Operand(x.ops[2]) \in Value
    BY <1>1, <1>12, OperandType DEF HandleBinary, WellFormed
  <2>2. BinaryOpOf(x.id) \in BinaryOps
    BY <2>1 DEF BinaryIds, BinaryOpOf, BinaryOps
  <2>3. e \in Expression
    BY <2>1, <2>2, BinaryType
  <2> QED BY <1>1, <1>12, <2>1, <2>3, EmitKeepsInv, HandleKeepsIInv
          DEF HandleBinary, EmitBinaryOperation
<1>13. CASE HandleNeg(x)
  <2> DEFINE src == Operand(x.ops[1])
  <2>1. src \in Value
    BY <1>1, <1>13, OperandType DEF HandleNeg, WellFormed
  <2>2. Unary("Neg", src) \in Expression
    BY <2>1 DEF Unary, UnaryExpression, UnaryOps, FlatExpression, Expression
  <2> QED BY <1>1, <1>13, <2>1, <2>2, NewAssignKeepsInv, HandleKeepsIInv
          DEF HandleNeg, EmitOperation
<1>14. CASE HandleConditionalJump(x)
  <2>1. x.id \in CondJumpIds /\ x.ops[1].imm \in Int
    BY <1>1, <1>14 DEF HandleConditionalJump, WellFormed, IsImmOp
  <2>2. StateInv(EmitConditionalJump(Current, x))
    BY <1>1, <2>1, ConditionalJumpKeepsInv
  <2> QED BY <1>14, <2>2, HandleKeepsIInv DEF HandleConditionalJump
<1>15. CASE SkipUnhandled(x)
  BY <1>1, <1>15, HandleKeepsIInv DEF SkipUnhandled
<1> QED BY <1>3, <1>4, <1>5, <1>6, <1>7, <1>8, <1>9, <1>10, <1>11, <1>12, <1>13,
           <1>14, <1>15 DEF HandleInsn

LEMMA NextKeepsIInv == IInv /\ [Next]_vars => IInv'
<1> SUFFICES ASSUME IInv, [Next]_vars PROVE IInv'
  OBVIOUS
<1>1. CASE StartLift
  <2>1. NoVersions \in [Reg -> Int] /\ \A r \in Reg : NoVersions[r] = -1
    BY DEF NoVersions
  <2>2. TypeOK'
    BY <1>1, <2>1, LifterAssumption DEF IInv, StartLift, TypeOK
  <2>3. StateInv(Current)'
    BY <1>1, <2>1 DEF StartLift, Current, StateInv, LifterState, VersionsMatch,
                      SSAIds, ReadsReach
  <2> QED BY <2>2, <2>3 DEF IInv
<1>2. CASE DisassemblyFails
  BY <1>2 DEF IInv, TypeOK, DisassemblyFails, StateInv, Current, VersionsMatch
<1>3. CASE FinishLift
  BY <1>3 DEF IInv, TypeOK, FinishLift, StateInv, Current, VersionsMatch
<1>4. CASE \E x \in Insns : HandleInsn(x)
  BY <1>4, HandleInsnKeepsIInv
<1>5. CASE UNCHANGED vars
  BY <1>5 DEF IInv, TypeOK, vars, StateInv, Current, VersionsMatch
<1> QED BY <1>1, <1>2, <1>3, <1>4, <1>5 DEF Next

LEMMA IInvariant == Spec => []IInv
BY InitEstablishesIInv, NextKeepsIInv, PTL DEF Spec

\* Whatever the decoder delivers, the lifter only ever holds well-formed IR.
THEOREM TypeCorrect == Spec => []TypeOK
<1>1. IInv => TypeOK
  BY DEF IInv
<1> QED BY <1>1, IInvariant, PTL

\* No two definitions of a register in one lift carry the same SSA id, and ids
\* grow in program order, for any instruction set and any block length.
THEOREM SingleAssignmentHolds == Spec => []SingleAssignment
<1>1. IInv => SingleAssignment
  BY DEF IInv, StateInv, Current, SingleAssignment
<1> QED BY <1>1, IInvariant, PTL

\* Every tagged read carries the id of its reaching definition.
THEOREM ReadsSeeReachingDefHolds == Spec => []ReadsSeeReachingDef
<1>1. IInv => ReadsSeeReachingDef
  BY DEF IInv, StateInv, Current, ReadsSeeReachingDef
<1> QED BY <1>1, IInvariant, PTL

-----------------------------------------------------------------------------
(***************************************************************************)
(* The lifter only emits operators that update their destination in place. *)
(* The recompiler relies on it twice: emit_binary_mem drops the left       *)
(* operand, emit_binary_reg overwrites the destination before it reads the *)
(* right one.  And the one expression that nests is the target of a jump:  *)
(* the answers of RegisterAst rely on that.                                *)
(***************************************************************************)

Shaped(ss) == AllInPlace(ss) /\ OnlyTargetsNest(ss)

\* What an emitter is given: a place and, if it computes, an operator on it.
Place == RegValue \cup MemoryValue

FitsPlace(dst, e) ==
  \/ e \in Value
  \/ e \in ConditionalExpression /\ IsTarget(e)
  \/ e \in BinaryExpression /\ e.left = dst /\ dst \in Place /\ ~BothMemory(dst, e.right)
  \/ e \in UnaryExpression /\ e.operand = dst /\ dst \in Place

-----------------------------------------------------------------------------
(***************************************************************************)
(* SSA tags do not matter to SamePlace.                                    *)
(***************************************************************************)
LEMMA TagReadKeepsReg ==
  ASSUME NEW v \in OptReg, NEW vers
  PROVE  SameReg(v, TagRead(v, vers))
BY DEF OptReg, NullValue, RegValue, TagRead, SameReg

LEMMA TagValueKeepsPlace ==
  ASSUME NEW v \in Place, NEW vers
  PROVE  /\ SamePlace(v, TagValue(v, vers))
         /\ SamePlace(TagValue(v, vers), TagValue(v, vers))
         /\ \A ver2 : SamePlace(TagWrite(v, ver2), TagValue(v, vers))
<1>1. CASE v \in RegValue
  <2>1. v.kind = "reg" /\ v \in OptReg
    BY <1>1 DEF RegValue, OptReg
  <2>2. TagValue(v, vers) = [v EXCEPT !.ssa_id = ReadId(vers, v.reg)]
    BY <2>1 DEF TagValue, TagRead
  <2>3. \A ver2 : TagWrite(v, ver2) = [v EXCEPT !.ssa_id = ver2[v.reg]]
    BY <2>1 DEF TagWrite
  <2> QED BY <1>1, <2>1, <2>2, <2>3 DEF RegValue, SamePlace, SameReg
<1>2. CASE v \in MemoryValue
  <2>1. v.kind = "mem" /\ v.base \in OptReg /\ v.index \in OptReg
    BY <1>2 DEF MemoryValue
  <2> DEFINE b == TagRead(v.base, vers)
             i == TagRead(v.index, vers)
  <2>2. TagValue(v, vers) = [v EXCEPT !.base = b, !.index = i]
    BY <2>1 DEF TagValue
  <2>3. \A ver2 : TagWrite(v, ver2) = v
    BY <2>1 DEF TagWrite
  <2>4. SameReg(v.base, b) /\ SameReg(v.index, i)
    BY <2>1, TagReadKeepsReg
  <2>5. SameReg(b, b) /\ SameReg(i, i)
    BY DEF SameReg
  <2> HIDE DEF b, i
  <2> DEFINE w == [v EXCEPT !.base = b, !.index = i]
  <2>6. /\ w.kind = "mem" /\ w.base = b /\ w.index = i /\ w.size = v.size
        /\ w.scale = v.scale /\ w.displacement = v.displacement
    BY <1>2 DEF MemoryValue
  <2> HIDE DEF w
  <2>7. SamePlace(v, w) /\ SamePlace(w, w)
    BY <2>1, <2>4, <2>5, <2>6 DEF SamePlace
  <2> QED BY <2>2, <2>3, <2>7 DEF w
<1> QED BY <1>1, <1>2 DEF Place

LEMMA TagValueKeepsKind ==
  ASSUME NEW v \in Value, NEW vers
  PROVE  TagValue(v, vers).kind = v.kind
<1>1. CASE v \in RegValue
  BY <1>1 DEF RegValue, TagValue, TagRead
<1>2. CASE v \in ImmValue
  BY <1>2 DEF ImmValue, TagValue
<1>3. CASE v \in MemoryValue
  <2> DEFINE b == TagRead(v.base, vers)
             i == TagRead(v.index, vers)
  <2>1. TagValue(v, vers) = [v EXCEPT !.base = b, !.index = i]
    BY <1>3 DEF MemoryValue, TagValue
  <2> HIDE DEF b, i
  <2> QED BY <1>3, <2>1 DEF MemoryValue
<1> QED BY <1>1, <1>2, <1>3 DEF Value

\* Tags do not change what a jump is decided by.
LEMMA TagReadsTarget ==
  ASSUME NEW e \in ConditionalExpression, IsTarget(e), NEW vers
  PROVE  IsTarget(TagReads(e, vers))
<1> DEFINE tag(v) == TagValue(v, vers)
<1>1. ASSUME NEW f \in FlatExpression, NEW ops, OverImmediate(f, ops)
      PROVE  OverImmediate(TagFlat(f, vers), ops)
  <2>1. f \in BinaryExpression
    BY <1>1 DEF OverImmediate, FlatExpression, Value, RegValue, ImmValue, MemoryValue,
                UnaryExpression
  <2>2. TagFlat(f, vers) = [f EXCEPT !.left = tag(f.left), !.right = tag(f.right)]
    BY <1>1 DEF TagFlat, OverImmediate
  <2>3. f.left \in Value /\ f.right \in Value
    BY <2>1 DEF BinaryExpression
  <2>4. tag(f.left).kind = "reg" /\ tag(f.right).kind = "imm"
    BY <1>1, <2>3, TagValueKeepsKind DEF OverImmediate
  <2> HIDE DEF tag
  <2> QED BY <1>1, <2>1, <2>2, <2>4 DEF OverImmediate, BinaryExpression
<1>2. e.kind = "cond" /\ e.condition \in FlatExpression /\ e.false_expr \in FlatExpression
  BY DEF ConditionalExpression
<1>3. TagReads(e, vers) = Conditional(TagFlat(e.condition, vers), TagFlat(e.true_expr, vers),
                                      TagFlat(e.false_expr, vers))
  BY <1>2 DEF TagReads
<1>4. TagFlat(e.true_expr, vers) = e.true_expr
  BY DEF IsTarget, TagFlat, TagValue
<1> QED BY <1>1, <1>2, <1>3, <1>4 DEF IsTarget, Conditional

\* The operator that an emitter tags still has the destination on its left.
LEMMA TagReadsFits ==
  ASSUME NEW dst \in Value, NEW e \in Expression, FitsPlace(dst, e),
         NEW vers \in [Reg -> Int], NEW d,
         dst \in Place => SamePlace(d, TagValue(dst, vers))
  PROVE  LET t == TagReads(e, vers)
         IN /\ t.kind = "bin" => SamePlace(d, t.left) /\ ~BothMemory(d, t.right)
            /\ t.kind = "un" => SamePlace(d, t.operand)
            /\ t.kind = "cond" => IsTarget(t)
<1> DEFINE t == TagReads(e, vers)
<1>1. CASE e \in Value
  <2>1. TagReads(e, vers) = TagValue(e, vers)
    BY <1>1 DEF TagReads, TagFlat, Value, RegValue, ImmValue, MemoryValue
  <2>2. TagValue(e, vers) \in Value
    BY <1>1, TagValueIsTagged
  <2>3. TagValue(e, vers).kind \in {"reg", "imm", "mem"}
    BY <2>2 DEF Value, RegValue, ImmValue, MemoryValue
  <2> QED BY <2>1, <2>3
<1>2. CASE e \in ConditionalExpression /\ IsTarget(e)
  <2>1. e.kind = "cond"
    BY <1>2 DEF ConditionalExpression
  <2>2. t.kind = "cond"
    BY <2>1 DEF TagReads, Conditional
  <2>3. IsTarget(t)
    BY <1>2, TagReadsTarget
  <2> QED BY <2>2, <2>3
<1>3. CASE e \in BinaryExpression /\ e.left = dst /\ dst \in Place /\ ~BothMemory(dst, e.right)
  <2>1. e.kind = "bin"
    BY <1>3 DEF BinaryExpression
  <2>2. t = [e EXCEPT !.left = TagValue(e.left, vers), !.right = TagValue(e.right, vers)]
    BY <2>1 DEF TagReads, TagFlat
  <2>3. t.kind = "bin" /\ t.left = TagValue(dst, vers) /\ t.right = TagValue(e.right, vers)
    BY <1>3, <2>2 DEF BinaryExpression
  <2>4. e.right \in Value
    BY <1>3 DEF BinaryExpression
  <2>5. TagValue(e.right, vers).kind = e.right.kind /\ TagValue(dst, vers).kind = dst.kind
    BY <1>3, <2>4, TagValueKeepsKind
  <2>6. d.kind = "mem" => TagValue(dst, vers).kind = "mem"
    BY <1>3 DEF SamePlace
  <2> QED BY <1>3, <2>3, <2>5, <2>6 DEF BothMemory
<1>4. CASE e \in UnaryExpression /\ e.operand = dst /\ dst \in Place
  <2>1. e.kind = "un"
    BY <1>4 DEF UnaryExpression
  <2>2. t = [e EXCEPT !.operand = TagValue(e.operand, vers)]
    BY <2>1 DEF TagReads, TagFlat
  <2>3. t.kind = "un" /\ t.operand = TagValue(dst, vers)
    BY <1>4, <2>2 DEF UnaryExpression
  <2> QED BY <1>4, <2>3
<1> QED BY <1>1, <1>2, <1>3, <1>4 DEF FitsPlace

-----------------------------------------------------------------------------
(***************************************************************************)
(* The emitters.                                                           *)
(***************************************************************************)
LEMMA AppendInPlace ==
  ASSUME NEW S, NEW ss \in Seq(S), Shaped(ss), NEW s, InPlace(s),
         s.value.kind = "cond" => IsTarget(s.value)
  PROVE  Shaped(Append(ss, s))
<1>1. /\ DOMAIN Append(ss, s) = 1..(Len(ss) + 1) /\ DOMAIN ss = 1..Len(ss) /\ Len(ss) \in Nat
      /\ \A k \in 1..Len(ss) : Append(ss, s)[k] = ss[k]
      /\ Append(ss, s)[Len(ss) + 1] = s
  OBVIOUS
<1>2. \A k \in 1..(Len(ss) + 1) : k \in 1..Len(ss) \/ k = Len(ss) + 1
  BY <1>1
<1> QED BY <1>1, <1>2 DEF Shaped, AllInPlace, OnlyTargetsNest

\* The state of the register file and the stream that an emitter leaves.
Good(st) == StateInv(st) /\ Shaped(st.statements)

LEMMA NewAssignInPlace ==
  ASSUME NEW st, Good(st), NEW dst \in Value, NEW value \in Expression,
         FitsPlace(dst, value)
  PROVE  Good(NewAssign(st, dst, value))
<1> DEFINE bumped == Bumped(st.versions, dst)
           s == Assign(TagWrite(dst, bumped), TagReads(value, st.versions))
<1>1. StateInv(NewAssign(st, dst, value))
  BY NewAssignKeepsInv DEF Good
<1>2. st.versions \in [Reg -> Int] /\ st.statements \in Seq(Statement)
  BY DEF Good, StateInv, LifterState
<1>3. dst \in Place => SamePlace(TagWrite(dst, bumped), TagValue(dst, st.versions))
  BY TagValueKeepsPlace
<1>4. InPlace(s) /\ (s.value.kind = "cond" => IsTarget(s.value))
  <2>1. Destination(s) = TagWrite(dst, bumped) /\ s.value = TagReads(value, st.versions)
    BY DEF Destination, Assign
  <2> HIDE DEF s, bumped
  <2> QED BY <1>2, <1>3, <2>1, TagReadsFits DEF InPlace
<1>5. NewAssign(st, dst, value).statements = Append(st.statements, s)
  BY DEF NewAssign
<1> HIDE DEF s
<1>6. Shaped(Append(st.statements, s))
  BY <1>2, <1>4, AppendInPlace DEF Good
<1> QED BY <1>1, <1>5, <1>6 DEF Good

LEMMA NewStoreInPlace ==
  ASSUME NEW st, Good(st), NEW dst \in MemoryValue, NEW src \in Expression,
         FitsPlace(dst, src)
  PROVE  Good(NewStore(st, dst, src))
<1> DEFINE s == Store(TagValue(dst, st.versions), TagReads(src, st.versions))
<1>1. StateInv(NewStore(st, dst, src)) /\ dst \in Place /\ dst \in Value
  BY NewStoreKeepsInv DEF Good, Place, Value
<1>2. st \in LifterState /\ st.versions \in [Reg -> Int] /\ st.statements \in Seq(Statement)
  BY DEF Good, StateInv, LifterState
<1>3. SamePlace(TagValue(dst, st.versions), TagValue(dst, st.versions))
  BY <1>1, TagValueKeepsPlace
<1>4. InPlace(s) /\ (s.value.kind = "cond" => IsTarget(s.value))
  <2>1. Destination(s) = TagValue(dst, st.versions) /\ s.value = TagReads(src, st.versions)
    BY DEF Destination, Store
  <2> HIDE DEF s
  <2> QED BY <1>1, <1>2, <1>3, <2>1, TagReadsFits DEF InPlace
<1>5. NewStore(st, dst, src).statements = Append(st.statements, s)
  <2> DEFINE ss == Append(st.statements, s)
  <2>1. NewStore(st, dst, src) = [st EXCEPT !.statements = ss]
    BY DEF NewStore
  <2> HIDE DEF ss
  <2>2. [st EXCEPT !.statements = ss].statements = ss
    BY <1>2 DEF LifterState
  <2> QED BY <2>1, <2>2 DEF ss
<1> HIDE DEF s
<1>6. Shaped(Append(st.statements, s))
  BY <1>2, <1>4, AppendInPlace DEF Good
<1> QED BY <1>1, <1>5, <1>6 DEF Good

LEMMA EmitInPlace ==
  ASSUME NEW st, Good(st), NEW dst \in Value, NEW src \in Expression, FitsPlace(dst, src)
  PROVE  Good(EmitAssignmentOrStore(st, dst, src))
<1>1. CASE dst.kind = "mem"
  <2>1. dst \in MemoryValue
    BY <1>1 DEF Value, RegValue, ImmValue
  <2> QED BY <1>1, <2>1, NewStoreInPlace DEF EmitAssignmentOrStore
<1>2. CASE dst.kind # "mem"
  BY <1>2, NewAssignInPlace DEF EmitAssignmentOrStore
<1> QED BY <1>1, <1>2

\* A value fits every place, and an operator the place on its left.
LEMMA ValueFits ==
  ASSUME NEW dst, NEW v \in Value
  PROVE  FitsPlace(dst, v) /\ v \in Expression
BY ValueIsExpression DEF FitsPlace

LEMMA BinaryFits ==
  ASSUME NEW op \in BinaryOps, NEW dst \in Place, NEW r \in Value, ~BothMemory(dst, r)
  PROVE  FitsPlace(dst, Binary(op, dst, r)) /\ Binary(op, dst, r) \in Expression
<1>1. dst \in Value
  BY DEF Place, Value
<1>2. /\ Binary(op, dst, r) \in BinaryExpression
      /\ Binary(op, dst, r).left = dst /\ Binary(op, dst, r).right = r
  BY <1>1 DEF Binary, BinaryExpression
<1> QED BY <1>1, <1>2, BinaryType DEF FitsPlace

LEMMA AdjustRspInPlace ==
  ASSUME NEW st, Good(st), NEW op \in {"Add", "Sub"}
  PROVE  Good(AdjustRsp(st, op))
<1>1. RegV("RSP", 64) \in Place /\ RegV("RSP", 64) \in Value /\ ImmV(Slot) \in Value
  BY BuiltValues, ScaleAssumption DEF Value, Place
<1>2. op \in BinaryOps /\ ~BothMemory(RegV("RSP", 64), ImmV(Slot))
  BY DEF BinaryOps, BothMemory, RegV
<1> QED BY <1>1, <1>2, BinaryFits, NewAssignInPlace DEF AdjustRsp

LEMMA PushInPlace ==
  ASSUME NEW st, Good(st), NEW src \in Value
  PROVE  Good(EmitStackPush(st, src))
BY AdjustRspInPlace, EmitInPlace, BuiltValues, ValueFits DEF EmitStackPush, Value

LEMMA PopInPlace ==
  ASSUME NEW st, Good(st), NEW dst \in Value
  PROVE  Good(EmitStackPop(st, dst))
<1>1. StackSlot \in Value
  BY BuiltValues DEF Value
<1>2. Good(EmitAssignmentOrStore(st, dst, StackSlot))
  BY <1>1, EmitInPlace, ValueFits
<1> QED BY <1>2, AdjustRspInPlace DEF EmitStackPop

-----------------------------------------------------------------------------
(***************************************************************************)
(* The specification.                                                      *)
(***************************************************************************)
LEMMA HandleInPlace ==
  ASSUME NEW x, NEW st, Good(st), Handle(x, st)
  PROVE  Shaped(statements')
BY DEF Handle, Good

LEMMA HandleInsnInPlace ==
  ASSUME IInv, Shaped(statements), NEW x \in Insns, HandleInsn(x)
  PROVE  Shaped(statements')
<1>1. Good(Current) /\ WellFormed(x)
  BY LifterAssumption DEF IInv, Good, Current
<1>2. /\ RegV("RIP", 64) \in Value /\ RegV("RFLAGS", 64) \in Value
      /\ \A o : IsPlace(o) \/ IsImmOp(o) => Operand(o) \in Value
  BY BuiltValues, OperandType DEF Value
<1>p. ASSUME NEW o, IsPlace(o)
      PROVE  Operand(o) \in Place
  <2>1. Operand(o) \in Value /\ o.type \in {"reg", "mem"}
    BY <1>p, OperandType DEF IsPlace, IsRegOp, IsMemOp
  <2>2. Operand(o).kind \in {"reg", "mem"}
    BY <2>1 DEF Operand, RegV, MemV
  <2> QED BY <2>1, <2>2 DEF Value, ImmValue, Place
<1>3. CASE HandleMov(x)
  <2>1. Operand(x.ops[1]) \in Value /\ Operand(x.ops[2]) \in Value
    BY <1>1, <1>2, <1>3 DEF HandleMov, WellFormed
  <2> QED BY <1>1, <1>3, <2>1, ValueFits, EmitInPlace, HandleInPlace DEF HandleMov
<1>4. CASE HandlePush(x)
  <2>1. Operand(x.ops[1]) \in Value
    BY <1>1, <1>2, <1>4 DEF HandlePush, WellFormed
  <2> QED BY <1>1, <1>4, <2>1, PushInPlace, HandleInPlace DEF HandlePush
<1>5. CASE HandlePop(x)
  <2>1. Operand(x.ops[1]) \in Value
    BY <1>1, <1>2, <1>5 DEF HandlePop, WellFormed
  <2> QED BY <1>1, <1>5, <2>1, PopInPlace, HandleInPlace DEF HandlePop
<1>6. CASE HandlePushfq(x)
  BY <1>1, <1>2, <1>6, PushInPlace, HandleInPlace DEF HandlePushfq
<1>7. CASE HandlePopfq(x)
  BY <1>1, <1>2, <1>7, PopInPlace, HandleInPlace DEF HandlePopfq
<1>8. CASE HandleLea(x)
  <2>1. Operand(x.ops[1]) \in Value /\ Operand(x.ops[2]) \in Value
    BY <1>1, <1>2, <1>8 DEF HandleLea, WellFormed, IsPlace
  <2> QED BY <1>1, <1>8, <2>1, ValueFits, NewAssignInPlace, HandleInPlace DEF HandleLea
<1>9. CASE HandleJmp(x)
  <2>1. PICK target \in JumpTargets(x) :
          Handle(x, NewAssign(Current, RegV("RIP", 64), ImmV(target)))
    BY <1>9 DEF HandleJmp
  <2>2. target \in Int
    BY <1>1, <1>9, LifterAssumption
       DEF HandleJmp, WellFormed, JumpTargets, IsPlace, IsRegOp, IsMemOp, IsImmOp
  <2>3. ImmV(target) \in Value
    BY <2>2, BuiltValues DEF Value
  <2> QED BY <1>1, <1>2, <2>1, <2>3, ValueFits, NewAssignInPlace, HandleInPlace
<1>10. CASE HandleCall(x)
  BY <1>1, <1>2, <1>10, PushInPlace, HandleInPlace DEF HandleCall
<1>11. CASE HandleRet(x)
  BY <1>1, <1>2, <1>11, PopInPlace, HandleInPlace DEF HandleRet
<1>12. CASE HandleBinary(x)
  <2>1. x.id \in BinaryIds /\ Operand(x.ops[1]) \in Place /\ Operand(x.ops[2]) \in Value
    BY <1>1, <1>2, <1>p, <1>12 DEF HandleBinary, WellFormed
  <2>2. BinaryOpOf(x.id) \in BinaryOps /\ Operand(x.ops[1]) \in Value
    BY <2>1 DEF BinaryIds, BinaryOpOf, BinaryOps, Place, Value
  <2>3. ~BothMemory(Operand(x.ops[1]), Operand(x.ops[2]))
    <3>1. \A o : (IsPlace(o) \/ IsImmOp(o)) /\ Operand(o).kind = "mem" => IsMemOp(o)
      BY DEF IsPlace, IsRegOp, IsMemOp, IsImmOp, Operand, RegV, ImmV
    <3> QED BY <1>1, <2>1, <3>1 DEF WellFormed, BothMemory
  <2> QED BY <1>1, <1>12, <2>1, <2>2, <2>3, BinaryFits, EmitInPlace, HandleInPlace
          DEF HandleBinary, EmitBinaryOperation
<1>13. CASE HandleNeg(x)
  <2> DEFINE src == Operand(x.ops[1])
  <2>1. src \in Place /\ src \in Value
    BY <1>1, <1>p, <1>13 DEF HandleNeg, WellFormed, Place, Value
  <2> HIDE DEF src
  <2>2. Unary("Neg", src) \in UnaryExpression /\ Unary("Neg", src).operand = src
    BY <2>1 DEF Unary, UnaryExpression, UnaryOps
  <2>3. FitsPlace(src, Unary("Neg", src)) /\ Unary("Neg", src) \in Expression
    BY <2>1, <2>2 DEF FitsPlace, FlatExpression, Expression
  <2>4. Handle(x, NewAssign(Current, src, Unary("Neg", src)))
    BY <1>13 DEF HandleNeg, EmitOperation, src
  <2> QED BY <1>1, <2>1, <2>3, <2>4, NewAssignInPlace, HandleInPlace
<1>14. CASE HandleConditionalJump(x)
  <2> DEFINE c == ConditionOf(x.id)
             t == ImmV(x.ops[1].imm)
             f == Binary("Add", RegV("RIP", 64), ImmV(AddrSize))
             e == Conditional(c, t, f)
  <2>1. x.id \in CondJumpIds /\ x.ops[1].imm \in Int
    BY <1>1, <1>14 DEF HandleConditionalJump, WellFormed, IsImmOp
  <2>2. /\ t \in Value /\ ImmV(AddrSize) \in Value /\ ImmV(0) \in Value
        /\ ImmV(1) \in Value /\ RegV("ZF", 64) \in Value
    BY <2>1, BuiltValues, LifterAssumption DEF Value
  <2>3. c \in FlatExpression /\ f \in FlatExpression /\ t \in FlatExpression
    BY <1>2, <2>1, <2>2, BinaryType, ValueIsExpression DEF CondJumpIds, ConditionOf, BinaryOps
  <2>4. Handle(x, NewAssign(Current, RegV("RIP", 64), e))
    BY <1>14 DEF HandleConditionalJump, EmitConditionalJump
  <2>t. IsTarget(e)
    BY <2>1 DEF IsTarget, OverImmediate, Conditional, ConditionOf, CondJumpIds, Binary,
                RegV, ImmV
  <2> HIDE DEF c, t, f
  <2>5. e \in ConditionalExpression
    BY <2>3 DEF Conditional, ConditionalExpression
  <2>6. e \in Expression /\ FitsPlace(RegV("RIP", 64), e)
    BY <2>5, <2>t DEF Expression, FitsPlace
  <2> HIDE DEF e
  <2> QED BY <1>1, <1>2, <2>4, <2>6, NewAssignInPlace, HandleInPlace
<1>15. CASE SkipUnhandled(x)
  BY <1>1, <1>15, HandleInPlace DEF SkipUnhandled
<1> QED BY <1>3, <1>4, <1>5, <1>6, <1>7, <1>8, <1>9, <1>10, <1>11, <1>12, <1>13,
           <1>14, <1>15 DEF HandleInsn

InPlaceInv == IInv /\ Shaped(statements)

LEMMA InitInPlace == Init => InPlaceInv
BY InitEstablishesIInv DEF Init, Shaped, AllInPlace, OnlyTargetsNest, InPlaceInv

LEMMA NextKeepsInPlace == InPlaceInv /\ [Next]_vars => InPlaceInv'
<1> SUFFICES ASSUME IInv, Shaped(statements), [Next]_vars
             PROVE  Shaped(statements')
  BY NextKeepsIInv DEF InPlaceInv
<1>1. CASE StartLift
  BY <1>1 DEF StartLift, Shaped, AllInPlace, OnlyTargetsNest
<1>2. CASE DisassemblyFails \/ FinishLift \/ UNCHANGED vars
  BY <1>2 DEF DisassemblyFails, FinishLift, vars
<1>3. CASE \E x \in Insns : HandleInsn(x)
  BY <1>3, HandleInsnInPlace
<1> QED BY <1>1, <1>2, <1>3 DEF Next

\* Every operator the lifter emits computes with the place it writes, for any
\* set of decodable instructions and any block length.
THEOREM OperatesInPlaceHolds == Spec => []OperatesInPlace
<1>1. InPlaceInv => OperatesInPlace
  BY DEF InPlaceInv, Shaped, OperatesInPlace
<1> QED BY <1>1, InitInPlace, NextKeepsInPlace, PTL DEF Spec

\* Every stream the lifter makes, of whatever instructions and however many, is
\* one that RegisterAst may be built on.
THEOREM LiftedStreamsServe == Spec => [](AsLifted(statements))
<1>1. InPlaceInv => OnlyTargetsNest(statements) /\ AllInPlace(statements)
  BY DEF InPlaceInv, Shaped
<1>2. SSAIds(statements) <=> SingleAssignment
  BY DEF SingleAssignment
<1>3. SingleAssignment /\ InPlaceInv => AsLifted(statements)
  BY <1>1, <1>2 DEF AsLifted
<1> QED BY <1>3, SingleAssignmentHolds, InitInPlace, NextKeepsInPlace, PTL DEF Spec
=============================================================================
