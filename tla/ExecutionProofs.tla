---------------------------- MODULE ExecutionProofs ----------------------------
(***************************************************************************)
(* Lemmas about running code and statements, on which the proofs about     *)
(* whole blocks rest: one more instruction is one more step, and a machine *)
(* operand and an IR value that name the same place hold the same.         *)
(***************************************************************************)
EXTENDS IRMeaning, WellFoundedInduction, TLAPS

-----------------------------------------------------------------------------
(***************************************************************************)
(* Induction over the natural numbers, for sets instead of predicates: a   *)
(* smallest number outside T would have a predecessor inside.              *)
(***************************************************************************)
LEMMA SetInduction ==
  ASSUME NEW T, 0 \in T, \A n \in Nat : n \in T => n + 1 \in T
  PROVE  Nat \subseteq T
<1> DEFINE Outside == {n \in Nat : n \notin T}
           Less == OpToRel(<, Nat)
<1>1. SUFFICES ASSUME Outside # {} PROVE FALSE
  OBVIOUS
<1>2. IsWellFoundedOn(Less, Nat) /\ Outside \subseteq Nat
  BY NatLessThanWellFounded
<1> HIDE DEF Less
<1>3. PICK x \in Outside : \A y \in Outside : <<y, x>> \notin Less
  <2> HIDE DEF Outside
  <2> QED BY <1>1, <1>2, WFMin
<1>4. x \in Nat /\ x \notin T
  OBVIOUS
<1>5. x - 1 \in Nat
  BY <1>4
<1>6. x - 1 \in Outside
  <2>1. x - 1 \in T => (x - 1) + 1 \in T
    BY <1>5
  <2> QED BY <1>4, <1>5, <2>1
<1>7. <<x - 1, x>> \in Less
  BY <1>4, <1>5 DEF Less, OpToRel
<1> QED BY <1>3, <1>6, <1>7

-----------------------------------------------------------------------------
(***************************************************************************)
(* Runs.  The recursive function of a run exists, prefixes of the code run *)
(* alike, so that appending an instruction executes it last.               *)
(***************************************************************************)
IsStates(state, code, cpu, k) ==
  state = [n \in 0..k |-> IF n = 0 THEN cpu ELSE Exec(code[n], state[n - 1])]

LEMMA StatesExist ==
  ASSUME NEW code, NEW cpu
  PROVE  \A k \in Nat : \E state : IsStates(state, code, cpu, k)
<1> DEFINE T == {k \in Nat : \E state : IsStates(state, code, cpu, k)}
<1>1. 0 \in T
  <2> DEFINE state == [n \in 0..0 |-> cpu]
  <2>1. state = [n \in 0..0 |-> IF n = 0 THEN cpu ELSE Exec(code[n], state[n - 1])]
    OBVIOUS
  <2> QED BY <2>1 DEF IsStates
<1>2. ASSUME NEW k \in Nat, k \in T PROVE k + 1 \in T
  <2>1. PICK g : IsStates(g, code, cpu, k)
    BY <1>2
  <2> DEFINE state == [n \in 0..(k + 1) |-> IF n = k + 1 THEN Exec(code[n], g[k]) ELSE g[n]]
  <2>2. ASSUME NEW n \in 0..(k + 1)
        PROVE  state[n] = IF n = 0 THEN cpu ELSE Exec(code[n], state[n - 1])
    <3>1. CASE n = k + 1
      BY <3>1
    <3>2. CASE n # k + 1
      <4>1. n \in 0..k /\ state[n] = g[n] /\ (n # 0 => state[n - 1] = g[n - 1])
        BY <3>2
      <4>2. g[n] = IF n = 0 THEN cpu ELSE Exec(code[n], g[n - 1])
        BY <2>1, <4>1 DEF IsStates
      <4> QED BY <4>1, <4>2
    <3> QED BY <3>1, <3>2
  <2>3. IsStates(state, code, cpu, k + 1)
    BY <2>2 DEF IsStates
  <2> QED BY <2>3
<1>3. Nat \subseteq T
  <2> HIDE DEF T
  <2> QED BY <1>1, <1>2, SetInduction
<1> QED BY <1>3

LEMMA StatesUnfold ==
  ASSUME NEW S, NEW code \in Seq(S), NEW cpu
  PROVE  IsStates(States(code, cpu), code, cpu, Len(code))
<1>1. \E state : IsStates(state, code, cpu, Len(code))
  <2>1. Len(code) \in Nat
    OBVIOUS
  <2> QED BY <2>1, StatesExist
<1>2. States(code, cpu) = CHOOSE state : IsStates(state, code, cpu, Len(code))
  BY DEF States, IsStates
<1> QED BY <1>1, <1>2

LEMMA RunAppend ==
  ASSUME NEW S, NEW code \in Seq(S), NEW x \in S, NEW cpu
  PROVE  Run(Append(code, x), cpu) = Exec(x, Run(code, cpu))
<1> DEFINE longer == Append(code, x)
           f == States(code, cpu)
           g == States(longer, cpu)
<1>1. longer \in Seq(S) /\ Len(longer) = Len(code) + 1 /\ longer[Len(code) + 1] = x
      /\ \A n \in 1..Len(code) : longer[n] = code[n]
  OBVIOUS
<1>2. /\ f = [n \in 0..Len(code) |-> IF n = 0 THEN cpu ELSE Exec(code[n], f[n - 1])]
      /\ g = [n \in 0..(Len(code) + 1) |-> IF n = 0 THEN cpu ELSE Exec(longer[n], g[n - 1])]
  <2> HIDE DEF longer
  <2> QED BY <1>1, StatesUnfold DEF IsStates
<1> HIDE DEF f, g, longer
<1> DEFINE T == {n \in Nat : n <= Len(code) => f[n] = g[n]}
<1>3. 0 \in T
  BY <1>2
<1>4. ASSUME NEW n \in Nat, n \in T PROVE n + 1 \in T
  <2>1. SUFFICES ASSUME n + 1 <= Len(code) PROVE f[n + 1] = g[n + 1]
    OBVIOUS
  <2>2. f[n] = g[n] /\ n + 1 \in 1..Len(code) /\ longer[n + 1] = code[n + 1]
    BY <1>1, <1>4, <2>1
  <2>3. f[n + 1] = Exec(code[n + 1], f[n]) /\ g[n + 1] = Exec(longer[n + 1], g[n])
    BY <1>2, <2>2
  <2> QED BY <2>2, <2>3
<1>5. Nat \subseteq T
  <2> HIDE DEF T
  <2> QED BY <1>3, <1>4, SetInduction
<1>6. f[Len(code)] = g[Len(code)]
  BY <1>5
<1>7. g[Len(code) + 1] = Exec(x, g[Len(code)])
  BY <1>1, <1>2
<1>8. Run(longer, cpu) = g[Len(code) + 1] /\ Run(code, cpu) = f[Len(code)]
  BY <1>1 DEF Run, f, g
<1> QED BY <1>6, <1>7, <1>8 DEF longer

LEMMA RunNothing == \A cpu : Run(<<>>, cpu) = cpu
<1> SUFFICES ASSUME NEW cpu PROVE Run(<<>>, cpu) = cpu
  OBVIOUS
<1>1. <<>> \in Seq({}) /\ Len(<<>>) = 0
  OBVIOUS
<1>2. IsStates(States(<<>>, cpu), <<>>, cpu, 0)
  BY <1>1, StatesUnfold
<1> QED BY <1>1, <1>2 DEF IsStates, Run

LEMMA RunShort ==
  \A cpu, a, b, c :
    /\ Run(<<a>>, cpu) = Exec(a, cpu)
    /\ Run(<<a, b>>, cpu) = Exec(b, Exec(a, cpu))
    /\ Run(<<a, b, c>>, cpu) = Exec(c, Exec(b, Exec(a, cpu)))
<1> SUFFICES ASSUME NEW cpu, NEW a, NEW b, NEW c
             PROVE  /\ Run(<<a>>, cpu) = Exec(a, cpu)
                    /\ Run(<<a, b>>, cpu) = Exec(b, Exec(a, cpu))
                    /\ Run(<<a, b, c>>, cpu) = Exec(c, Exec(b, Exec(a, cpu)))
  OBVIOUS
<1> DEFINE S == {a, b, c}
<1>1. a \in S /\ b \in S /\ c \in S
  OBVIOUS
<1> HIDE DEF S
<1>2. <<>> \in Seq(S) /\ <<a>> \in Seq(S) /\ <<a, b>> \in Seq(S)
  BY <1>1
<1>3. <<a>> = Append(<<>>, a) /\ <<a, b>> = Append(<<a>>, b) /\ <<a, b, c>> = Append(<<a, b>>, c)
  OBVIOUS
<1>4. Run(<<a>>, cpu) = Exec(a, cpu)
  <2>1. Run(Append(<<>>, a), cpu) = Exec(a, Run(<<>>, cpu))
    BY <1>1, <1>2, RunAppend
  <2> QED BY <1>3, <2>1, RunNothing
<1>5. Run(<<a, b>>, cpu) = Exec(b, Run(<<a>>, cpu))
  <2>1. Run(Append(<<a>>, b), cpu) = Exec(b, Run(<<a>>, cpu))
    BY <1>1, <1>2, RunAppend
  <2> QED BY <1>3, <2>1
<1>6. Run(<<a, b, c>>, cpu) = Exec(c, Run(<<a, b>>, cpu))
  <2>1. Run(Append(<<a, b>>, c), cpu) = Exec(c, Run(<<a, b>>, cpu))
    BY <1>1, <1>2, RunAppend
  <2> QED BY <1>3, <2>1
<1> QED BY <1>4, <1>5, <1>6

\* Code after code runs from where the first has led.
LEMMA RunConcat ==
  ASSUME NEW S, NEW code \in Seq(S), NEW more \in Seq(S), NEW cpu
  PROVE  Run(code \o more, cpu) = Run(more, Run(code, cpu))
<1> DEFINE T == {n \in Nat : \A m \in Seq(S) : Len(m) = n =>
                               Run(code \o m, cpu) = Run(m, Run(code, cpu))}
<1>1. 0 \in T
  <2>1. \A m \in Seq(S) : Len(m) = 0 => m = <<>> /\ code \o m = code
    OBVIOUS
  <2> QED BY <2>1, RunNothing
<1>2. ASSUME NEW n \in Nat, n \in T PROVE n + 1 \in T
  <2> SUFFICES ASSUME NEW m \in Seq(S), Len(m) = n + 1
               PROVE  Run(code \o m, cpu) = Run(m, Run(code, cpu))
    OBVIOUS
  <2> DEFINE front == SubSeq(m, 1, n)
             x == m[n + 1]
  <2>1. front \in Seq(S) /\ Len(front) = n /\ x \in S /\ m = Append(front, x)
    OBVIOUS
  <2>2. code \o front \in Seq(S) /\ code \o m = Append(code \o front, x)
    <3> HIDE DEF front, x
    <3> QED BY <2>1
  <2> HIDE DEF front, x
  <2>3. Run(code \o front, cpu) = Run(front, Run(code, cpu))
    BY <1>2, <2>1
  <2>4. Run(Append(code \o front, x), cpu) = Exec(x, Run(code \o front, cpu))
    BY <2>1, <2>2, RunAppend
  <2>5. Run(Append(front, x), Run(code, cpu)) = Exec(x, Run(front, Run(code, cpu)))
    BY <2>1, RunAppend
  <2> QED BY <2>1, <2>2, <2>3, <2>4, <2>5
<1>3. Nat \subseteq T
  <2> HIDE DEF T
  <2> QED BY <1>1, <1>2, SetInduction
<1>4. Len(more) \in Nat
  OBVIOUS
<1> QED BY <1>3, <1>4

-----------------------------------------------------------------------------
(***************************************************************************)
(* The same of statements.                                                 *)
(***************************************************************************)
IsEnvironments(envs, ss, env, k) ==
  envs = [n \in 0..k |-> IF n = 0 THEN env ELSE ExecStatement(ss[n], envs[n - 1])]

LEMMA EnvironmentsExist ==
  ASSUME NEW ss, NEW env
  PROVE  \A k \in Nat : \E envs : IsEnvironments(envs, ss, env, k)
<1> DEFINE T == {k \in Nat : \E envs : IsEnvironments(envs, ss, env, k)}
<1>1. 0 \in T
  <2> DEFINE envs == [n \in 0..0 |-> env]
  <2>1. envs = [n \in 0..0 |-> IF n = 0 THEN env ELSE ExecStatement(ss[n], envs[n - 1])]
    OBVIOUS
  <2> QED BY <2>1 DEF IsEnvironments
<1>2. ASSUME NEW k \in Nat, k \in T PROVE k + 1 \in T
  <2>1. PICK g : IsEnvironments(g, ss, env, k)
    BY <1>2
  <2> DEFINE envs == [n \in 0..(k + 1) |-> IF n = k + 1 THEN ExecStatement(ss[n], g[k]) ELSE g[n]]
  <2>2. ASSUME NEW n \in 0..(k + 1)
        PROVE  envs[n] = IF n = 0 THEN env ELSE ExecStatement(ss[n], envs[n - 1])
    <3>1. CASE n = k + 1
      BY <3>1
    <3>2. CASE n # k + 1
      <4>1. n \in 0..k /\ envs[n] = g[n] /\ (n # 0 => envs[n - 1] = g[n - 1])
        BY <3>2
      <4>2. g[n] = IF n = 0 THEN env ELSE ExecStatement(ss[n], g[n - 1])
        BY <2>1, <4>1 DEF IsEnvironments
      <4> QED BY <4>1, <4>2
    <3> QED BY <3>1, <3>2
  <2>3. IsEnvironments(envs, ss, env, k + 1)
    BY <2>2 DEF IsEnvironments
  <2> QED BY <2>3
<1>3. Nat \subseteq T
  <2> HIDE DEF T
  <2> QED BY <1>1, <1>2, SetInduction
<1> QED BY <1>3

LEMMA EnvironmentsUnfold ==
  ASSUME NEW S, NEW ss \in Seq(S), NEW env
  PROVE  IsEnvironments(Environments(ss, env), ss, env, Len(ss))
<1>1. \E envs : IsEnvironments(envs, ss, env, Len(ss))
  <2>1. Len(ss) \in Nat
    OBVIOUS
  <2> QED BY <2>1, EnvironmentsExist
<1>2. Environments(ss, env) = CHOOSE envs : IsEnvironments(envs, ss, env, Len(ss))
  BY DEF Environments, IsEnvironments
<1> QED BY <1>1, <1>2

LEMMA RunIRAppend ==
  ASSUME NEW S, NEW ss \in Seq(S), NEW s \in S, NEW env
  PROVE  RunIR(Append(ss, s), env) = ExecStatement(s, RunIR(ss, env))
<1> DEFINE longer == Append(ss, s)
           f == Environments(ss, env)
           g == Environments(longer, env)
<1>1. longer \in Seq(S) /\ Len(longer) = Len(ss) + 1 /\ longer[Len(ss) + 1] = s
      /\ \A n \in 1..Len(ss) : longer[n] = ss[n]
  OBVIOUS
<1>2. /\ f = [n \in 0..Len(ss) |-> IF n = 0 THEN env ELSE ExecStatement(ss[n], f[n - 1])]
      /\ g = [n \in 0..(Len(ss) + 1) |-> IF n = 0 THEN env ELSE ExecStatement(longer[n], g[n - 1])]
  <2> HIDE DEF longer
  <2> QED BY <1>1, EnvironmentsUnfold DEF IsEnvironments
<1> HIDE DEF f, g, longer
<1> DEFINE T == {n \in Nat : n <= Len(ss) => f[n] = g[n]}
<1>3. 0 \in T
  BY <1>2
<1>4. ASSUME NEW n \in Nat, n \in T PROVE n + 1 \in T
  <2>1. SUFFICES ASSUME n + 1 <= Len(ss) PROVE f[n + 1] = g[n + 1]
    OBVIOUS
  <2>2. f[n] = g[n] /\ n + 1 \in 1..Len(ss) /\ longer[n + 1] = ss[n + 1]
    BY <1>1, <1>4, <2>1
  <2>3. f[n + 1] = ExecStatement(ss[n + 1], f[n]) /\ g[n + 1] = ExecStatement(longer[n + 1], g[n])
    BY <1>2, <2>2
  <2> QED BY <2>2, <2>3
<1>5. Nat \subseteq T
  <2> HIDE DEF T
  <2> QED BY <1>3, <1>4, SetInduction
<1>6. f[Len(ss)] = g[Len(ss)]
  BY <1>5
<1>7. g[Len(ss) + 1] = ExecStatement(s, g[Len(ss)])
  BY <1>1, <1>2
<1>8. RunIR(longer, env) = g[Len(ss) + 1] /\ RunIR(ss, env) = f[Len(ss)]
  BY <1>1 DEF RunIR, f, g
<1> QED BY <1>6, <1>7, <1>8 DEF longer

LEMMA RunIRNothing == \A env : RunIR(<<>>, env) = env
<1> SUFFICES ASSUME NEW env PROVE RunIR(<<>>, env) = env
  OBVIOUS
<1>1. <<>> \in Seq({}) /\ Len(<<>>) = 0
  OBVIOUS
<1>2. IsEnvironments(Environments(<<>>, env), <<>>, env, 0)
  BY <1>1, EnvironmentsUnfold
<1> QED BY <1>1, <1>2 DEF IsEnvironments, RunIR
-----------------------------------------------------------------------------
(***************************************************************************)
(* Arithmetic modulo m.                                                    *)
(***************************************************************************)
LEMMA ModUnique ==
  ASSUME NEW m \in Nat \ {0}, NEW q1 \in Int, NEW q2 \in Int,
         NEW r1 \in 0..(m - 1), NEW r2 \in 0..(m - 1), m * q1 + r1 = m * q2 + r2
  PROVE  r1 = r2
<1> DEFINE d == q1 - q2
<1>1. d \in Int /\ m * d = r2 - r1
  OBVIOUS
<1>2. r2 - r1 < m /\ r2 - r1 > -m
  OBVIOUS
<1> HIDE DEF d
<1>3. CASE d >= 1
  <2>1. m * d >= m
    BY <1>1, <1>3
  <2> QED BY <1>1, <1>2, <2>1
<1>4. CASE d <= -1
  <2>1. m * d <= -m
    BY <1>1, <1>4
  <2> QED BY <1>1, <1>2, <2>1
<1>5. CASE d = 0
  BY <1>1, <1>5
<1> QED BY <1>1, <1>3, <1>4, <1>5

LEMMA ModQuotient ==
  ASSUME NEW m \in Nat \ {0}, NEW a \in Int
  PROVE  \E q \in Int : a = m * q + (a % m)
<1>1. a \div m \in Int /\ a = m * (a \div m) + (a % m)
  OBVIOUS
<1> QED BY <1>1

LEMMA ModShift ==
  ASSUME NEW m \in Nat \ {0}, NEW a \in Int, NEW k \in Int
  PROVE  (a - m * k) % m = a % m
<1> DEFINE q1 == (a - m * k) \div m
           r1 == (a - m * k) % m
           q2 == a \div m
           r2 == a % m
<1>1. q1 \in Int /\ q2 \in Int /\ r1 \in 0..(m - 1) /\ r2 \in 0..(m - 1)
  OBVIOUS
<1>2. a - m * k = m * q1 + r1 /\ a = m * q2 + r2
  OBVIOUS
<1> HIDE DEF q1, r1, q2, r2
<1>3. m * (q1 + k) + r1 = m * q2 + r2
  <2>1. m * (q1 + k) = m * q1 + m * k
    BY <1>1
  <2>2. m * k \in Int /\ m * q1 \in Int
    BY <1>1
  <2> QED BY <1>1, <1>2, <2>1, <2>2
<1>4. q1 + k \in Int
  BY <1>1
<1>5. r1 = r2
  BY <1>1, <1>3, <1>4, ModUnique
<1> QED BY <1>5 DEF r1, r2

\* Each width divides the word.
LEMMA WidthFacts ==
  /\ 64 \in Widths
  /\ \A w \in Widths : Modulus[w] \in Nat \ {0}
  /\ \A w \in Widths : \E k \in Int : Modulus[64] = Modulus[w] * k
<1>1. 64 \in Widths
  BY DEF Widths, Sizes
<1>2. \A w \in Widths : Modulus[w] \in Nat \ {0}
  BY ScaleAssumption
<1>3. ASSUME NEW w \in Widths
      PROVE  \E k \in Int : Modulus[64] = Modulus[w] * k
  <2>1. PICK m \in Nat \ {0} : m = Modulus[w]
    BY <1>2
  <2>2. PICK M \in Nat \ {0} : M = Modulus[64]
    BY <1>1, <1>2
  <2>3. M % m = 0
    BY <2>1, <2>2, NestAssumption
  <2>4. M = m * (M \div m) /\ M \div m \in Int
    BY <2>3
  <2> QED BY <2>1, <2>2, <2>4
<1> QED BY <1>1, <1>2, <1>3

-----------------------------------------------------------------------------
(***************************************************************************)
(* Values.                                                                 *)
(***************************************************************************)

\* A value fits the width at which an operator on it computes.
LEMMA ValueFitsWidth ==
  ASSUME NEW env \in Env, NEW v \in Value
  PROVE  /\ WidthOf(v) \in Widths
         /\ EvalValue(v, env) \in 0..(Modulus[WidthOf(v)] - 1)
<1>0. \A w \in Widths : \A n \in Int : Low(n, w) \in 0..(Modulus[w] - 1)
  <2> SUFFICES ASSUME NEW w \in Widths, NEW n \in Int
               PROVE  Low(n, w) \in 0..(Modulus[w] - 1)
    OBVIOUS
  <2>1. PICK m \in Nat \ {0} : m = Modulus[w]
    BY WidthFacts
  <2> QED BY <2>1 DEF Low
<1>1. Word \subseteq Int /\ env.reg \in [Reg -> Word] /\ env.mem \in [Word -> Word]
  <2>1. PICK M \in Nat \ {0} : M = Modulus[64]
    BY WidthFacts
  <2> QED BY <2>1 DEF Word, Env
<1>2. CASE v \in RegValue
  <2>1. v.kind = "reg" /\ v.width \in Widths /\ env.reg[v.reg] \in Int
    BY <1>1, <1>2 DEF RegValue
  <2> QED BY <1>0, <2>1 DEF WidthOf, EvalValue
<1>3. CASE v \in ImmValue
  BY <1>3, WidthFacts DEF ImmValue, Word, WidthOf, EvalValue
<1>4. CASE v \in MemoryValue
  <2>1. /\ v.kind = "mem" /\ 8 * v.size \in Widths /\ v.scale \in Int /\ v.displacement \in Int
        /\ v.base \in OptReg /\ v.index \in OptReg
    BY <1>4 DEF MemoryValue, Widths, Scales
  <2>2. \A r \in OptReg : RegisterOf(r, env) \in Int
    <3>1. \A r \in RegValue : r.kind = "reg" /\ r.reg \in Reg
      BY DEF RegValue
    <3>2. \A r \in RegValue : RegisterOf(r, env) \in Int
      BY <1>1, <3>1 DEF RegisterOf
    <3>3. RegisterOf(NullValue, env) = 0
      BY DEF NullValue, RegisterOf
    <3> QED BY <3>2, <3>3 DEF OptReg
  <2>3. RegisterOf(v.base, env) + v.scale * RegisterOf(v.index, env) + v.displacement \in Int
    BY <2>1, <2>2
  <2>4. Address(v, env) \in Word
    BY <1>0, <2>3, WidthFacts DEF Address, Word, Low
  <2>5. env.mem[Address(v, env)] \in Int
    BY <1>1, <2>4
  <2> QED BY <1>0, <2>1, <2>5 DEF WidthOf, EvalValue
<1> QED BY <1>2, <1>3, <1>4 DEF Value

-----------------------------------------------------------------------------
(***************************************************************************)
(* Words of a width.                                                       *)
(***************************************************************************)
LEMMA ModRange ==
  ASSUME NEW m \in Nat \ {0}, NEW n \in Int
  PROVE  n % m \in 0..(m - 1) /\ n % m \in Int
OBVIOUS

LEMMA ModSmall ==
  ASSUME NEW m \in Nat \ {0}, NEW n \in 0..(m - 1)
  PROVE  n % m = n
OBVIOUS

\* A remainder may be taken before or after an addition or a subtraction.
LEMMA ModOfSum ==
  ASSUME NEW m \in Nat \ {0}, NEW a \in Int, NEW b \in Int
  PROVE  /\ (a + (b % m)) % m = (a + b) % m
         /\ (a - (b % m)) % m = (a - b) % m
<1>1. PICK q \in Int : b = m * q + (b % m)
  BY ModQuotient
<1> DEFINE r == b % m
<1>2. r \in Int
  BY ModRange
<1> HIDE DEF r
<1>3. m * q \in Int /\ b = m * q + r
  BY <1>1 DEF r
<1>4. (a + b) - m * q = a + r /\ (a - r) - m * q = a - b
  BY <1>2, <1>3
<1>5. (a + r) % m = (a + b) % m
  <2>1. a + b \in Int
    OBVIOUS
  <2>2. ((a + b) - m * q) % m = (a + b) % m
    BY <2>1, ModShift
  <2> QED BY <1>4, <2>2
<1>6. (a - b) % m = (a - r) % m
  <2>1. a - r \in Int
    BY <1>2
  <2> QED BY <1>4, <2>1, ModShift
<1> QED BY <1>5, <1>6 DEF r

\* Of nested moduli the smaller one decides.
LEMMA ModNested ==
  ASSUME NEW m \in Nat \ {0}, NEW k \in Int, m * k \in Nat \ {0}, NEW n \in Int
  PROVE  (n % (m * k)) % m = n % m
<1> DEFINE M == m * k
<1>1. PICK q \in Int : n = M * q + (n % M)
  BY ModQuotient
<1>2. M * q = m * (k * q) /\ k * q \in Int
  OBVIOUS
<1> DEFINE r == n % M
<1>3. r \in Int
  BY ModRange
<1> HIDE DEF r
<1>4. M * q \in Int /\ n = M * q + r
  BY <1>1 DEF r
<1> HIDE DEF M
<1>5. n - m * (k * q) = r
  BY <1>2, <1>3, <1>4
<1>6. r % m = n % m
  BY <1>2, <1>5, ModShift
<1> QED BY <1>6 DEF r, M

LEMMA WordIsLow ==
  /\ Word \subseteq Int
  /\ Word = 0..(Modulus[64] - 1)
  /\ 0 \in Word
<1>1. PICK M \in Nat \ {0} : M = Modulus[64]
  BY WidthFacts
<1> QED BY <1>1 DEF Word

LEMMA LowRange ==
  ASSUME NEW w \in Widths, NEW n \in Int
  PROVE  Low(n, w) \in 0..(Modulus[w] - 1) /\ Low(n, w) \in Int
BY WidthFacts, ModRange DEF Low

LEMMA LowSmall ==
  ASSUME NEW w \in Widths, NEW n \in 0..(Modulus[w] - 1)
  PROVE  Low(n, w) = n /\ n \in Int
<1>1. PICK m \in Nat \ {0} : m = Modulus[w]
  BY WidthFacts
<1> QED BY <1>1, ModSmall DEF Low

LEMMA LowOfRemainder ==
  ASSUME NEW w \in Widths, NEW n \in Int
  PROVE  Low(n % Modulus[64], w) = Low(n, w)
<1>1. PICK m \in Nat \ {0} : m = Modulus[w]
  BY WidthFacts
<1>2. PICK k \in Int : Modulus[64] = m * k
  BY <1>1, WidthFacts
<1>3. m * k \in Nat \ {0}
  BY <1>2, WidthFacts
<1> QED BY <1>1, <1>2, <1>3, ModNested DEF Low

\* What fits a width is a word.
LEMMA WidthInWord ==
  ASSUME NEW w \in Widths
  PROVE  0..(Modulus[w] - 1) \subseteq Word
<1>1. PICK m \in Nat \ {0} : m = Modulus[w]
  BY WidthFacts
<1>2. PICK M \in Nat \ {0} : M = Modulus[64]
  BY WidthFacts
<1>3. PICK k \in Int : M = m * k
  BY <1>1, <1>2, WidthFacts
<1>4. k >= 1
  <2>1. k <= 0 => m * k <= 0
    OBVIOUS
  <2> QED BY <1>2, <1>3, <2>1
<1>5. m * k >= m
  BY <1>4
<1> QED BY <1>1, <1>2, <1>3, <1>5 DEF Word

\* A narrower write leaves a word, reads back, and is undone by the next one.
LEMMA NarrowedFacts ==
  ASSUME NEW w \in Widths, NEW old \in Word, NEW v \in 0..(Modulus[w] - 1),
         NEW u \in 0..(Modulus[w] - 1)
  PROVE  /\ Narrowed(old, v, w) \in Word
         /\ Low(Narrowed(old, v, w), w) = v
         /\ Narrowed(Narrowed(old, v, w), u, w) = Narrowed(old, u, w)
         /\ w = 64 => Narrowed(old, v, w) = v
<1>1. PICK m \in Nat \ {0} : m = Modulus[w]
  BY WidthFacts
<1>2. PICK M \in Nat \ {0} : M = Modulus[64]
  BY WidthFacts
<1>3. PICK k \in Int : M = m * k
  BY <1>1, <1>2, WidthFacts
<1>4. old \in 0..(M - 1) /\ v \in 0..(m - 1) /\ u \in 0..(m - 1)
  BY <1>1, <1>2 DEF Word
<1> DEFINE r == old % m
           new == old - r + v
<1>5. PICK q \in Int : old = m * q + r
  <2>1. old \in Int
    BY <1>4
  <2> QED BY <2>1, ModQuotient
<1>6. r \in 0..(m - 1)
  BY <1>4, ModRange
<1>7. Narrowed(old, v, w) = new /\ Narrowed(old, u, w) = old - r + u
      /\ Low(new, w) = new % m /\ Narrowed(new, u, w) = new - (new % m) + u
  BY <1>1 DEF Narrowed, Low
<1>7a. w = 64 => m = M
  BY <1>1, <1>2
<1> HIDE DEF r
<1>8. m * q \in Int /\ new \in Int /\ new = m * q + v
  BY <1>4, <1>5, <1>6
<1>9. new % m = v
  <2>1. v % m = v /\ v \in Int
    BY <1>4
  <2>2. new - m * q = v
    BY <1>4, <1>8
  <2> HIDE DEF new
  <2> QED BY <1>8, <2>1, <2>2, ModShift
<1>10. q >= 0
  <2>1. q <= -1 => m * q <= -m
    OBVIOUS
  <2> QED BY <1>4, <1>5, <1>6, <1>8, <2>1
<1>11. q <= k - 1
  <2>1. q >= k => m * q >= m * k
    OBVIOUS
  <2> QED BY <1>3, <1>4, <1>5, <1>6, <1>8, <2>1
<1>12. m * q >= 0
  BY <1>10
<1>13. m * q <= m * (k - 1)
  BY <1>11
<1>14. m * (k - 1) = M - m
  BY <1>3
<1>15. new \in 0..(M - 1)
  BY <1>4, <1>8, <1>12, <1>13, <1>14
<1>16. new - v + u = old - r + u
  BY <1>4, <1>5, <1>6, <1>8
<1>17. CASE w # 64
  BY <1>2, <1>7, <1>9, <1>15, <1>16, <1>17 DEF Word
<1>18. CASE w = 64
  <2>1. old % m = old
    BY <1>4, <1>7a, <1>18
  <2>2. new = v
    BY <1>4, <2>1 DEF r
  <2> QED BY <1>2, <1>7, <1>9, <1>15, <1>16, <2>2 DEF Word
<1> QED BY <1>17, <1>18

LEMMA WrittenRegFacts ==
  ASSUME NEW w \in Widths, NEW old \in Word, NEW v \in 0..(Modulus[w] - 1),
         NEW u \in 0..(Modulus[w] - 1)
  PROVE  /\ WrittenReg(old, v, w) \in Word
         /\ Low(WrittenReg(old, v, w), w) = v
         /\ WrittenReg(WrittenReg(old, v, w), u, w) = WrittenReg(old, u, w)
         /\ w = 64 => WrittenReg(old, v, w) = v
<1>1. CASE w = 32
  <2>1. v \in Word /\ Low(v, w) = v
    BY WidthInWord, LowSmall
  <2> QED BY <1>1, <2>1 DEF WrittenReg
<1>2. CASE w # 32
  BY <1>2, NarrowedFacts DEF WrittenReg
<1> QED BY <1>1, <1>2

LEMMA WholeWord ==
  ASSUME NEW old \in Word, NEW v \in Word
  PROVE  /\ Low(v, 64) = v /\ v \in Int
         /\ Narrowed(old, v, 64) = v /\ WrittenReg(old, v, 64) = v
<1>1. 64 \in Widths /\ v \in 0..(Modulus[64] - 1)
  BY WidthFacts DEF Word
<1>2. Low(v, 64) = v /\ v \in Int
  BY <1>1, LowSmall
<1>3. Narrowed(old, v, 64) = v
  BY <1>1, NarrowedFacts
<1>4. WrittenReg(old, v, 64) = v
  BY <1>3 DEF WrittenReg
<1> QED BY <1>2, <1>3, <1>4

-----------------------------------------------------------------------------
(***************************************************************************)
(* The processor and the environment side by side.  A processor is linked  *)
(* to an environment in a set of registers when no jump has been taken and *)
(* both hold the same in memory and in these registers.                    *)
(***************************************************************************)
Machine == [gpr : [GPR -> Word], mem : [Word -> Word], cf : Int, zf : Int, sf : Int,
            of : Int, exit : Int]

Linked(G, cpu, env) ==
  /\ cpu \in Machine /\ env \in Env
  /\ cpu.exit = FallsThrough
  /\ cpu.mem = env.mem
  /\ \A r \in G : cpu.gpr[r] = env.reg[r]

SameFlags(a, b) == a.cf = b.cf /\ a.zf = b.zf /\ a.sf = b.sf /\ a.of = b.of

\* The registers of the IR that are no registers of the processor.
KeepsSpecial(after, before) == \A r \in Reg \ GPR : after.reg[r] = before.reg[r]

ReadsWithin(v, G) == \A u \in ValueReads(v) : u.reg \in G

\* A machine operand and an IR value are the same register, immediate or address.
NamesSame(r, v) ==
  IF v.kind = "null" THEN r = X86_REG_INVALID ELSE v.reg \in GPR /\ r = X86Reg(v.reg)

Denotes(o, v) ==
  \/ /\ v \in RegValue /\ v.reg \in GPR
     /\ o.type = "reg" /\ ~o.reg.high /\ o.reg.family = v.reg /\ Width(o) = v.width
  \/ /\ v \in ImmValue
     /\ o.type = "imm" /\ o.imm \in Int /\ v.value = o.imm % Modulus[64]
  \/ /\ v \in MemoryValue
     /\ o.type = "mem" /\ o.scale = v.scale /\ o.disp = v.displacement /\ o.size = v.size
     /\ NamesSame(o.base, v.base) /\ NamesSame(o.index, v.index)

LEMMA DenotesKinds ==
  ASSUME NEW o, NEW v, Denotes(o, v)
  PROVE  /\ v \in Value
         /\ v.kind \in {"reg", "imm", "mem"} /\ o.type = v.kind
         /\ v.kind = "reg" => /\ v \in RegValue /\ v.reg \in GPR /\ v.width \in Widths
                              /\ ~o.reg.high /\ o.reg.family = v.reg /\ Width(o) = v.width
         /\ v.kind = "imm" => /\ v \in ImmValue /\ o.imm \in Int
                              /\ v.value = o.imm % Modulus[64]
         /\ v.kind = "mem" => /\ v \in MemoryValue /\ o.scale = v.scale /\ o.disp = v.displacement
                              /\ o.size = v.size /\ 8 * v.size \in Widths
                              /\ NamesSame(o.base, v.base) /\ NamesSame(o.index, v.index)
         /\ v.kind # "imm" => WidthOf(v) \in Widths /\ Width(o) = WidthOf(v)
BY DEF Denotes, Value, RegValue, ImmValue, MemoryValue, WidthOf, Width, Widths

LEMMA GprIsReg ==
  /\ GPR \subseteq Reg /\ "RSP" \in GPR /\ "RAX" \in GPR
  /\ {"RIP", "RFLAGS", "ZF"} \subseteq Reg \ GPR
  /\ \A r \in GPR : r # "RFLAGS" /\ r # "RIP" /\ r # "ZF"
BY GPRAssumption DEF Reg

LEMMA AddressType ==
  ASSUME NEW env \in Env, NEW v \in MemoryValue
  PROVE  /\ RegisterOf(v.base, env) \in Int /\ RegisterOf(v.index, env) \in Int
         /\ v.scale \in Int /\ v.displacement \in Int
         /\ Address(v, env) \in Word
<1>1. /\ v.kind = "mem" /\ v.scale \in Int /\ v.displacement \in Int
      /\ v.base \in OptReg /\ v.index \in OptReg
  BY DEF MemoryValue, Scales
<1>2. env.reg \in [Reg -> Word]
  BY DEF Env
<1>3. \A r \in OptReg : RegisterOf(r, env) \in Int
  <2>1. \A r \in RegValue : r.kind = "reg" /\ r.reg \in Reg
    BY DEF RegValue
  <2>2. \A r \in RegValue : RegisterOf(r, env) \in Int
    BY <1>2, <2>1, WordIsLow DEF RegisterOf
  <2>3. RegisterOf(NullValue, env) = 0
    BY DEF NullValue, RegisterOf
  <2> QED BY <2>2, <2>3 DEF OptReg
<1>4. RegisterOf(v.base, env) + v.scale * RegisterOf(v.index, env) + v.displacement \in Int
  BY <1>1, <1>3
<1>5. Address(v, env) \in Word
  BY <1>4, WidthFacts, ModRange DEF Address, Word
<1> QED BY <1>1, <1>3, <1>5

LEMMA AddressMeans ==
  ASSUME NEW G \in SUBSET GPR, NEW cpu, NEW env, Linked(G, cpu, env),
         NEW o, NEW v \in MemoryValue, Denotes(o, v), ReadsWithin(v, G)
  PROVE  EffectiveAddress(o, cpu) = Address(v, env)
<1>1. v.kind = "mem" /\ v.base \in OptReg /\ v.index \in OptReg
  BY DEF MemoryValue
<1>2. /\ o.scale = v.scale /\ o.disp = v.displacement
      /\ NamesSame(o.base, v.base) /\ NamesSame(o.index, v.index)
  BY <1>1, DenotesKinds
<1>3. ASSUME NEW r, NEW u \in OptReg, NamesSame(r, u), u.kind # "null" => u.reg \in G
      PROVE  FamilyValue(r, cpu) = RegisterOf(u, env)
  <2>1. CASE u.kind = "null"
    BY <1>3, <2>1 DEF NamesSame, FamilyValue, RegisterOf
  <2>2. CASE u.kind # "null"
    <3>1. u.reg \in G /\ u.reg \in GPR /\ r = X86Reg(u.reg)
      BY <1>3, <2>2 DEF NamesSame
    <3>2. u.reg # "invalid"
      BY <3>1, GPRAssumption
    <3>3. r # X86_REG_INVALID /\ r.family = u.reg
      BY <3>1, <3>2 DEF X86Reg, X86_REG_INVALID
    <3> QED BY <2>2, <3>1, <3>3 DEF FamilyValue, RegisterOf, Linked
  <2> QED BY <2>1, <2>2
<1>4. \A u \in {v.base, v.index} : u.kind # "null" => u.reg \in G
  BY <1>1 DEF ReadsWithin, ValueReads, NullValue
<1>5. /\ FamilyValue(o.base, cpu) = RegisterOf(v.base, env)
      /\ FamilyValue(o.index, cpu) = RegisterOf(v.index, env)
  BY <1>1, <1>2, <1>3, <1>4
<1> QED BY <1>2, <1>5 DEF EffectiveAddress, Address

\* An operand holds what the value denotes, at any width the value fits.
LEMMA SourceMeans ==
  ASSUME NEW G \in SUBSET GPR, NEW cpu, NEW env, Linked(G, cpu, env),
         NEW o, NEW v, Denotes(o, v), ReadsWithin(v, G), NEW w \in Widths, Fits(v, w)
  PROVE  /\ EvalValue(v, env) \in Word
         /\ Source(o, w, cpu) = Low(EvalValue(v, env), w)
         /\ v.kind # "imm" => Source(o, w, cpu) = EvalValue(v, env)
<1>1. v \in Value /\ env \in Env
  BY DenotesKinds DEF Linked
<1>2. WidthOf(v) \in Widths /\ EvalValue(v, env) \in 0..(Modulus[WidthOf(v)] - 1)
  BY <1>1, ValueFitsWidth
<1>3. EvalValue(v, env) \in Word
  BY <1>2, WidthInWord
<1>4. CASE v.kind = "imm"
  <2>1. o.type = "imm" /\ o.imm \in Int /\ EvalValue(v, env) = o.imm % Modulus[64]
    BY <1>4, DenotesKinds DEF EvalValue
  <2>2. Source(o, w, cpu) = Low(o.imm, w)
    BY <2>1 DEF Source
  <2> QED BY <1>3, <1>4, <2>1, <2>2, LowOfRemainder
<1>5. CASE v.kind # "imm"
  <2>1. WidthOf(v) = w /\ Low(EvalValue(v, env), w) = EvalValue(v, env)
    BY <1>2, <1>5, LowSmall DEF Fits
  <2>2. CASE v.kind = "reg"
    <3>1. o.type = "reg" /\ ~o.reg.high /\ o.reg.family = v.reg /\ v.width = w
      BY <2>1, <2>2, DenotesKinds DEF WidthOf
    <3>2. v.reg \in G
      BY <2>2 DEF ReadsWithin, ValueReads
    <3>3. Source(o, w, cpu) = Low(cpu.gpr[v.reg], w)
      BY <3>1 DEF Source
    <3>4. EvalValue(v, env) = Low(env.reg[v.reg], w)
      BY <2>2, <3>1 DEF EvalValue
    <3> QED BY <1>3, <2>1, <3>2, <3>3, <3>4 DEF Linked
  <2>3. CASE v.kind = "mem"
    <3>1. o.type = "mem" /\ v \in MemoryValue /\ 8 * v.size = w
      BY <2>1, <2>3, DenotesKinds DEF WidthOf
    <3>2. EffectiveAddress(o, cpu) = Address(v, env)
      BY <3>1, AddressMeans
    <3>3. Source(o, w, cpu) = Low(cpu.mem[Address(v, env)], w)
      BY <3>1, <3>2 DEF Source
    <3>4. EvalValue(v, env) = Low(env.mem[Address(v, env)], w)
      BY <2>3, <3>1 DEF EvalValue
    <3> QED BY <1>3, <2>1, <3>3, <3>4 DEF Linked
  <2> QED BY <1>5, <2>2, <2>3, DenotesKinds
<1> QED BY <1>4, <1>5

-----------------------------------------------------------------------------
(***************************************************************************)
(* Writing.                                                                *)
(***************************************************************************)
LEMMA WrittenToReg ==
  ASSUME NEW env \in Env, NEW d \in RegValue, NEW x \in Int
  PROVE  LET n == WrittenReg(env.reg[d.reg], Low(x, d.width), d.width)
             e == Written(d, x, env)
         IN /\ n \in Word /\ env.reg[d.reg] \in Word
            /\ e = [env EXCEPT !.reg[d.reg] = Held(d.reg, n)]
            /\ e \in Env
<1> DEFINE n == WrittenReg(env.reg[d.reg], Low(x, d.width), d.width)
           h == Held(d.reg, n)
           e == [env EXCEPT !.reg[d.reg] = h]
<1>1. d.kind = "reg" /\ d.reg \in Reg /\ d.width \in Widths
  BY DEF RegValue
<1>2. env.reg[d.reg] \in Word
  BY <1>1 DEF Env
<1>3. n \in Word
  BY <1>1, <1>2, LowRange, WrittenRegFacts
<1>4. Written(d, x, env) = e
  BY <1>1 DEF Written
<1>5. h \in Word
  <2>1. PICK M \in Nat \ {0} : M = Modulus[64]
    BY WidthFacts
  <2>2. \A a \in 0..(M - 1) : a % 16 \in 0..(M - 1)
    <3> SUFFICES ASSUME NEW a \in 0..(M - 1) PROVE a % 16 \in 0..(M - 1)
      OBVIOUS
    <3>1. CASE a < 16
      BY <3>1
    <3>2. CASE a >= 16
      BY <3>2
    <3> QED BY <3>1, <3>2
  <2> HIDE DEF n
  <2> QED BY <1>3, <2>1, <2>2 DEF Held, FlagsSpan, Word
<1> HIDE DEF h, n
<1>6. e \in Env
  BY <1>1, <1>5 DEF Env
<1> QED BY <1>2, <1>3, <1>4, <1>6 DEF h, n

LEMMA WrittenToMem ==
  ASSUME NEW env \in Env, NEW d \in MemoryValue, NEW x \in Int
  PROVE  LET a == Address(d, env)
             n == Narrowed(env.mem[a], Low(x, WidthOf(d)), WidthOf(d))
             e == Written(d, x, env)
         IN /\ a \in Word /\ n \in Word /\ env.mem[a] \in Word
            /\ e = [env EXCEPT !.mem[a] = n]
            /\ e \in Env
<1> DEFINE a == Address(d, env)
           n == Narrowed(env.mem[a], Low(x, WidthOf(d)), WidthOf(d))
           e == [env EXCEPT !.mem[a] = n]
<1>1. d.kind = "mem" /\ WidthOf(d) \in Widths
  BY DEF MemoryValue, WidthOf, Widths
<1>2. a \in Word
  BY AddressType
<1> HIDE DEF a
<1>3. env.mem[a] \in Word
  BY <1>2 DEF Env
<1>4. n \in Word
  BY <1>1, <1>3, LowRange, NarrowedFacts
<1>5. Written(d, x, env) = e
  BY <1>1 DEF Written, a
<1> HIDE DEF n
<1>6. e \in Env
  BY <1>2, <1>4 DEF Env
<1> QED BY <1>2, <1>3, <1>4, <1>5, <1>6 DEF n, a

LEMMA WrittenType ==
  ASSUME NEW env \in Env, NEW d \in Value, NEW x \in Int
  PROVE  Written(d, x, env) \in Env
<1>1. d \in ImmValue => Written(d, x, env) = env
  BY DEF ImmValue, Written
<1> QED BY <1>1, WrittenToReg, WrittenToMem DEF Value

\* Writing an operand and writing the place it denotes.
LEMMA WriteBackMeans ==
  ASSUME NEW G \in SUBSET GPR, NEW cpu, NEW env, Linked(G, cpu, env),
         NEW p, NEW d, Denotes(p, d), d.kind # "imm", d.kind = "mem" => ReadsWithin(d, G),
         NEW x \in Int, NEW v, v = Low(x, WidthOf(d))
  PROVE  LET c == WriteBack(p, v, cpu)
             e == Written(d, x, env)
         IN /\ Linked(G, c, e)
            /\ SameFlags(c, cpu) /\ KeepsSpecial(e, env)
            /\ d.kind = "reg" /\ d.width = 64 => Linked(G \cup {d.reg}, c, e)
<1> DEFINE c == WriteBack(p, v, cpu)
           e == Written(d, x, env)
           w == WidthOf(d)
<1>1. /\ cpu \in Machine /\ env \in Env /\ cpu.exit = FallsThrough /\ cpu.mem = env.mem
      /\ \A r \in G : cpu.gpr[r] = env.reg[r]
      /\ w \in Widths /\ Width(p) = w
  BY DenotesKinds DEF Linked
<1>2. v \in 0..(Modulus[w] - 1)
  BY <1>1, LowRange
<1>3. CASE d.kind = "reg"
  <2>1. /\ d \in RegValue /\ d.reg \in GPR /\ d.width = w
        /\ p.type = "reg" /\ ~p.reg.high /\ p.reg.family = d.reg
    BY <1>3, DenotesKinds DEF WidthOf
  <2> DEFINE a == WrittenReg(cpu.gpr[d.reg], v, w)
             n == WrittenReg(env.reg[d.reg], v, w)
  <2>2. c = [cpu EXCEPT !.gpr[d.reg] = a]
    BY <1>1, <2>1 DEF WriteBack
  <2>3. e = [env EXCEPT !.reg[d.reg] = n] /\ e \in Env
    <3>1. Held(d.reg, n) = n
      BY <2>1, GprIsReg DEF Held
    <3>2. e = [env EXCEPT !.reg[d.reg] = Held(d.reg, n)] /\ e \in Env
      BY <1>1, <2>1, WrittenToReg
    <3> QED BY <3>1, <3>2
  <2>4. a \in Word
    <3>1. cpu.gpr[d.reg] \in Word
      BY <1>1, <2>1 DEF Machine
    <3> QED BY <1>1, <1>2, <3>1, WrittenRegFacts
  <2>5. d.reg \in G => a = n
    BY <1>1
  <2>6. w = 64 => a = n
    <3>1. cpu.gpr[d.reg] \in Word /\ env.reg[d.reg] \in Word
      BY <1>1, <2>1, GprIsReg DEF Machine, Env
    <3> QED BY <1>1, <1>2, <3>1, WrittenRegFacts
  <2> HIDE DEF a, n, c, e, w
  <2>7. c \in Machine /\ c.exit = cpu.exit /\ c.mem = cpu.mem /\ SameFlags(c, cpu)
        /\ \A r \in GPR : c.gpr[r] = IF r = d.reg THEN a ELSE cpu.gpr[r]
    BY <1>1, <2>1, <2>2, <2>4 DEF Machine, SameFlags
  <2>8. e.mem = env.mem /\ \A r \in Reg : e.reg[r] = IF r = d.reg THEN n ELSE env.reg[r]
    BY <1>1, <2>1, <2>3, GprIsReg DEF Env
  <2>9. \A H \in SUBSET GPR : (d.reg \in H => a = n) /\ (\A r \in H \ {d.reg} : cpu.gpr[r] = env.reg[r])
          => Linked(H, c, e)
    BY <1>1, <2>3, <2>7, <2>8, GprIsReg DEF Linked
  <2>10. Linked(G, c, e)
    BY <1>1, <2>5, <2>9
  <2>11. w = 64 => Linked(G \cup {d.reg}, c, e)
    BY <1>1, <2>1, <2>6, <2>9
  <2>12. KeepsSpecial(e, env)
    BY <2>1, <2>8 DEF KeepsSpecial
  <2> QED BY <2>1, <2>7, <2>10, <2>11, <2>12 DEF c, e
<1>4. CASE d.kind = "mem"
  <2>1. d \in MemoryValue /\ p.type = "mem" /\ EffectiveAddress(p, cpu) = Address(d, env)
    BY <1>4, DenotesKinds, AddressMeans
  <2> DEFINE a == Address(d, env)
             n == Narrowed(env.mem[a], v, w)
  <2>2. c = [cpu EXCEPT !.mem[a] = Narrowed(cpu.mem[a], v, w)]
    BY <1>1, <2>1 DEF WriteBack
  <2>3. a \in Word /\ n \in Word /\ e = [env EXCEPT !.mem[a] = n] /\ e \in Env
    BY <1>1, <2>1, WrittenToMem
  <2> HIDE DEF a, n, c, e, w
  <2>4. c = [cpu EXCEPT !.mem[a] = n]
    BY <1>1, <2>2 DEF n
  <2>5. c \in Machine /\ c.exit = cpu.exit /\ c.gpr = cpu.gpr /\ SameFlags(c, cpu)
        /\ c.mem = [cpu.mem EXCEPT ![a] = n]
    BY <1>1, <2>3, <2>4 DEF Machine, SameFlags
  <2>6. e.reg = env.reg /\ e.mem = [env.mem EXCEPT ![a] = n]
    BY <1>1, <2>3 DEF Env
  <2>7. Linked(G, c, e)
    BY <1>1, <2>3, <2>5, <2>6 DEF Linked
  <2>8. KeepsSpecial(e, env)
    BY <2>6 DEF KeepsSpecial
  <2> QED BY <1>4, <2>5, <2>7, <2>8 DEF c, e
<1> QED BY <1>3, <1>4, DenotesKinds

LEMMA FlagsWordKept ==
  \A a, b : SameFlags(a, b) => FlagsWord(a) = FlagsWord(b)
BY DEF SameFlags, FlagsWord

-----------------------------------------------------------------------------
(***************************************************************************)
(* Instructions and what they compute in the environment.                  *)
(***************************************************************************)
LEMMA ExecuteIs ==
  ASSUME NEW x, NEW cpu, cpu.exit = FallsThrough
  PROVE  /\ x.id \in MovIds => Exec(x, cpu) =
              WriteBack(x.ops[1], Source(x.ops[2], Width(x.ops[1]), cpu), cpu)
         /\ x.id \in {"add", "sub", "xor", "shr", "neg"} => Exec(x, cpu) = Arithmetic(x, cpu)
         /\ x.id = "not" => Exec(x, cpu) =
              LET w == Width(x.ops[1])
              IN WriteBack(x.ops[1], Modulus[w] - 1 - Source(x.ops[1], w, cpu), cpu)
         /\ x.id = "push" => Exec(x, cpu) = Pushed(Source(x.ops[1], 64, cpu), cpu)
         /\ x.id = "pop" => Exec(x, cpu) = WriteBack(x.ops[1], Top(cpu), MoveRsp(Slot, cpu))
         /\ x.id = "pushfq" => Exec(x, cpu) = Pushed(FlagsWord(cpu), cpu)
         /\ x.id = "popfq" => Exec(x, cpu) = WithFlags(Top(cpu), MoveRsp(Slot, cpu))
         /\ x.id = "nop" => Exec(x, cpu) = cpu
         /\ x.id \in JumpIds => Exec(x, cpu) =
              IF Taken(x.id, cpu) THEN [cpu EXCEPT !.exit = x.ops[1].imm % Modulus[64]] ELSE cpu
BY Zenon DEF Exec, Execute, MovIds, BinaryIds, JumpIds, CondJumpIds

LEMMA MovMeans ==
  ASSUME NEW G \in SUBSET GPR, NEW cpu, NEW env, Linked(G, cpu, env),
         NEW x, x.id \in MovIds,
         NEW d, Denotes(x.ops[1], d), d.kind # "imm", d.kind = "mem" => ReadsWithin(d, G),
         NEW v, Denotes(x.ops[2], v), ReadsWithin(v, G), Fits(v, WidthOf(d))
  PROVE  LET c == Exec(x, cpu)
             e == Written(d, EvalValue(v, env), env)
         IN /\ Linked(G, c, e)
            /\ SameFlags(c, cpu) /\ KeepsSpecial(e, env)
            /\ d.kind = "reg" /\ d.width = 64 => Linked(G \cup {d.reg}, c, e)
<1> DEFINE w == WidthOf(d)
           y == EvalValue(v, env)
<1>1. w \in Widths /\ Width(x.ops[1]) = w
  BY DenotesKinds
<1>2. y \in Int /\ Source(x.ops[2], w, cpu) = Low(y, w)
  BY <1>1, SourceMeans, WordIsLow
<1>3. Exec(x, cpu) = WriteBack(x.ops[1], Low(y, w), cpu)
  BY <1>1, <1>2, ExecuteIs DEF Linked
<1> HIDE DEF y
<1>4. LET c == WriteBack(x.ops[1], Low(y, w), cpu)
          e == Written(d, y, env)
      IN /\ Linked(G, c, e)
         /\ SameFlags(c, cpu) /\ KeepsSpecial(e, env)
         /\ d.kind = "reg" /\ d.width = 64 => Linked(G \cup {d.reg}, c, e)
  BY <1>2, WriteBackMeans
<1> QED BY <1>3, <1>4 DEF y

\* The operations of the IR and the instructions that compute them.
Computing == {<<"add", "Add">>, <<"sub", "Sub">>, <<"xor", "BitXor">>, <<"shr", "Shr">>}

\* An operation on the number a word holds and what it yields, beside the flags.
LEMMA ComputedMeans ==
  ASSUME NEW w \in Widths, NEW a \in 0..(Modulus[w] - 1), NEW b \in Int, NEW c,
         NEW id, NEW op, <<id, op>> \in Computing, NEW s, id # "shr" => s = Low(b, w)
  PROVE  LET res == Computed(id, a, s, Modulus[w], c)
             y == EvalBinary(op, a, b, Modulus[w])
         IN /\ y \in 0..(Modulus[w] - 1) /\ res.r = y /\ y = Low(y, w)
            /\ res.cf \in Int /\ res.of \in Int /\ Sign(res.r, Modulus[w]) \in Int
<1>1. PICK m \in Nat \ {0, 1} : m = Modulus[w]
  BY ScaleAssumption
<1>2. a \in 0..(m - 1) /\ m \div 2 \in Nat \ {0}
  BY <1>1
<1>3. \A n \in Int : Sign(n, m) \in Int
  BY <1>2 DEF Sign
<1>4. \A n, k \in Int : XorBit(n, k) \in Int
  BY DEF XorBit
<1>5. id # "shr" => s = b % m /\ s \in 0..(m - 1)
  BY <1>1, ModRange DEF Low
<1>6. CASE id = "add"
  <2>1. op = "Add" /\ s \in 0..(m - 1) /\ s = b % m
    BY <1>5, <1>6 DEF Computing
  <2>2. (a + s) % m = (a + b) % m
    <3>1. a \in Int /\ m \in Nat \ {0}
      BY <1>2
    <3>2. (a + (b % m)) % m = (a + b) % m
      BY <3>1, ModOfSum, Zenon
    <3> QED BY <2>1, <3>2
  <2>3. (a + s) % m \in 0..(m - 1) /\ (a + s) \div m \in Int
    BY <1>2, <2>1
  <2> HIDE DEF Sign, XorBit
  <2> DEFINE r == (a + s) % m
             res == Computed("add", a, s, m, c)
  <2>4. /\ res.r = r /\ res.cf = (a + s) \div m
        /\ res.of = IF Sign(a, m) = Sign(s, m) THEN XorBit(Sign(a, m), Sign(r, m)) ELSE 0
    BY DEF Computed
  <2>5. EvalBinary("Add", a, b, m) = (a + b) % m
    BY DEF EvalBinary
  <2> HIDE DEF r, res
  <2>6. r \in 0..(m - 1) /\ r = (a + b) % m
    BY <2>2, <2>3 DEF r
  <2>7. res.of \in Int /\ Sign(r, m) \in Int /\ res.cf \in Int
    BY <1>2, <1>3, <1>4, <2>3, <2>4, <2>6
  <2>8. Low(r, w) = r
    BY <1>1, <2>6, LowSmall
  <2> QED BY <1>1, <1>6, <2>1, <2>4, <2>5, <2>6, <2>7, <2>8 DEF res
<1>7. CASE id = "sub"
  <2>1. op = "Sub" /\ s \in 0..(m - 1) /\ s = b % m
    BY <1>5, <1>7 DEF Computing
  <2>2. (a - s) % m = (a - b) % m
    <3>1. a \in Int /\ m \in Nat \ {0}
      BY <1>2
    <3>2. (a - (b % m)) % m = (a - b) % m
      BY <3>1, ModOfSum, Zenon
    <3> QED BY <2>1, <3>2
  <2>3. (a - s) % m \in 0..(m - 1)
    BY <1>2, <2>1
  <2> HIDE DEF Sign, XorBit
  <2> DEFINE r == (a - s) % m
             res == Computed("sub", a, s, m, c)
  <2>4. /\ res.r = r /\ res.cf = IF a < s THEN 1 ELSE 0
        /\ res.of = IF Sign(a, m) # Sign(s, m) THEN XorBit(Sign(a, m), Sign(r, m)) ELSE 0
    BY DEF Computed
  <2>5. EvalBinary("Sub", a, b, m) = (a - b) % m
    BY DEF EvalBinary
  <2> HIDE DEF r, res
  <2>6. r \in 0..(m - 1) /\ r = (a - b) % m
    BY <2>2, <2>3 DEF r
  <2>7. res.of \in Int /\ Sign(r, m) \in Int /\ res.cf \in Int
    BY <1>2, <1>3, <1>4, <2>3, <2>4, <2>6
  <2>8. Low(r, w) = r
    BY <1>1, <2>6, LowSmall
  <2> QED BY <1>1, <1>7, <2>1, <2>4, <2>5, <2>6, <2>7, <2>8 DEF res
<1>8. CASE id = "xor"
  <2>1. op = "BitXor" /\ s \in 0..(m - 1) /\ s = b % m
    BY <1>5, <1>8 DEF Computing
  <2> DEFINE r == XorWord(a, s)
             res == Computed("xor", a, s, m, c)
  <2>2. res.r = r /\ res.cf = 0 /\ res.of = 0
    BY DEF Computed
  <2>3. EvalBinary("BitXor", a, b, m) = r
    BY <2>1 DEF EvalBinary
  <2>4. r \in 0..(m - 1)
    BY <1>1, <1>2, <2>1, XorAssumption
  <2> HIDE DEF r, res
  <2>5. Low(r, w) = r
    BY <1>1, <2>4, LowSmall
  <2> QED BY <1>1, <1>2, <1>3, <1>8, <2>1, <2>2, <2>3, <2>4, <2>5 DEF res
<1>9. CASE id = "shr"
  <2>1. op = "Shr"
    BY <1>9 DEF Computing
  <2> DEFINE r == a \div 2
             res == Computed("shr", a, s, m, c)
  <2>2. res.r = r /\ res.cf = a % 2 /\ res.of = Sign(a, m)
    BY DEF Computed
  <2>3. EvalBinary("Shr", a, b, m) = r
    BY DEF EvalBinary
  <2>4. r \in 0..(m - 1) /\ a % 2 \in Int
    BY <1>2
  <2> HIDE DEF r, res
  <2>5. Low(r, w) = r
    BY <1>1, <2>4, LowSmall
  <2> QED BY <1>1, <1>2, <1>3, <1>9, <2>1, <2>2, <2>3, <2>4, <2>5 DEF res
<1> QED BY <1>6, <1>7, <1>8, <1>9 DEF Computing

\* Setting the flags disturbs no register and no memory.
LEMMA RankedIsLinked ==
  ASSUME NEW G, NEW cpu, NEW env, Linked(G, cpu, env),
         NEW cf \in Int, NEW of \in Int, NEW zf \in Int, NEW sf \in Int
  PROVE  Linked(G, [[cpu EXCEPT !.cf = cf, !.of = of] EXCEPT !.zf = zf, !.sf = sf], env)
BY DEF Linked, Machine

\* A result that fits the width of its place, written to it on both sides.
Lands(G, p, d, x, cpu, env) ==
  /\ Linked(G, WriteBack(p, x, cpu), Written(d, x, env))
  /\ KeepsSpecial(Written(d, x, env), env)
  /\ d.kind = "reg" /\ d.width = 64 =>
       Linked(G \cup {d.reg}, WriteBack(p, x, cpu), Written(d, x, env))

LEMMA WriteBackLands ==
  ASSUME NEW G \in SUBSET GPR, NEW p, NEW d, NEW x \in Int, NEW cpu, NEW env,
         Linked(G, cpu, env), Denotes(p, d), d.kind # "imm",
         d.kind = "mem" => ReadsWithin(d, G), x = Low(x, WidthOf(d))
  PROVE  Lands(G, p, d, x, cpu, env)
BY WriteBackMeans DEF Lands

LEMMA BinaryMeans ==
  ASSUME NEW G \in SUBSET GPR, NEW cpu, NEW env, Linked(G, cpu, env),
         NEW x, NEW op, <<x.id, op>> \in Computing,
         NEW d, Denotes(x.ops[1], d), d.kind # "imm", ReadsWithin(d, G),
         NEW v \in Value,
         op # "Shr" => Denotes(x.ops[2], v) /\ ReadsWithin(v, G) /\ Fits(v, WidthOf(d))
  PROVE  LET c == Exec(x, cpu)
             e == Written(d, EvalBinary(op, EvalValue(d, env), EvalValue(v, env),
                                        Modulus[WidthOf(d)]), env)
         IN /\ Linked(G, c, e) /\ KeepsSpecial(e, env)
            /\ d.kind = "reg" /\ d.width = 64 => Linked(G \cup {d.reg}, c, e)
<1> DEFINE w == WidthOf(d)
           m == Modulus[w]
           o == x.ops[1]
           a == EvalValue(d, env)
           b == EvalValue(v, env)
           s == Source(x.ops[2], w, cpu)
           res == Computed(x.id, a, s, m, cpu.cf)
           y == EvalBinary(op, a, b, m)
<1>1. w \in Widths /\ Width(o) = w /\ d \in Value /\ env \in Env
  BY DenotesKinds DEF Linked
<1>2. a \in 0..(m - 1)
  BY <1>1, ValueFitsWidth
<1>3. Source(o, w, cpu) = a
  BY <1>1, SourceMeans DEF Fits
<1>4. b \in Int
  <2>1. WidthOf(v) \in Widths /\ b \in 0..(Modulus[WidthOf(v)] - 1)
    BY <1>1, ValueFitsWidth
  <2> QED BY <2>1, WidthInWord, WordIsLow
<1>5. x.id # "shr" => s = Low(b, w)
  <2>1. x.id # "shr" => op # "Shr"
    BY DEF Computing
  <2> QED BY <1>1, <2>1, SourceMeans
<1> HIDE DEF a, b, s
<1>6. /\ y \in 0..(m - 1) /\ res.r = y /\ y = Low(y, w)
      /\ res.cf \in Int /\ res.of \in Int /\ Sign(res.r, m) \in Int
  BY <1>1, <1>2, <1>4, <1>5, ComputedMeans
<1> DEFINE zf == IF y = 0 THEN 1 ELSE 0
           sf == Sign(y, m)
           ranked == [[cpu EXCEPT !.cf = res.cf, !.of = res.of] EXCEPT !.zf = zf, !.sf = sf]
<1>7. Exec(x, cpu) = WriteBack(o, y, ranked)
  <2>1. x.id \in {"add", "sub", "xor", "shr"}
    BY DEF Computing
  <2>2. Exec(x, cpu) = Arithmetic(x, cpu)
    BY <2>1, ExecuteIs DEF Linked
  <2>3. Arithmetic(x, cpu) = WriteBack(o, res.r, ranked)
    <3> HIDE DEF res, y, m
    <3>1. m = Modulus[Width(o)] /\ res = Computed(x.id, Source(o, Width(o), cpu),
                                                  Source(x.ops[2], Width(o), cpu), m, cpu.cf)
      BY <1>1, <1>3 DEF res, s, m
    <3> QED BY <1>6, <2>1, <3>1 DEF Arithmetic
  <2> QED BY <1>6, <2>2, <2>3
<1>8. Linked(G, ranked, env)
  <2> DEFINE cf == res.cf
             of == res.of
  <2>1. cf \in Int
    BY <1>6
  <2>2. of \in Int
    BY <1>6
  <2>3. zf \in Int
    OBVIOUS
  <2>4. sf \in Int
    BY <1>6
  <2> HIDE DEF zf, sf, cf, of
  <2>5. Linked(G, [[cpu EXCEPT !.cf = cf, !.of = of] EXCEPT !.zf = zf, !.sf = sf], env)
    BY <2>1, <2>2, <2>3, <2>4 DEF Linked, Machine
  <2> QED BY <2>5 DEF cf, of
<1> HIDE DEF ranked, y, m
<1>9. y = Low(y, WidthOf(d))
  BY <1>6
<1>12. y \in Int
  BY <1>1, <1>6, WidthInWord, WordIsLow DEF m
<1>10. d.kind = "mem" => ReadsWithin(d, G)
  OBVIOUS
<1>11. Lands(G, o, d, y, ranked, env)
  BY <1>8, <1>9, <1>10, <1>12, WriteBackLands
<1> QED BY <1>7, <1>11 DEF Lands, y, a, b, m

UnaryId(op) == IF op = "Neg" THEN "neg" ELSE "not"

LEMMA UnaryMeans ==
  ASSUME NEW G \in SUBSET GPR, NEW cpu, NEW env, Linked(G, cpu, env),
         NEW op \in UnaryOps, NEW x, x.id = UnaryId(op),
         NEW d, Denotes(x.ops[1], d), d.kind # "imm", ReadsWithin(d, G)
  PROVE  LET c == Exec(x, cpu)
             e == Written(d, EvalUnary(op, EvalValue(d, env), Modulus[WidthOf(d)]), env)
         IN /\ Linked(G, c, e) /\ KeepsSpecial(e, env)
            /\ op = "LogicalNot" => SameFlags(c, cpu)
<1> DEFINE w == WidthOf(d)
           o == x.ops[1]
           a == EvalValue(d, env)
           y == EvalUnary(op, a, Modulus[w])
<1>1. w \in Widths /\ Width(o) = w /\ d \in Value /\ env \in Env /\ cpu.exit = FallsThrough
  BY DenotesKinds DEF Linked
<1>2. PICK m \in Nat \ {0, 1} : m = Modulus[w]
  BY <1>1, ScaleAssumption
<1>3. a \in 0..(m - 1) /\ Source(o, w, cpu) = a /\ a \in Int /\ m \div 2 \in Nat \ {0}
  <2>1. a \in 0..(m - 1)
    BY <1>1, <1>2, ValueFitsWidth
  <2>2. Source(o, w, cpu) = a
    BY <1>1, SourceMeans DEF Fits
  <2> QED BY <2>1, <2>2
<1> HIDE DEF a
<1>4. y \in 0..(m - 1) /\ y \in Int
  BY <1>2, <1>3 DEF EvalUnary, UnaryOps
<1>5. Low(y, w) = y
  BY <1>1, <1>2, <1>4, LowSmall
<1>6. d.kind = "mem" => ReadsWithin(d, G)
  OBVIOUS
<1>7. CASE op = "Neg"
  <2> DEFINE res == Computed("neg", a, 0, m, cpu.cf)
             zf == IF y = 0 THEN 1 ELSE 0
             sf == Sign(y, m)
             ranked == [[cpu EXCEPT !.cf = res.cf, !.of = res.of] EXCEPT !.zf = zf, !.sf = sf]
  <2>1. y = (-a) % m
    BY <1>2, <1>7 DEF EvalUnary
  <2>2. /\ res.r = (-a) % m /\ res.cf = IF a = 0 THEN 0 ELSE 1
        /\ res.of = IF 2 * a = m THEN 1 ELSE 0
    BY DEF Computed
  <2>3. res.r = y /\ res.cf \in Int /\ res.of \in Int /\ zf \in Int /\ sf \in Int
    BY <1>3, <1>4, <2>1, <2>2 DEF Sign
  <2>4. Exec(x, cpu) = WriteBack(o, y, ranked)
    <3>1. x.id = "neg" /\ Exec(x, cpu) = Arithmetic(x, cpu)
      BY <1>1, <1>7, ExecuteIs DEF UnaryId
    <3>2. res = Computed(x.id, Source(o, Width(o), cpu), 0, Modulus[Width(o)], cpu.cf)
      BY <1>1, <1>2, <1>3, <3>1
    <3> HIDE DEF res, y
    <3> QED BY <1>1, <1>2, <2>3, <3>1, <3>2 DEF Arithmetic
  <2>5. Linked(G, ranked, env)
    <3> HIDE DEF zf, sf, res
    <3> QED BY <2>3, RankedIsLinked
  <2> HIDE DEF ranked, y
  <2>6. LET c == WriteBack(o, y, ranked)
            e == Written(d, y, env)
        IN Linked(G, c, e) /\ KeepsSpecial(e, env)
    BY <1>4, <1>5, <1>6, <2>5, WriteBackMeans
  <2> QED BY <1>7, <2>4, <2>6 DEF y, a
<1>8. CASE op = "LogicalNot"
  <2>1. Exec(x, cpu) = WriteBack(o, y, cpu)
    <3>1. y = m - 1 - a /\ x.id = "not"
      BY <1>2, <1>8 DEF EvalUnary, UnaryId
    <3>2. Exec(x, cpu) = LET n == Width(o)
                         IN WriteBack(o, Modulus[n] - 1 - Source(o, n, cpu), cpu)
      BY <1>1, <3>1, ExecuteIs
    <3> QED BY <1>1, <1>2, <1>3, <3>1, <3>2
  <2> HIDE DEF y
  <2>2. LET c == WriteBack(o, y, cpu)
            e == Written(d, y, env)
        IN Linked(G, c, e) /\ SameFlags(c, cpu) /\ KeepsSpecial(e, env)
    BY <1>4, <1>5, <1>6, WriteBackMeans
  <2> QED BY <2>1, <2>2 DEF y, a
<1> QED BY <1>7, <1>8 DEF UnaryOps

-----------------------------------------------------------------------------
(***************************************************************************)
(* What a value depends on, and what a write leaves alone.                 *)
(***************************************************************************)
LEMMA AddressDepends ==
  ASSUME NEW a, NEW b, NEW v \in MemoryValue,
         \A u \in ValueReads(v) : a.reg[u.reg] = b.reg[u.reg]
  PROVE  Address(v, a) = Address(v, b)
<1>1. v.kind = "mem" /\ v.base \in OptReg /\ v.index \in OptReg
  BY DEF MemoryValue
<1>2. \A u \in {v.base, v.index} : RegisterOf(u, a) = RegisterOf(u, b)
  BY <1>1 DEF ValueReads, RegisterOf, NullValue
<1> QED BY <1>2 DEF Address

LEMMA EvalDepends ==
  ASSUME NEW a, NEW b, NEW v \in Value,
         \A u \in ValueReads(v) : a.reg[u.reg] = b.reg[u.reg],
         v.kind = "mem" => a.mem = b.mem
  PROVE  EvalValue(v, a) = EvalValue(v, b)
<1>1. CASE v \in RegValue
  BY <1>1 DEF RegValue, EvalValue, ValueReads
<1>2. CASE v \in ImmValue
  BY <1>2 DEF ImmValue, EvalValue
<1>3. CASE v \in MemoryValue
  <2>1. v.kind = "mem" /\ Address(v, a) = Address(v, b)
    BY <1>3, AddressDepends DEF MemoryValue
  <2> QED BY <2>1 DEF EvalValue
<1> QED BY <1>1, <1>2, <1>3 DEF Value

-----------------------------------------------------------------------------
(***************************************************************************)
(* The stack.                                                              *)
(***************************************************************************)
Moved(n, env) == [env EXCEPT !.reg["RSP"] = (@ + n) % Modulus[64]]
TopOf(env) == env.mem[env.reg["RSP"]]
Stored(x, env) == [env EXCEPT !.mem[env.reg["RSP"]] = x]

IsRsp(v) == v \in RegValue /\ v.reg = "RSP" /\ v.width = 64
IsSlot(v) == v \in ImmValue /\ v.value = Slot % Modulus[64]
PointsToTop(v) ==
  /\ v \in MemoryValue /\ v.size = 8 /\ v.displacement = 0
  /\ v.index.kind = "null" /\ v.base.kind = "reg" /\ v.base.reg = "RSP"

AvoidsRsp(v) == \A u \in ValueReads(v) : u.reg # "RSP"

LEMMA MovedType ==
  ASSUME NEW env \in Env, NEW n \in Int
  PROVE  /\ Moved(n, env) \in Env /\ Moved(n, env).mem = env.mem
         /\ Moved(n, env).reg["RSP"] = (env.reg["RSP"] + n) % Modulus[64]
         /\ \A r \in Reg \ {"RSP"} : Moved(n, env).reg[r] = env.reg[r]
         /\ KeepsSpecial(Moved(n, env), env)
<1> DEFINE y == (env.reg["RSP"] + n) % Modulus[64]
<1>1. "RSP" \in Reg /\ "RSP" \in GPR
  BY GprIsReg
<1>2. y \in Word
  <2>1. PICK M \in Nat \ {0} : M = Modulus[64]
    BY WidthFacts
  <2>2. env.reg["RSP"] + n \in Int
    BY <1>1, WordIsLow DEF Env
  <2> QED BY <2>1, <2>2 DEF Word
<1>3. Moved(n, env) = [env EXCEPT !.reg["RSP"] = y]
  BY DEF Moved
<1> HIDE DEF y
<1> QED BY <1>1, <1>2, <1>3 DEF Env, KeepsSpecial, y

LEMMA MovedMeans ==
  ASSUME NEW G \in SUBSET GPR, NEW cpu, NEW env, Linked(G, cpu, env), NEW n \in Int
  PROVE  /\ Linked(G, MoveRsp(n, cpu), Moved(n, env))
         /\ SameFlags(MoveRsp(n, cpu), cpu)
<1> DEFINE y == (cpu.gpr["RSP"] + n) % Modulus[64]
           c == MoveRsp(n, cpu)
           e == Moved(n, env)
<1>1. "RSP" \in GPR /\ cpu \in Machine /\ env \in Env
  BY GprIsReg DEF Linked
<1>2. y \in Word
  <2>1. PICK M \in Nat \ {0} : M = Modulus[64]
    BY WidthFacts
  <2>2. cpu.gpr["RSP"] + n \in Int
    BY <1>1, WordIsLow DEF Machine
  <2> QED BY <2>1, <2>2 DEF Word
<1>3. c = [cpu EXCEPT !.gpr["RSP"] = y]
  BY DEF MoveRsp
<1>4. "RSP" \in G => e.reg["RSP"] = y
  BY <1>1, MovedType DEF Linked
<1>5. e \in Env /\ e.mem = env.mem /\ \A r \in Reg \ {"RSP"} : e.reg[r] = env.reg[r]
  BY <1>1, MovedType
<1> HIDE DEF y, c, e
<1>6. c \in Machine /\ c.exit = cpu.exit /\ c.mem = cpu.mem /\ SameFlags(c, cpu)
      /\ \A r \in GPR : c.gpr[r] = IF r = "RSP" THEN y ELSE cpu.gpr[r]
  BY <1>1, <1>2, <1>3 DEF Machine, SameFlags
<1>7. Linked(G, c, e)
  BY <1>1, <1>4, <1>5, <1>6, GprIsReg DEF Linked
<1> QED BY <1>6, <1>7 DEF c, e

\* The statement that adjusts RSP.
LEMMA AdjustMeans ==
  ASSUME NEW env \in Env, NEW d, IsRsp(d), NEW l, IsRsp(l), NEW k, IsSlot(k),
         NEW op \in {"Add", "Sub"}
  PROVE  Written(d, EvalBinary(op, EvalValue(l, env), EvalValue(k, env), Modulus[WidthOf(l)]), env)
           = Moved(IF op = "Sub" THEN -Slot ELSE Slot, env)
<1> DEFINE r == env.reg["RSP"]
           n == IF op = "Sub" THEN -Slot ELSE Slot
           y == (r + n) % Modulus[64]
<1>1. PICK M \in Nat \ {0} : M = Modulus[64]
  BY WidthFacts
<1>2. Slot \in Nat /\ Slot \in Int /\ n \in Int /\ 64 \in Widths
  BY ScaleAssumption, WidthFacts
<1>3. r \in Word /\ r \in Int
  BY GprIsReg, WordIsLow DEF Env
<1>4. EvalValue(l, env) = r
  <2>1. EvalValue(l, env) = Low(r, 64)
    BY DEF IsRsp, RegValue, EvalValue
  <2> QED BY <1>3, <2>1, WidthFacts, LowSmall DEF Word
<1>5. EvalValue(k, env) = Slot % M /\ WidthOf(l) = 64
  BY <1>1 DEF IsSlot, ImmValue, EvalValue, IsRsp, RegValue, WidthOf
<1>6. EvalBinary(op, r, Slot % M, M) = y
  <2>1. CASE op = "Add"
    <3>1. (r + (Slot % M)) % M = (r + Slot) % M
      BY <1>2, <1>3, ModOfSum, Zenon
    <3> QED BY <1>1, <2>1, <3>1 DEF EvalBinary
  <2>2. CASE op = "Sub"
    <3>1. (r - (Slot % M)) % M = (r - Slot) % M
      BY <1>2, <1>3, ModOfSum, Zenon
    <3>2. r - Slot = r + (-Slot)
      BY <1>2, <1>3
    <3> QED BY <1>1, <2>2, <3>1, <3>2 DEF EvalBinary
  <2> QED BY <2>1, <2>2
<1>7. y \in Int /\ y \in 0..(M - 1)
  <2>1. r + n \in Int
    BY <1>2, <1>3
  <2> QED BY <1>1, <2>1
<1> HIDE DEF y, n
<1>8. Low(y, 64) = y
  BY <1>1, <1>2, <1>7, LowSmall
<1>9. WrittenReg(r, y, 64) = y
  BY <1>1, <1>2, <1>3, <1>7, WrittenRegFacts
<1>10. Written(d, y, env) = [env EXCEPT !.reg["RSP"] = y]
  BY <1>8, <1>9 DEF IsRsp, RegValue, Written, Held
<1> QED BY <1>1, <1>4, <1>5, <1>6, <1>10 DEF Moved, y, n

\* The top of the stack as the IR addresses it.
LEMMA TopMeans ==
  ASSUME NEW env \in Env, NEW v, PointsToTop(v), NEW x \in Word
  PROVE  /\ EvalValue(v, env) = TopOf(env) /\ TopOf(env) \in Word
         /\ Written(v, x, env) = Stored(x, env)
<1> DEFINE r == env.reg["RSP"]
<1>1. v \in MemoryValue /\ v.kind = "mem" /\ v.scale \in Int /\ WidthOf(v) = 64
  BY DEF PointsToTop, MemoryValue, Scales, WidthOf
<1>2. r \in Word /\ r \in Int
  BY GprIsReg, WordIsLow DEF Env
<1>3. Address(v, env) = r
  <2>1. RegisterOf(v.base, env) = r /\ RegisterOf(v.index, env) = 0 /\ v.displacement = 0
    BY DEF PointsToTop, RegisterOf
  <2>2. r + v.scale * 0 + 0 = r
    BY <1>1, <1>2
  <2>3. Low(r, 64) = r
    BY <1>2, WidthFacts, WordIsLow, LowSmall
  <2> QED BY <2>1, <2>2, <2>3 DEF Address, Low
<1>4. TopOf(env) \in Word
  BY <1>2 DEF TopOf, Env
<1> HIDE DEF r
<1>5. \A y \in Word : Low(y, 64) = y
  BY WidthFacts, WordIsLow, LowSmall
<1>6. EvalValue(v, env) = TopOf(env)
  <2>1. EvalValue(v, env) = Low(env.mem[r], 64)
    BY <1>1, <1>3 DEF EvalValue, PointsToTop
  <2> QED BY <1>4, <1>5, <2>1 DEF TopOf, r
<1>7. Written(v, x, env) = Stored(x, env)
  <2>1. Narrowed(env.mem[r], x, 64) = x
    BY <1>4, WholeWord DEF TopOf, r
  <2>2. Written(v, x, env) = [env EXCEPT !.mem[r] = Narrowed(env.mem[r], Low(x, 64), 64)]
    BY <1>1, <1>3 DEF Written
  <2> QED BY <1>5, <2>1, <2>2 DEF Stored, r
<1> QED BY <1>4, <1>6, <1>7

LEMMA PushedMeans ==
  ASSUME NEW G \in SUBSET GPR, "RSP" \in G, NEW cpu, NEW env, Linked(G, cpu, env),
         NEW x \in Word
  PROVE  LET e == Stored(x, Moved(-Slot, env))
         IN /\ Linked(G, Pushed(x, cpu), e)
            /\ SameFlags(Pushed(x, cpu), cpu) /\ KeepsSpecial(e, env)
<1> DEFINE m == MoveRsp(-Slot, cpu)
           f == Moved(-Slot, env)
           a == f.reg["RSP"]
           c == Pushed(x, cpu)
           e == Stored(x, f)
<1>1. -Slot \in Int /\ env \in Env
  BY ScaleAssumption DEF Linked
<1>2. Linked(G, m, f) /\ SameFlags(m, cpu)
  BY <1>1, MovedMeans
<1>3. f \in Env /\ KeepsSpecial(f, env)
  BY <1>1, MovedType
<1>4. a \in Word /\ m.gpr["RSP"] = a
  BY <1>2, <1>3, GprIsReg DEF Env, Linked
<1>5. c = [m EXCEPT !.mem[a] = x] /\ e = [f EXCEPT !.mem[a] = x]
  BY <1>4 DEF Pushed, Stored
<1> HIDE DEF m, f, a, c, e
<1>6. Linked(G, c, e) /\ SameFlags(c, cpu)
  BY <1>2, <1>4, <1>5 DEF Linked, Machine, Env, SameFlags
<1>7. e.reg = f.reg
  BY <1>3, <1>5 DEF Env
<1>8. KeepsSpecial(e, env)
  BY <1>3, <1>7 DEF KeepsSpecial
<1> QED BY <1>6, <1>8 DEF c, e, f

LEMMA PushMeans ==
  ASSUME NEW G \in SUBSET GPR, "RSP" \in G, NEW cpu, NEW env, Linked(G, cpu, env),
         NEW x, x.id = "push",
         NEW v, Denotes(x.ops[1], v), ReadsWithin(v, G), Fits(v, 64), AvoidsRsp(v)
  PROVE  LET f == Moved(-Slot, env)
             e == Stored(EvalValue(v, f), f)
         IN /\ Linked(G, Exec(x, cpu), e) /\ EvalValue(v, f) \in Word
            /\ SameFlags(Exec(x, cpu), cpu) /\ KeepsSpecial(e, env)
<1> DEFINE f == Moved(-Slot, env)
           y == EvalValue(v, env)
<1>1. -Slot \in Int /\ env \in Env /\ v \in Value /\ cpu.exit = FallsThrough
  BY ScaleAssumption, DenotesKinds DEF Linked
<1>2. y \in Word /\ Source(x.ops[1], 64, cpu) = Low(y, 64)
  BY SourceMeans, WidthFacts
<1>3. Low(y, 64) = y
  BY <1>2, WidthFacts, WordIsLow, LowSmall
<1>4. EvalValue(v, f) = y
  <2>1. \A u \in ValueReads(v) : u.reg \in Reg \ {"RSP"}
    BY GprIsReg DEF ReadsWithin, AvoidsRsp
  <2>2. \A u \in ValueReads(v) : f.reg[u.reg] = env.reg[u.reg]
    BY <1>1, <2>1, MovedType
  <2>3. f.mem = env.mem
    BY <1>1, MovedType
  <2> QED BY <1>1, <2>2, <2>3, EvalDepends
<1>5. Exec(x, cpu) = Pushed(y, cpu)
  BY <1>1, <1>2, <1>3, ExecuteIs
<1> HIDE DEF y
<1> QED BY <1>2, <1>4, <1>5, PushedMeans

\* Moving RSP and writing a place that does not involve it commute.
LEMMA MoveAndWriteCommute ==
  ASSUME NEW env \in Env, NEW n \in Int, NEW d \in Value, AvoidsRsp(d), NEW x \in Int
  PROVE  Written(d, x, Moved(n, env)) = Moved(n, Written(d, x, env))
<1> DEFINE f == Moved(n, env)
           g == Written(d, x, env)
           a == Written(d, x, f)
           b == Moved(n, g)
<1>1. /\ f \in Env /\ f.mem = env.mem
      /\ f.reg["RSP"] = (env.reg["RSP"] + n) % Modulus[64]
      /\ \A r \in Reg \ {"RSP"} : f.reg[r] = env.reg[r]
  BY MovedType
<1>2. g \in Env /\ a \in Env
  BY <1>1, WrittenType
<1>3. /\ b \in Env /\ b.mem = g.mem
      /\ b.reg["RSP"] = (g.reg["RSP"] + n) % Modulus[64]
      /\ \A r \in Reg \ {"RSP"} : b.reg[r] = g.reg[r]
  BY <1>2, MovedType
<1> HIDE DEF f, g, a, b
<1>4. CASE d \in RegValue
  <2>1. d.kind = "reg" /\ d.reg # "RSP" /\ d.reg \in Reg
    BY <1>4 DEF RegValue, AvoidsRsp, ValueReads
  <2> DEFINE h == Held(d.reg, WrittenReg(env.reg[d.reg], Low(x, d.width), d.width))
  <2>2. g = [env EXCEPT !.reg[d.reg] = h]
    BY <2>1 DEF Written, g
  <2>3. a = [f EXCEPT !.reg[d.reg] = h]
    BY <1>1, <2>1 DEF Written, a
  <2> HIDE DEF h
  <2>4. g.mem = env.mem /\ \A r \in Reg : g.reg[r] = IF r = d.reg THEN h ELSE env.reg[r]
    BY <2>1, <2>2 DEF Env
  <2>5. a.mem = f.mem /\ \A r \in Reg : a.reg[r] = IF r = d.reg THEN h ELSE f.reg[r]
    BY <1>1, <2>1, <2>3 DEF Env
  <2>6. \A r \in Reg : a.reg[r] = b.reg[r]
    BY <1>1, <1>3, <2>1, <2>4, <2>5
  <2> QED BY <1>1, <1>2, <1>3, <2>4, <2>5, <2>6 DEF Env, a, b, f, g
<1>5. CASE d \in ImmValue
  BY <1>5 DEF ImmValue, Written
<1>6. CASE d \in MemoryValue
  <2>1. d.kind = "mem" /\ d.base \in OptReg /\ d.index \in OptReg
    BY <1>6 DEF MemoryValue
  <2>2. \A u \in ValueReads(d) : u.reg \in Reg \ {"RSP"}
    BY <2>1 DEF AvoidsRsp, ValueReads, OptReg, RegValue
  <2>3. Address(d, f) = Address(d, env)
    <3>1. \A u \in ValueReads(d) : f.reg[u.reg] = env.reg[u.reg]
      BY <1>1, <2>2
    <3> QED BY <1>6, <3>1, AddressDepends
  <2> DEFINE k == Address(d, env)
             m == Narrowed(env.mem[k], Low(x, WidthOf(d)), WidthOf(d))
  <2>4. g = [env EXCEPT !.mem[k] = m]
    BY <2>1 DEF Written, g
  <2>5. a = [f EXCEPT !.mem[k] = m]
    BY <1>1, <2>1, <2>3 DEF Written, a
  <2> HIDE DEF k, m
  <2>6. g.reg = env.reg /\ g.mem = [env.mem EXCEPT ![k] = m]
    BY <2>4 DEF Env
  <2>7. a.reg = f.reg /\ a.mem = [f.mem EXCEPT ![k] = m]
    BY <1>1, <2>5 DEF Env
  <2>8. \A r \in Reg : a.reg[r] = b.reg[r]
    BY <1>1, <1>3, <2>6, <2>7
  <2> QED BY <1>1, <1>2, <1>3, <2>6, <2>7, <2>8 DEF Env, a, b, f, g
<1> QED BY <1>4, <1>5, <1>6 DEF Value

LEMMA TopIsLinked ==
  ASSUME NEW G \in SUBSET GPR, "RSP" \in G, NEW cpu, NEW env, Linked(G, cpu, env)
  PROVE  Top(cpu) = TopOf(env) /\ TopOf(env) \in Word
BY GprIsReg DEF Linked, Top, TopOf, Env

LEMMA PopMeans ==
  ASSUME NEW G \in SUBSET GPR, "RSP" \in G, NEW cpu, NEW env, Linked(G, cpu, env),
         NEW x, x.id = "pop",
         NEW d, Denotes(x.ops[1], d), d.kind # "imm", WidthOf(d) = 64, AvoidsRsp(d),
         d.kind = "mem" => ReadsWithin(d, G)
  PROVE  LET e == Moved(Slot, Written(d, TopOf(env), env))
         IN /\ Linked(G, Exec(x, cpu), e)
            /\ SameFlags(Exec(x, cpu), cpu) /\ KeepsSpecial(e, env)
<1> DEFINE m == MoveRsp(Slot, cpu)
           f == Moved(Slot, env)
           t == TopOf(env)
           c == WriteBack(x.ops[1], t, m)
           e == Written(d, t, f)
<1>1. Slot \in Int /\ env \in Env /\ d \in Value /\ cpu.exit = FallsThrough
  BY ScaleAssumption, DenotesKinds DEF Linked
<1>2. Linked(G, m, f) /\ SameFlags(m, cpu) /\ KeepsSpecial(f, env)
  BY <1>1, MovedMeans, MovedType
<1>3. t \in Word /\ t \in Int /\ Top(cpu) = t
  BY TopIsLinked, WordIsLow
<1>4. t = Low(t, WidthOf(d))
  BY <1>3, WidthFacts, WordIsLow, LowSmall
<1>5. Exec(x, cpu) = c
  BY <1>1, <1>3, ExecuteIs
<1> HIDE DEF m, f, t
<1> HIDE DEF c, e
<1>6. Linked(G, c, e) /\ SameFlags(c, m) /\ KeepsSpecial(e, f)
  <2>1. LET a == WriteBack(x.ops[1], Low(t, WidthOf(d)), m)
            b == Written(d, t, f)
        IN /\ Linked(G, a, b)
           /\ SameFlags(a, m) /\ KeepsSpecial(b, f)
           /\ d.kind = "reg" /\ d.width = 64 => Linked(G \cup {d.reg}, a, b)
    BY <1>2, <1>3, WriteBackMeans
  <2> QED BY <1>4, <2>1 DEF c, e
<1>7. e = Moved(Slot, Written(d, t, env))
  BY <1>1, <1>3, MoveAndWriteCommute DEF f, e
<1>8. SameFlags(c, cpu) /\ KeepsSpecial(e, env)
  BY <1>2, <1>6 DEF SameFlags, KeepsSpecial
<1> QED BY <1>5, <1>6, <1>7, <1>8 DEF t

-----------------------------------------------------------------------------
(***************************************************************************)
(* Saving and restoring the flags.                                         *)
(***************************************************************************)
LEMMA FlagsWordType ==
  ASSUME NEW cpu \in Machine
  PROVE  FlagsWord(cpu) \in Word
<1>1. cpu.cf + 2 * cpu.zf + 4 * cpu.sf + 8 * cpu.of \in Int
  BY DEF Machine
<1> QED BY <1>1, WidthFacts, ModRange DEF FlagsWord, Word

LEMMA FourBits ==
  ASSUME NEW v \in Nat
  PROVE  (v % 2) + 2 * ((v \div 2) % 2) + 4 * ((v \div 4) % 2) + 8 * ((v \div 8) % 2) = v % 16
OBVIOUS

LEMMA LoadedFlags ==
  ASSUME NEW cpu \in Machine, NEW v \in Word
  PROVE  /\ FlagsWord(WithFlags(v, cpu)) = v % FlagsSpan
         /\ WithFlags(v, cpu) \in Machine
         /\ WithFlags(v, cpu).exit = cpu.exit
         /\ WithFlags(v, cpu).gpr = cpu.gpr /\ WithFlags(v, cpu).mem = cpu.mem
<1> DEFINE c == WithFlags(v, cpu)
<1>1. PICK M \in Nat \ {0} : M = Modulus[64]
  BY WidthFacts
<1>2. v \in 0..(M - 1) /\ v \in Nat
  BY <1>1 DEF Word
<1>3. /\ c.cf = v % 2 /\ c.zf = (v \div 2) % 2 /\ c.sf = (v \div 4) % 2 /\ c.of = (v \div 8) % 2
      /\ c.exit = cpu.exit /\ c.gpr = cpu.gpr /\ c.mem = cpu.mem
  BY DEF WithFlags, Machine
<1>4. c \in Machine
  <2>1. \A p, q, r, s \in Int : [cpu EXCEPT !.cf = p, !.zf = q, !.sf = r, !.of = s] \in Machine
    BY DEF Machine
  <2>2. v % 2 \in Int /\ (v \div 2) % 2 \in Int /\ (v \div 4) % 2 \in Int /\ (v \div 8) % 2 \in Int
    BY <1>2
  <2> QED BY <2>1, <2>2 DEF WithFlags
<1>5. FlagsWord(c) = (v % 16) % M
  BY <1>1, <1>2, <1>3, FourBits DEF FlagsWord
<1>6. v % 16 \in 0..(M - 1)
  <2>1. CASE v < 16
    BY <1>2, <2>1
  <2>2. CASE v >= 16
    BY <1>2, <2>2
  <2> QED BY <1>2, <2>1, <2>2
<1>7. (v % 16) % M = v % 16
  <2> DEFINE n == v % 16
  <2>1. n \in 0..(M - 1)
    BY <1>6
  <2> HIDE DEF n
  <2>2. n % M = n
    BY <2>1
  <2> QED BY <2>2 DEF n
<1> QED BY <1>3, <1>4, <1>5, <1>7 DEF FlagsSpan

LEMMA PushfqMeans ==
  ASSUME NEW G \in SUBSET GPR, "RSP" \in G, NEW cpu, NEW env, Linked(G, cpu, env),
         NEW x, x.id = "pushfq", NEW y, y = FlagsWord(cpu)
  PROVE  LET e == Stored(y, Moved(-Slot, env))
         IN /\ Linked(G, Exec(x, cpu), e) /\ y \in Word
            /\ SameFlags(Exec(x, cpu), cpu) /\ KeepsSpecial(e, env)
<1>1. y \in Word /\ cpu.exit = FallsThrough
  BY FlagsWordType DEF Linked
<1>2. Exec(x, cpu) = Pushed(y, cpu)
  BY <1>1, ExecuteIs
<1> QED BY <1>1, <1>2, PushedMeans

IsFlags(v) == v \in RegValue /\ v.reg = "RFLAGS" /\ v.width = 64

LEMMA PopfqMeans ==
  ASSUME NEW G \in SUBSET GPR, "RSP" \in G, NEW cpu, NEW env, Linked(G, cpu, env),
         NEW x, x.id = "popfq", NEW d, IsFlags(d)
  PROVE  LET e == Moved(Slot, Written(d, TopOf(env), env))
         IN /\ Linked(G, Exec(x, cpu), e)
            /\ e.reg["RFLAGS"] = FlagsWord(Exec(x, cpu))
            /\ e.reg["RIP"] = env.reg["RIP"] /\ e.reg["ZF"] = env.reg["ZF"]
<1> DEFINE m == MoveRsp(Slot, cpu)
           t == TopOf(env)
           f == Written(d, t, env)
           c == WithFlags(t, m)
           e == Moved(Slot, f)
<1>1. /\ Slot \in Int /\ env \in Env /\ cpu.exit = FallsThrough
      /\ d \in RegValue /\ d.kind = "reg" /\ d.reg = "RFLAGS" /\ d.width = 64
  BY ScaleAssumption DEF Linked, IsFlags, RegValue
<1>2. Linked(G, m, Moved(Slot, env))
  BY <1>1, MovedMeans
<1>3. t \in Word /\ t \in Int /\ Top(cpu) = t
  BY TopIsLinked, WordIsLow
<1>4. Exec(x, cpu) = c
  BY <1>1, <1>3, ExecuteIs
<1>5. f = [env EXCEPT !.reg["RFLAGS"] = t % FlagsSpan] /\ f \in Env
  <2>1. Low(t, 64) = t
    BY <1>3, WidthFacts, WordIsLow, LowSmall
  <2>2. WrittenReg(env.reg["RFLAGS"], t, 64) = t
    <3>1. env.reg["RFLAGS"] \in Word
      BY <1>1, GprIsReg DEF Env
    <3> QED BY <1>3, <3>1, WholeWord
  <2>3. f = [env EXCEPT !.reg["RFLAGS"] =
               Held("RFLAGS", WrittenReg(env.reg["RFLAGS"], Low(t, 64), 64))] /\ f \in Env
    BY <1>1, <1>3, WrittenToReg
  <2> QED BY <2>1, <2>2, <2>3 DEF Held
<1> HIDE DEF m, t, f
<1>6. c \in Machine /\ c.exit = FallsThrough /\ c.gpr = m.gpr /\ c.mem = m.mem
      /\ FlagsWord(c) = t % FlagsSpan
  BY <1>2, <1>3, LoadedFlags DEF Linked
<1>7. /\ e \in Env /\ e.mem = f.mem
      /\ e.reg["RSP"] = (f.reg["RSP"] + Slot) % Modulus[64]
      /\ \A r \in Reg \ {"RSP"} : e.reg[r] = f.reg[r]
  BY <1>1, <1>5, MovedType
<1>8. /\ Moved(Slot, env).mem = env.mem
      /\ Moved(Slot, env).reg["RSP"] = (env.reg["RSP"] + Slot) % Modulus[64]
      /\ \A r \in Reg \ {"RSP"} : Moved(Slot, env).reg[r] = env.reg[r]
  BY <1>1, MovedType
<1>9. f.mem = env.mem /\ f.reg["RFLAGS"] = t % FlagsSpan
      /\ \A r \in Reg \ {"RFLAGS"} : f.reg[r] = env.reg[r]
  BY <1>1, <1>5, GprIsReg DEF Env
<1> HIDE DEF c, e
<1>10. \A r \in GPR : e.reg[r] = Moved(Slot, env).reg[r]
  <2>1. \A r \in GPR : f.reg[r] = env.reg[r]
    BY <1>9, GprIsReg
  <2>2. "RSP" \in GPR
    BY GprIsReg
  <2> QED BY <1>7, <1>8, <2>1, <2>2, GprIsReg
<1>11. e.mem = Moved(Slot, env).mem
  BY <1>7, <1>8, <1>9
<1>12. Linked(G, c, e)
  BY <1>2, <1>6, <1>7, <1>10, <1>11 DEF Linked
<1>13. e.reg["RFLAGS"] = FlagsWord(c) /\ e.reg["RIP"] = env.reg["RIP"] /\ e.reg["ZF"] = env.reg["ZF"]
  BY <1>6, <1>7, <1>9, GprIsReg
<1> QED BY <1>4, <1>12, <1>13 DEF e, f, t

-----------------------------------------------------------------------------
(***************************************************************************)
(* Writing a place and reading it back.                                    *)
(***************************************************************************)
LEMMA WrittenAddress ==
  ASSUME NEW env \in Env, NEW d \in MemoryValue, NEW x \in Int, NEW v \in MemoryValue
  PROVE  Address(v, Written(d, x, env)) = Address(v, env)
<1> DEFINE e == Written(d, x, env)
           a == Address(d, env)
           n == Narrowed(env.mem[a], Low(x, WidthOf(d)), WidthOf(d))
<1>1. e = [env EXCEPT !.mem[a] = n]
  BY WrittenToMem
<1> HIDE DEF a, n, e
<1>2. e.reg = env.reg
  BY <1>1 DEF Env
<1>3. Address(v, e) = Address(v, env)
  BY <1>2, AddressDepends
<1> QED BY <1>3 DEF e

LEMMA WrittenReadsBack ==
  ASSUME NEW env \in Env, NEW d \in Value, d.kind # "imm", d.kind = "reg" => d.reg \in GPR,
         NEW x \in Int, NEW y \in Int
  PROVE  /\ EvalValue(d, Written(d, x, env)) = Low(x, WidthOf(d))
         /\ Written(d, y, Written(d, x, env)) = Written(d, y, env)
<1> DEFINE e == Written(d, x, env)
           f == Written(d, y, e)
           g == Written(d, y, env)
           w == WidthOf(d)
<1>1. e \in Env /\ f \in Env /\ g \in Env
  BY WrittenType
<1>2. CASE d \in RegValue
  <2>1. d.kind = "reg" /\ d.reg \in Reg /\ d.reg # "RFLAGS" /\ w = d.width /\ w \in Widths
    BY <1>2, GprIsReg DEF RegValue, WidthOf
  <2> DEFINE r == d.reg
             p == env.reg[r]
             n == WrittenReg(p, Low(x, w), w)
  <2>2. p \in Word /\ n \in Word /\ e = [env EXCEPT !.reg[r] = n]
        /\ g = [env EXCEPT !.reg[r] = WrittenReg(p, Low(y, w), w)]
    BY <1>2, <2>1, WrittenToReg DEF Held
  <2>3. Low(x, w) \in 0..(Modulus[w] - 1) /\ Low(y, w) \in 0..(Modulus[w] - 1)
    BY <2>1, LowRange
  <2>4. Low(n, w) = Low(x, w) /\ WrittenReg(n, Low(y, w), w) = WrittenReg(p, Low(y, w), w)
    BY <2>1, <2>2, <2>3, WrittenRegFacts
  <2>5. f = [e EXCEPT !.reg[r] = WrittenReg(e.reg[r], Low(y, w), w)]
    BY <1>1, <1>2, <2>1, WrittenToReg DEF Held
  <2> HIDE DEF e, f, g, w, n, p, r
  <2>6. r \in Reg
    BY <2>1 DEF r
  <2>7. e.reg[r] = n
    BY <2>2, <2>6 DEF Env
  <2>8. f = [e EXCEPT !.reg[r] = WrittenReg(p, Low(y, w), w)]
    BY <2>4, <2>5, <2>7
  <2>9. f = g
    BY <2>2, <2>8 DEF Env
  <2>10. EvalValue(d, e) = Low(x, w)
    BY <2>1, <2>4, <2>7 DEF EvalValue, r
  <2> QED BY <2>9, <2>10 DEF e, f, g, w
<1>3. CASE d \in MemoryValue
  <2>1. d.kind = "mem" /\ w = 8 * d.size /\ w \in Widths /\ Address(d, e) = Address(d, env)
    BY <1>3, WrittenAddress DEF MemoryValue, WidthOf, Widths
  <2> DEFINE a == Address(d, env)
             p == env.mem[a]
             n == Narrowed(p, Low(x, w), w)
  <2>2. /\ a \in Word /\ p \in Word /\ n \in Word /\ e = [env EXCEPT !.mem[a] = n]
        /\ g = [env EXCEPT !.mem[a] = Narrowed(p, Low(y, w), w)]
    BY <1>3, WrittenToMem
  <2>3. Low(x, w) \in 0..(Modulus[w] - 1) /\ Low(y, w) \in 0..(Modulus[w] - 1)
    BY <2>1, LowRange
  <2>4. Low(n, w) = Low(x, w) /\ Narrowed(n, Low(y, w), w) = Narrowed(p, Low(y, w), w)
    BY <2>1, <2>2, <2>3, NarrowedFacts
  <2>5. f = [e EXCEPT !.mem[a] = Narrowed(e.mem[a], Low(y, w), w)]
    BY <1>1, <1>3, <2>1, WrittenToMem
  <2> HIDE DEF e, f, g, w, n, p
  <2>6. e.mem[a] = n
    BY <2>2 DEF Env
  <2>7. f = [e EXCEPT !.mem[a] = Narrowed(p, Low(y, w), w)]
    BY <2>4, <2>5, <2>6
  <2>8. f = g
    BY <2>2, <2>7 DEF Env
  <2>9. EvalValue(d, e) = Low(x, w)
    BY <2>1, <2>4, <2>6 DEF EvalValue
  <2> QED BY <2>8, <2>9 DEF e, f, g, w
<1> QED BY <1>2, <1>3 DEF Value, ImmValue

\* A value that neither is the place written nor reads it.
LEMMA WrittenKeeps ==
  ASSUME NEW env \in Env, NEW d \in Value, NEW x \in Int, NEW v \in Value,
         d.kind = "reg" => \A u \in ValueReads(v) : u.reg # d.reg,
         d.kind = "mem" => v.kind # "mem"
  PROVE  EvalValue(v, Written(d, x, env)) = EvalValue(v, env)
<1> DEFINE e == Written(d, x, env)
<1>1. CASE d \in RegValue
  <2> DEFINE h == Held(d.reg, WrittenReg(env.reg[d.reg], Low(x, d.width), d.width))
  <2>1. d.kind = "reg" /\ e = [env EXCEPT !.reg[d.reg] = h]
    BY <1>1, WrittenToReg DEF RegValue
  <2> HIDE DEF h, e
  <2>2. e.mem = env.mem /\ \A u \in ValueReads(v) : e.reg[u.reg] = env.reg[u.reg]
    BY <2>1 DEF Env
  <2>3. EvalValue(v, e) = EvalValue(v, env)
    BY <2>2, EvalDepends
  <2> QED BY <2>3 DEF e
<1>2. CASE d \in ImmValue
  BY <1>2 DEF ImmValue, Written
<1>3. CASE d \in MemoryValue
  <2> DEFINE a == Address(d, env)
             n == Narrowed(env.mem[a], Low(x, WidthOf(d)), WidthOf(d))
  <2>1. d.kind = "mem" /\ e = [env EXCEPT !.mem[a] = n]
    BY <1>3, WrittenToMem DEF MemoryValue
  <2> HIDE DEF a, n, e
  <2>2. e.reg = env.reg
    BY <2>1 DEF Env
  <2>3. EvalValue(v, e) = EvalValue(v, env)
    BY <2>1, <2>2, EvalDepends
  <2> QED BY <2>3 DEF e
<1> QED BY <1>1, <1>2, <1>3 DEF Value

\* The environment of a processor state that enters a block.
LEMMA EnteredIsLinked ==
  ASSUME NEW cpu \in Entered
  PROVE  /\ Linked(GPR, cpu, EnvOf(cpu))
         /\ EnvOf(cpu).reg["RFLAGS"] = FlagsWord(cpu)
         /\ EnvOf(cpu).reg["ZF"] = cpu.zf /\ cpu.zf \in Bit
         /\ EnvOf(cpu).reg["RIP"] = 0
<1> DEFINE e == EnvOf(cpu)
<1>1. /\ cpu \in CPU /\ cpu.exit = FallsThrough /\ cpu.gpr \in [GPR -> Word]
      /\ cpu.mem \in [Word -> Word] /\ cpu.zf \in Bit
  BY DEF Entered, CPU
<1>2. cpu \in Machine
  <2>1. CPU \subseteq [gpr : [GPR -> Word], mem : [Word -> Word], cf : Bit, zf : Bit, sf : Bit,
                       of : Bit, exit : Word \cup {FallsThrough}]
    BY DEF CPU
  <2>2. Bit \subseteq Int /\ Word \cup {FallsThrough} \subseteq Int
    BY WordIsLow DEF Bit, FallsThrough
  <2> HIDE DEF Bit, Word, FallsThrough
  <2> QED BY <1>1, <2>1, <2>2 DEF Machine
<1>3. FlagsWord(cpu) \in Word
  BY <1>2, FlagsWordType
<1>4. {0, 1} \subseteq Word
  <2>1. PICK M \in Nat \ {0, 1} : M = Modulus[64]
    BY WidthFacts, ScaleAssumption
  <2> QED BY <2>1 DEF Word
<1>5. /\ \A r \in GPR : e.reg[r] = cpu.gpr[r]
      /\ e.reg["RFLAGS"] = FlagsWord(cpu) /\ e.reg["ZF"] = cpu.zf /\ e.reg["RIP"] = 0
  BY GprIsReg DEF EnvOf
<1>6. e \in Env
  <2>1. \A r \in Reg : e.reg[r] \in Word
    BY <1>1, <1>3, <1>4, <1>5 DEF Reg, Bit
  <2> DEFINE regs == [r \in Reg |-> CASE r \in GPR -> cpu.gpr[r]
                                       [] r = "RFLAGS" -> FlagsWord(cpu)
                                       [] r = "ZF" -> cpu.zf
                                       [] r = "RIP" -> 0]
  <2>2. e = [reg |-> regs, mem |-> cpu.mem]
    BY DEF EnvOf
  <2>3. regs \in [Reg -> Word]
    <3> HIDE DEF regs, e
    <3>1. \A r \in Reg : regs[r] \in Word
      BY <2>1, <2>2
    <3> QED BY <3>1 DEF regs
  <2> HIDE DEF regs, e
  <2> QED BY <1>1, <2>2, <2>3 DEF Env
<1>7. e.mem = cpu.mem
  BY DEF EnvOf
<1> QED BY <1>1, <1>2, <1>5, <1>6, <1>7 DEF Linked

LEMMA LinkedMeansSameData ==
  \A cpu, env : Linked(GPR, cpu, env) => SameData(cpu, env)
BY DEF Linked, SameData

\* One more statement of a stream.
LEMMA RunIRStep ==
  ASSUME NEW S, NEW ss \in Seq(S), NEW n \in 1..Len(ss), NEW env
  PROVE  RunIR(SubSeq(ss, 1, n), env) = ExecStatement(ss[n], RunIR(SubSeq(ss, 1, n - 1), env))
<1> DEFINE front == SubSeq(ss, 1, n - 1)
<1>1. front \in Seq(S) /\ ss[n] \in S /\ SubSeq(ss, 1, n) = Append(front, ss[n])
  OBVIOUS
<1> HIDE DEF front
<1> QED BY <1>1, RunIRAppend DEF front

\* What a statement reads is registers.
LEMMA ReadsAreRegisters ==
  ASSUME NEW s \in Statement, NEW u \in StatementReads(s)
  PROVE  u \in RegValue /\ u.reg \in Reg
<1>1. \A v \in Value : \A r \in ValueReads(v) : r \in RegValue
  <2> SUFFICES ASSUME NEW v \in Value, NEW r \in ValueReads(v) PROVE r \in RegValue
    OBVIOUS
  <2>1. CASE v \in RegValue
    BY <2>1 DEF RegValue, ValueReads
  <2>2. CASE v \in ImmValue
    BY <2>2 DEF ImmValue, ValueReads
  <2>3. CASE v \in MemoryValue
    BY <2>3 DEF MemoryValue, ValueReads, OptReg
  <2> QED BY <2>1, <2>2, <2>3 DEF Value
<1>2. \A e \in FlatExpression : \A r \in FlatReads(e) : r \in RegValue
  <2> SUFFICES ASSUME NEW e \in FlatExpression, NEW r \in FlatReads(e) PROVE r \in RegValue
    OBVIOUS
  <2>1. CASE e \in Value
    BY <1>1, <2>1 DEF FlatReads, Value, RegValue, ImmValue, MemoryValue
  <2>2. CASE e \in UnaryExpression
    BY <1>1, <2>2 DEF FlatReads, UnaryExpression
  <2>3. CASE e \in BinaryExpression
    BY <1>1, <2>3 DEF FlatReads, BinaryExpression
  <2> QED BY <2>1, <2>2, <2>3 DEF FlatExpression
<1>3. \A e \in Expression : \A r \in Reads(e) : r \in RegValue
  <2> SUFFICES ASSUME NEW e \in Expression, NEW r \in Reads(e) PROVE r \in RegValue
    OBVIOUS
  <2>1. CASE e \in FlatExpression
    <3>1. e.kind # "cond"
      BY <2>1 DEF FlatExpression, Value, RegValue, ImmValue, MemoryValue,
                  UnaryExpression, BinaryExpression
    <3> QED BY <1>2, <2>1, <3>1 DEF Reads
  <2>2. CASE e \in ConditionalExpression
    BY <1>2, <2>2 DEF Reads, ConditionalExpression
  <2> QED BY <2>1, <2>2 DEF Expression
<1>4. u \in RegValue
  <2>1. CASE s \in AssignStatement
    BY <1>3, <2>1 DEF AssignStatement, StatementReads
  <2>2. CASE s \in StoreStatement
    BY <1>3, <2>2 DEF StoreStatement, StatementReads, Value, FlatExpression, Expression
  <2> QED BY <2>1, <2>2 DEF Statement
<1> QED BY <1>4 DEF RegValue
=============================================================================
