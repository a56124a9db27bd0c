------------------------------ MODULE IRMeaning ------------------------------
(***************************************************************************)
(* What IR statements denote (expression.h, Statement.h): a statement maps *)
(* an environment, the contents of the registers and of memory, to the     *)
(* next one.  No statement but an assignment to them changes RFLAGS or ZF, *)
(* and the rotates through carry have no meaning, since the carry is no    *)
(* operand of theirs.                                                      *)
(***************************************************************************)
EXTENDS X86Machine

Env == [reg : [Reg -> Word], mem : [Word -> Word]]

RegisterOf(v, env) == IF v.kind = "null" THEN 0 ELSE env.reg[v.reg]

Address(v, env) ==
  (RegisterOf(v.base, env) + v.scale * RegisterOf(v.index, env) + v.displacement)
    % Modulus[64]

EvalValue(v, env) ==
  CASE v.kind = "reg" -> Low(env.reg[v.reg], v.width)
    [] v.kind = "imm" -> v.value
    [] v.kind = "mem" -> Low(env.mem[Address(v, env)], 8 * v.size)

\* The width at which an operator computes is that of its left operand.
WidthOf(v) ==
  CASE v.kind = "reg" -> v.width
    [] v.kind = "imm" -> 64
    [] v.kind = "mem" -> 8 * v.size

\* A value that is as wide as w, or an immediate, which takes any width.
Fits(v, w) == v.kind = "imm" \/ WidthOf(v) = w

Holds(condition) == IF condition THEN 1 ELSE 0

EvalBinary(op, a, b, m) ==
  CASE op = "Add"    -> (a + b) % m
    [] op = "Sub"    -> (a - b) % m
    [] op = "BitXor" -> XorWord(a, b % m)
    [] op = "Shr"    -> a \div 2
    [] op = "Eq"     -> Holds(a = b)
    [] op = "Ne"     -> Holds(a # b)
    [] op = "Lt"     -> Holds(a < b)
    [] op = "Le"     -> Holds(a <= b)
    [] op = "Gt"     -> Holds(a > b)
    [] op = "Ge"     -> Holds(a >= b)

EvalUnary(op, a, m) ==
  CASE op = "Neg"        -> (-a) % m
    [] op = "LogicalNot" -> m - 1 - a

EvalFlat(e, env) ==
  CASE e.kind = "bin" -> EvalBinary(e.op, EvalValue(e.left, env), EvalValue(e.right, env),
                                    Modulus[WidthOf(e.left)])
    [] e.kind = "un"  -> EvalUnary(e.op, EvalValue(e.operand, env),
                                   Modulus[WidthOf(e.operand)])
    [] OTHER          -> EvalValue(e, env)

Eval(e, env) ==
  IF e.kind # "cond" THEN EvalFlat(e, env)
  ELSE IF EvalFlat(e.condition, env) = 1 THEN EvalFlat(e.true_expr, env)
  ELSE EvalFlat(e.false_expr, env)

\* RFLAGS holds flags and nothing else.
Held(r, v) == IF r = "RFLAGS" THEN v % FlagsSpan ELSE v

\* Nobody builds an assignment to an immediate; it would change nothing.
Written(place, v, env) ==
  CASE place.kind = "reg" ->
         [env EXCEPT !.reg[place.reg] =
            Held(place.reg, WrittenReg(@, Low(v, place.width), place.width))]
    [] place.kind = "mem" ->
         [env EXCEPT !.mem[Address(place, env)] =
            Narrowed(@, Low(v, WidthOf(place)), WidthOf(place))]
    [] place.kind = "imm" -> env

ExecStatement(s, env) == Written(Destination(s), Eval(s.value, env), env)

\* The environment after each number of statements, and after all of them.
Environments(ss, env) ==
  LET after[n \in 0..Len(ss)] ==
        IF n = 0 THEN env ELSE ExecStatement(ss[n], after[n - 1])
  IN after

RunIR(ss, env) == Environments(ss, env)[Len(ss)]

\* The environment a block starts in when the processor is in state cpu.
EnvOf(cpu) ==
  [reg |-> [r \in Reg |-> CASE r \in GPR -> cpu.gpr[r]
                            [] r = "RFLAGS" -> FlagsWord(cpu)
                            [] r = "ZF" -> cpu.zf
                            [] r = "RIP" -> 0],
   mem |-> cpu.mem]

\* The processor and the environment hold the same data.
SameData(cpu, env) ==
  /\ \A r \in GPR : cpu.gpr[r] = env.reg[r]
  /\ cpu.mem = env.mem

IsRotate(s) == s.value.kind = "bin" /\ s.value.op \in {"Rcr", "Rcl"}
=============================================================================
