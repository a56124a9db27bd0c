------------------------ MODULE RegisterAstMeaning ------------------------
(***************************************************************************)
(* What a resolved expression means: evaluated in the environment a block  *)
(* was entered with, against the value the statements compute.             *)
(***************************************************************************)
EXTENDS RegisterAst, IRMeaning, IRText

CONSTANT Envs    \* the environments a block is tried in

ASSUME EnvsAssumption == Envs \subseteq Env

(***************************************************************************)
(* The value of an answer: its nodes push what they mean on a stack, an    *)
(* operator in the place of its operands.  A stack is its top and the rest.*)
(***************************************************************************)
Empty == <<>>
Push(v, stack) == <<v, stack>>
OnTop(stack) == stack[1]
Beneath(stack) == stack[2]

AnswerUnary(op, a, env) ==
  IF op = "Load" THEN env.mem[a] ELSE EvalUnary(op, a, Modulus[64])

AnswerBinary(op, a, b) ==
  IF op = "Mul" THEN (a * b) % Modulus[64] ELSE EvalBinary(op, a, b, Modulus[64])

Calculated(node, stack, env) ==
  CASE node.kind = "reg" -> Push(env.reg[node.reg], stack)
    [] node.kind = "imm" -> Push(node.value, stack)
    [] node.kind = "un"  -> Push(AnswerUnary(node.op, OnTop(stack), env), Beneath(stack))
    [] node.kind = "bin" ->
         LET under == Beneath(stack)
         IN Push(AnswerBinary(node.op, OnTop(under), OnTop(stack)), Beneath(under))
    [] node.kind = "cond" ->
         LET under == Beneath(stack)
             condition == OnTop(Beneath(under))
         IN Push(IF condition = 1 THEN OnTop(under) ELSE OnTop(stack), Beneath(Beneath(under)))

Stacks(answer, stack, env) ==
  LET after[n \in 0..Len(answer)] ==
        IF n = 0 THEN stack ELSE Calculated(answer[n], after[n - 1], env)
  IN after

StackAfter(answer, stack, env) == Stacks(answer, stack, env)[Len(answer)]

EvalAnswer(answer, env) == OnTop(StackAfter(answer, Empty, env))

Before(ss, n, env) == RunIR(SubSeq(ss, 1, n - 1), env)

(***************************************************************************)
(* The documented limits: registers and memory are used 64 bits at a time, *)
(* RFLAGS is not written, no operator works on memory without a store,     *)
(* and no load reads, through an address of another shape, what an earlier *)
(* store wrote.                                                            *)
(***************************************************************************)
ValuesIn(e) ==
  IF e.kind = "cond"
  THEN FlatValues(e.condition) \cup FlatValues(e.true_expr) \cup FlatValues(e.false_expr)
  ELSE FlatValues(e)

IsWide(v) ==
  CASE v.kind = "reg" -> v.width = 64
    [] v.kind = "mem" -> v.size = 8
    [] OTHER          -> TRUE

WholeWords(ss) ==
  \A n \in DOMAIN ss : \A v \in ValuesIn(ss[n].value) \cup {Destination(ss[n])} : IsWide(v)

LoadsOf(s) == {v \in ValuesIn(s.value) : v.kind = "mem"}

\* The address of an operand of statement n, as far down as a query resolves one.
AddressTree(ss, v, n) == ResolveAddress(v, n, Resolver(ss, {})[MaxDepth])

NoHiddenAlias(ss, env) ==
  \A n \in DOMAIN ss : \A v \in LoadsOf(ss[n]) : \A k \in 1..(n - 1) :
    ss[k].kind = "store" /\
    Address(ss[k].address, Before(ss, k, env)) = Address(v, Before(ss, n, env))
      => AddressTree(ss, ss[k].address, k) = AddressTree(ss, v, n)

NoMemoryAssign(ss) == \A n \in DOMAIN ss : ss[n].kind = "assign" => ss[n].dst.kind = "reg"

\* popfq leaves in RFLAGS the flags of what it has loaded and nothing else.
NoFlagsAssign(ss) == \A n \in DOMAIN ss : ~Defines(ss[n], "RFLAGS")

NoRotate(ss) == \A n \in DOMAIN ss : ~IsRotate(ss[n])

ButForNeg(ss, env) ==
  WholeWords(ss) /\ NoRotate(ss) /\ NoFlagsAssign(ss) /\ NoHiddenAlias(ss, env)

Within(ss, env) == ButForNeg(ss, env) /\ NoMemoryAssign(ss)

\* What IR::expression_str calls the operator of a node.
NodeName(node) ==
  CASE node.kind = "un"  -> UnaryName(node.op)
    [] node.kind = "bin" -> BinaryName(node.op)
    [] OTHER             -> node.kind

Answered(call) == query.call = call /\ value \notin Failed

-----------------------------------------------------------------------------
(***************************************************************************)
(* Properties.                                                             *)
(***************************************************************************)

\* The expression of the last version of a register has, in the environment of
\* the entry, the value the register holds after the block; the expression of
\* any version that is defined has the value its definition computed.  Uses of
\* a register that is redefined in between, loads forwarded from stores, loads
\* of addresses that were themselves loaded: all see the right version.
LastValueResolved ==
  Answered("build_last") =>
    \A env \in Envs : Within(ir, env) =>
      EvalAnswer(value, env) = RunIR(ir, env).reg[query.reg]

VersionResolved ==
  Answered("build") =>
    \A n \in DOMAIN ir : Defines(ir[n], query.reg) /\ ir[n].dst.ssa_id = query.id =>
      \A env \in Envs : Within(ir, env) =>
        EvalAnswer(value, env) = Before(ir, n + 1, env).reg[query.reg]

\* resolve() gives up only on a stream long enough to need that depth: three
\* levels for each statement suffice, for the definition that it goes back to,
\* an operator over it and a load under that.
DepthSuffices == 3 * Len(ir) <= MaxDepth + 1 => value # TooDeep

\* No call reads a node that was freed, in whatever order the stream is
\* simplified, the RegisterAst built and the queries asked: a store the lifter
\* makes holds an operator over the cell itself, and the only rule that applies
\* to one changes the node where it is.
NothingDangles == value # Dangling

\* Everything main() prints has a name: each operator of the stream, simplified
\* or not, and each that only an answer has, is in the table of its kind of node.
EverythingNamed ==
  /\ \A n \in DOMAIN ir : <<"mark", Unnamed>> \notin Range(StatementText(ir[n]))
  /\ value \notin Failed => \A k \in DOMAIN value : NodeName(value[k]) # Unnamed

\* Two statements of a stream, simplified or not, that are printed alike are the
\* same but for what ShownStatement leaves out: nothing else is lost to a reader,
\* who sees neither addresses nor classes.
PrintedApart ==
  query = NoQuery =>
    \A m, n \in DOMAIN ir : StatementText(ir[m]) = StatementText(ir[n])
                              => ShownStatement(ir[m]) = ShownStatement(ir[n])

\* Registerast.h:3-7, the expression is "the full symbolic expression that
\* computes" the register: also where neg has updated memory in place, the last
\* value is the one the block computes.
LastValueWithNeg ==
  Answered("build_last") =>
    \A env \in Envs : ButForNeg(ir, env) =>
      EvalAnswer(value, env) = RunIR(ir, env).reg[query.reg]

\* Registerast.h:108, "convention: id 0 == value on entry to this IR block":
\* a version 0 that is queried is the value on entry.
VersionZeroIsEntry ==
  query.call = "build" /\ query.id = 0 => value = <<InputLeaf(query.reg)>>
=============================================================================
