---------------------------- MODULE RegisterAst ----------------------------
(***************************************************************************)
(* RegisterAst (Registerast.h): the symbolic value of a register version   *)
(* in terms of what the registers and memory held on entry to the block.   *)
(* A use is resolved by its position in the stream, a load against the     *)
(* earlier stores whose resolved address is the same tree.                 *)
(*                                                                         *)
(* A session is an IR, which may be simplified before or after the         *)
(* RegisterAst is built on it, and queries at any time.  A definition is   *)
(* read through its statement and a store through a pointer to the value   *)
(* it had at construction, which dangles once the simplifier has put       *)
(* another node in its place.                                              *)
(***************************************************************************)
EXTENDS IRTypes, SequencesExt

CONSTANTS
  Streams,   \* the lifted streams a RegisterAst is built on
  MaxDepth   \* the 256 levels resolve() descends, in the scale of the model

L == INSTANCE Lifter
       WITH phase <- "lifting", versions <- <<>>, statements <- <<>>, next_id <- 0,
            source <- <<>>, lifts <- 0, Insns <- {}, UnionReads <- {}, AddrSize <- 1,
            MaxInsns <- 0, MaxLifts <- 0

ASSUME RegisterAstAssumption ==
  /\ Streams \subseteq Seq(Statement)
  /\ \A ss \in Streams : L!AsLifted(ss)
  /\ MaxDepth \in Nat

VARIABLES
  ir,     \* the stream ir_ refers to
  built,  \* the RegisterAst exists
  walked, \* bound: the stream was simplified, and it is once at most
  freed,  \* the stores of the index whose value node is gone
  query,  \* the last call on this stream: its register and, for build(), the SSA id
  dst_id, \* the SSA id on the destination of the statement it returned
  value   \* the value of that statement, or TooDeep

session == <<ir, built, walked, freed>>
vars == <<session, query, dst_id, value>>

(***************************************************************************)
(* An answer is a new tree.  It is written in postfix order, the order in  *)
(* which resolve() makes the nodes: those of the operands before that of   *)
(* the operator.  Trees are the same if their nodes are.                   *)
(***************************************************************************)
InputLeaf(r) == [kind |-> "reg", reg |-> r, width |-> 64, ssa_id |-> 0]
UnaryNode(op) == [kind |-> "un", op |-> op]
BinaryNode(op) == [kind |-> "bin", op |-> op]
ConditionalNode == [kind |-> "cond"]

NoQuery == [call |-> "none"]
TooDeep == <<[kind |-> "throw"]>>
Dangling == <<[kind |-> "dangling"]>>    \* the call has read a node that was freed
Failed == {TooDeep, Dangling}

S == INSTANCE Simplifier
       WITH pos <- 1, passes <- 0, original <- <<>>, Blocks <- {}, MaxPasses <- 0

-----------------------------------------------------------------------------
(***************************************************************************)
(* The index the constructor builds of a stream ss: assignments to         *)
(* registers, and store statements.  An assignment whose destination is    *)
(* memory is in neither.                                                   *)
(***************************************************************************)
DefsOf(ss, r) == {n \in DOMAIN ss : Defines(ss[n], r)}

StorePositions(ss) == {n \in DOMAIN ss : ss[n].kind = "store"}

Latest(positions) == CHOOSE n \in positions : \A m \in positions : m <= n

DefsUpTo(ss, r, at) == {n \in DefsOf(ss, r) : n <= at}    \* mutant: the use sees its own statement

DefsBefore(ss, r, at) == {n \in DefsOf(ss, r) : n < at}

\* The nodes of a, then those of b, unless resolving one of them failed.
Joined(a, b) ==
  IF Dangling \in {a, b} THEN Dangling ELSE IF TooDeep \in {a, b} THEN TooDeep ELSE a \o b

\* The sum of two terms of an address, of which one may be absent.
Plus(a, b) ==
  IF a = <<>> THEN b ELSE IF b = <<>> THEN a ELSE Joined(Joined(a, b), <<BinaryNode("Add")>>)

(***************************************************************************)
(* The calls of resolve(): below resolves one level further down, under    *)
(* two, and the values of the stores in gone were freed.                   *)
(***************************************************************************)
Base(mv, at, below) == IF mv.base = NullValue THEN <<>> ELSE below[mv.base][at]

Index(mv, at, below) ==
  IF mv.index = NullValue THEN <<>>
  ELSE IF mv.scale = 1 THEN below[mv.index][at]
  ELSE Joined(Joined(below[mv.index][at], <<ImmV(mv.scale)>>), <<BinaryNode("Mul")>>)

Displacement(mv) == IF mv.displacement = 0 THEN <<>> ELSE <<ImmV(mv.displacement)>>

ResolveAddress(mv, at, below) ==
  LET sum == Plus(Plus(Base(mv, at, below), Index(mv, at, below)), Displacement(mv))
  IN IF sum = <<>> THEN <<ImmV(0)>> ELSE sum

OtherStores(ss, mv, at) ==    \* mutant: also the stores after the load
  {n \in StorePositions(ss) : n # at /\ ss[n].address.size = mv.size}

EarlierStores(ss, mv, at) ==
  {n \in StorePositions(ss) : n < at /\ ss[n].address.size = mv.size}

\* The stores are asked from the last to the first, until one has the address
\* that is wanted or resolving its address fails.
ResolveLoad(ss, gone, mv, at, below, under) ==
  LET want == ResolveAddress(mv, at, below)
      address(n) == ResolveAddress(ss[n].address, n, under)
      stops == {n \in EarlierStores(ss, mv, at) : address(n) \in Failed \cup {want}}
      last == Latest(stops)
  IN CASE want \in Failed -> want
       [] want \notin Failed /\ stops = {} -> Joined(want, <<UnaryNode("Load")>>)
       [] want \notin Failed /\ stops # {} ->
            IF address(last) # want THEN address(last)
            ELSE IF last \in gone THEN Dangling
            ELSE below[ss[last].value][last]

ResolveUse(ss, r, at, below) ==
  LET defs == DefsBefore(ss, r, at)
  IN IF defs = {} THEN <<InputLeaf(r)>> ELSE below[ss[Latest(defs)].value][Latest(defs)]

ResolveExpression(ss, gone, e, at, below, under) ==
  CASE e.kind = "reg" -> ResolveUse(ss, e.reg, at, below)
    [] e.kind = "imm" -> <<e>>
    [] e.kind = "mem" -> ResolveLoad(ss, gone, e, at, below, under)
    [] e.kind = "un"  -> Joined(below[e.operand][at], <<UnaryNode(e.op)>>)
    [] e.kind = "bin" -> Joined(Joined(below[e.left][at], below[e.right][at]),
                                <<BinaryNode(e.op)>>)
    [] e.kind = "cond" -> Joined(Joined(Joined(below[e.condition][at], below[e.true_expr][at]),
                                        below[e.false_expr][at]),
                                 <<ConditionalNode>>)

Down(n) == IF n = 0 THEN 0 ELSE n - 1

\* resolve() with n levels left, that is at depth MaxDepth + 1 - n: at none it throws.
Resolver(ss, gone) ==
  LET levels[n \in 0..(MaxDepth + 1)] ==
        IF n = 0 THEN [e \in Expression |-> [at \in Nat |-> TooDeep]]
        ELSE [e \in Expression |-> [at \in Nat |->
                ResolveExpression(ss, gone, e, at, levels[n - 1], levels[Down(n - 1)])]]
  IN levels

ResolveDef(ss, gone, n) == Resolver(ss, gone)[MaxDepth + 1][ss[n].value][n]

\* What a call answers that found the register defined by the statements defs.
Answer(ss, gone, r, defs) ==
  IF defs = {} THEN <<InputLeaf(r)>> ELSE ResolveDef(ss, gone, Latest(defs))

-----------------------------------------------------------------------------
Init ==
  /\ ir \in Streams
  /\ built = FALSE
  /\ walked = FALSE
  /\ freed = {}
  /\ query = NoQuery
  /\ dst_id = 0
  /\ value = <<>>

Construct ==
  /\ ~built
  /\ built' = TRUE
  /\ UNCHANGED <<ir, walked, freed, query, dst_id, value>>

RebuiltByAnyRule(e) == S!SimplifyExpr(e) # e    \* mutant: rule 2 makes a node of its own

\* Rule 2 changes the node it is given, the other rules put another in its place.
Rebuilt(e) == S!SimplifyExpr(e).kind # e.kind

SimplifyIR ==
  /\ ~walked
  /\ walked' = TRUE
  /\ ir' = [n \in DOMAIN ir |-> S!SimplifyStatement(ir[n])]
  /\ freed' = IF built THEN {n \in StorePositions(ir) : Rebuilt(ir[n].value)} ELSE {}
  /\ query' = NoQuery    \* an answer is about the stream it was asked of
  /\ dst_id' = 0
  /\ value' = <<>>
  /\ UNCHANGED built

BuildLast(r) ==
  /\ built
  /\ query' = [call |-> "build_last", reg |-> r]
  /\ LET defs == DefsOf(ir, r)
     IN /\ dst_id' = IF defs = {} THEN 0 ELSE ir[Latest(defs)].dst.ssa_id
        /\ value' = Answer(ir, freed, r, defs)
  /\ UNCHANGED session

BuildAnyId(target) ==    \* mutant: the version is not compared
  /\ built
  /\ query' = [call |-> "build", reg |-> target.reg, id |-> target.ssa_id]
  /\ dst_id' = target.ssa_id
  /\ value' = Answer(ir, freed, target.reg, DefsOf(ir, target.reg))
  /\ UNCHANGED session

DefsAs(ss, r, id) == {n \in DefsOf(ss, r) : ss[n].dst.ssa_id = id}

Build(target) ==
  /\ built
  /\ query' = [call |-> "build", reg |-> target.reg, id |-> target.ssa_id]
  /\ dst_id' = target.ssa_id
  /\ value' = Answer(ir, freed, target.reg, DefsAs(ir, target.reg, target.ssa_id))
  /\ UNCHANGED session

\* The versions a caller can name: those the stream is tagged with.
Versions ==
  (UNION {StatementReads(ir[n]) : n \in DOMAIN ir}) \cup
  {ir[n].dst : n \in UNION {DefsOf(ir, r) : r \in Reg}}

Next ==
  \/ Construct
  \/ SimplifyIR
  \/ \E r \in Reg : BuildLast(r)
  \/ \E target \in Versions : Build(target)

Spec == Init /\ [][Next]_vars
=============================================================================
