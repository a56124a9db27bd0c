----------------------------- MODULE Simplifier -----------------------------
(***************************************************************************)
(* The simplifier (Simplifier.h): one walk over the statements of an IR,   *)
(* rewriting the value of each in place, bottom-up, by three rules.        *)
(***************************************************************************)
EXTENDS IRTypes

CONSTANTS
  Blocks,    \* the statement streams handed to simplify()
  MaxPasses  \* bound: calls of simplify() on one IR

ASSUME SimplifierAssumption ==
  /\ Blocks \subseteq Seq(Statement)
  /\ MaxPasses \in Nat

VARIABLES
  ir,        \* IR::statements, rewritten in place
  pos,       \* the next statement of the walk
  passes,    \* how many walks are complete
  original   \* history: the stream before the first walk

vars == <<ir, pos, passes, original>>

-----------------------------------------------------------------------------
IsAllOnes(value, width) == value = Modulus[width] - 1

SameRegisterAnyWidth(a, b) ==    \* mutant: the widths are not compared
  \/ a.kind = "null" /\ b.kind = "null"
  \/ a.kind = "reg" /\ b.kind = "reg" /\ a.reg = b.reg

SameRegister(a, b) ==
  \/ a.kind = "null" /\ b.kind = "null"
  \/ a.kind = "reg" /\ b.kind = "reg" /\ a.reg = b.reg /\ a.width = b.width

\* same_value: structural equality of two values, SSA ids ignored.
SameValue(a, b) ==
  CASE a.kind = "reg" -> SameRegister(a, b)
    [] a.kind = "imm" -> b.kind = "imm" /\ a.value = b.value
    [] a.kind = "mem" ->
         /\ b.kind = "mem"
         /\ <<a.size, a.scale, a.displacement>> = <<b.size, b.scale, b.displacement>>
         /\ SameRegister(a.base, b.base) /\ SameRegister(a.index, b.index)

\* An immediate that is negative as an int64_t and is not INT64_MIN.
Negatable(v) == v.kind = "imm" /\ 2 * v.value > Modulus[64]

SubtractsUnwrapped(e) ==    \* mutant: the magnitude stays a negative number
  IF e.op = "Add" /\ Negatable(e.right)
  THEN Binary("Sub", e.left, [kind |-> "imm", value |-> -e.right.value]) ELSE e

SubtractsSameImmediate(e) ==    \* mutant: the immediate is not negated
  IF e.op = "Add" /\ Negatable(e.right) THEN Binary("Sub", e.left, e.right) ELSE e

SubtractsBothWays(e) ==    \* mutant: X - (-C) -> X + C as well, INT64_MIN not left alone
  IF e.op \in {"Add", "Sub"} /\ e.right.kind = "imm" /\ 2 * e.right.value >= Modulus[64]
  THEN Binary(IF e.op = "Add" THEN "Sub" ELSE "Add", e.left, ImmV(-e.right.value)) ELSE e

SubtractsReversed(e) ==    \* mutant: the operands change sides
  IF e.op = "Add" /\ Negatable(e.right)
  THEN Binary("Sub", ImmV(-e.right.value), e.left) ELSE e

SubtractsInstead(e) ==    \* rule 2: X + (-C) -> X - C
  IF e.op = "Add" /\ Negatable(e.right)
  THEN Binary("Sub", e.left, ImmV(-e.right.value)) ELSE e

SimplifyBinaryUntagged(e) ==    \* mutant: rule 1a builds a new operand
  CASE e.op = "BitXor" /\ e.left.kind = "reg" /\ e.right.kind = "imm"
         /\ IsAllOnes(e.right.value, e.left.width)
         -> Unary("LogicalNot", RegV(e.left.reg, e.left.width))
    [] OTHER -> SubtractsInstead(e)

SimplifyBinaryAnyPlace(e) ==    \* mutant: rule 1a for memory too
  IF e.op = "BitXor" /\ e.right.kind = "imm" /\ IsAllOnes(e.right.value, 64)
  THEN Unary("LogicalNot", e.left) ELSE SubtractsInstead(e)

SimplifyBinary(e) ==
  CASE e.op = "BitXor" /\ e.left.kind = "reg" /\ e.right.kind = "imm"
         /\ IsAllOnes(e.right.value, e.left.width)
         -> Unary("LogicalNot", e.left)                          \* rule 1a
    [] e.op = "BitXor" /\ SameValue(e.left, e.right) -> ImmV(0)  \* rule 1b
    [] OTHER -> LET d == SubtractsInstead(e)
                IN IF d.op = "Sub" /\ SameValue(d.left, d.right) \* rule 3
                   THEN ImmV(0) ELSE d

\* The children of the operators the lifter builds are values, which have
\* nothing to simplify, and the walk does not enter a ConditionalExpression.
SimplifyExpr(e) == IF e.kind = "bin" THEN SimplifyBinary(e) ELSE e

SimplifyStatement(s) == [s EXCEPT !.value = SimplifyExpr(@)]

-----------------------------------------------------------------------------
Init ==
  /\ original \in Blocks
  /\ ir = original
  /\ pos = 1
  /\ passes = 0

VisitStatement ==
  /\ passes < MaxPasses
  /\ pos <= Len(ir)
  /\ ir' = [ir EXCEPT ![pos] = SimplifyStatement(@)]
  /\ pos' = pos + 1
  /\ UNCHANGED <<passes, original>>

FinishPassForgets ==    \* mutant: the walk starts over and simplify() never returns
  /\ passes < MaxPasses
  /\ pos > Len(ir)
  /\ pos' = 1
  /\ UNCHANGED <<ir, passes, original>>

\* simplify() returns; another call starts at the first statement again.
FinishPass ==
  /\ passes < MaxPasses
  /\ pos > Len(ir)
  /\ passes' = passes + 1
  /\ pos' = 1
  /\ UNCHANGED <<ir, original>>

Next == VisitStatement \/ FinishPass

Spec == Init /\ [][Next]_vars

-----------------------------------------------------------------------------
(***************************************************************************)
(* Properties.                                                             *)
(***************************************************************************)

\* Simplifying keeps the stream a stream of well-formed statements.
TypeOK ==
  /\ ir \in Seq(Statement)
  /\ pos \in 1..(Len(ir) + 1)
  /\ passes \in 0..MaxPasses
  /\ original \in Blocks

\* One walk reaches the normal form: a second simplify() rewrites nothing, so
\* no rule produces what an earlier rule of the same node should have seen.
OnePassSuffices == [][passes > 0 => UNCHANGED ir]_vars

\* The registers a rewritten statement reads are among those it read before,
\* with their SSA ids, and it writes the same place: the rewrite cannot change
\* which definition reaches which use.
ReadsShrink ==
  /\ Len(ir) = Len(original)
  /\ \A n \in DOMAIN ir :
       /\ StatementReads(ir[n]) \subseteq StatementReads(original[n])
       /\ ir[n].kind = original[n].kind
       /\ [ir[n] EXCEPT !.value = original[n].value] = original[n]
=============================================================================
