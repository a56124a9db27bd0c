------------------------------- MODULE IRText -------------------------------
(***************************************************************************)
(* The text of an IR (IR::statements_str and the names of expression.h),   *)
(* as a sequence of tokens: marks, names of registers and numerals, of     *)
(* which a number has one and no two numbers the same.  A comma and the    *)
(* marks between the parts of a conditional go by a name.  Everything      *)
(* main() shows of a block is such a text.                                 *)
(***************************************************************************)
EXTENDS IRTypes, Sequences

Mark(s) == << <<"mark", s>> >>
RegisterName(r) == << <<"register", r>> >>
Numeral(n) == << <<"numeral", n>> >>

Unnamed == "?"

\* binary_op_name and unary_op_name: two tables, one for each kind of node.
BinaryNames ==
  {"Add", "Sub", "Mul", "Div", "Mod", "Shl", "Shr", "Rcr", "Sar", "Rol", "Ror", "Rcl",
   "BitAnd", "BitOr", "BitXor", "LogicalAnd", "LogicalOr", "Eq", "Ne", "Lt", "Le", "Gt", "Ge"}

UnaryNamesOfLifter == UnaryOps    \* mutant: only what the lifter and simplifier build

UnaryNames == {"Load", "Neg", "BitNot", "LogicalNot"}

UnaryName(op) == IF op \in UnaryNames THEN op ELSE Unnamed
BinaryName(op) == IF op \in BinaryNames THEN op ELSE Unnamed

Wrap(name, arguments) ==
  IF name = Unnamed THEN Mark(Unnamed) ELSE Mark(name) \o Mark("(") \o arguments \o Mark(")")

WidthText(v) == IF v.width # 64 /\ v.reg \in GPR THEN Mark(":") \o Numeral(v.width) ELSE <<>>

VersionText(v) == IF v.ssa_id >= 0 THEN Mark("[") \o Numeral(v.ssa_id) \o Mark("]") ELSE <<>>

RegisterText(v) == RegisterName(v.reg) \o WidthText(v) \o VersionText(v)

Magnitude(n) == IF n < 0 THEN -n ELSE n    \* llabs

BaseText(v) == IF v.base = NullValue THEN <<>> ELSE RegisterText(v.base)

ScaleText(v) == IF v.scale # 1 THEN Mark("*") \o Numeral(v.scale) ELSE <<>>

IndexText(v) == IF v.index = NullValue THEN <<>> ELSE RegisterText(v.index) \o ScaleText(v)

Unsigned(v, first) == IF first THEN <<>> ELSE Mark("+")    \* mutant: the sign is not looked at

\* What stands in front of the displacement: nothing, if it is the first term.
SignText(v, first) ==
  IF first THEN <<>> ELSE IF v.displacement > 0 THEN Mark("+") ELSE Mark("-")

DisplacementText(v) ==
  IF v.displacement = 0 THEN <<>>
  ELSE SignText(v, v.base = NullValue /\ v.index = NullValue) \o
       Numeral(Magnitude(v.displacement))

MemoryText(v) ==
  LET plus == IF v.base = NullValue \/ v.index = NullValue THEN <<>> ELSE Mark("+")
  IN Mark("[") \o BaseText(v) \o plus \o IndexText(v) \o DisplacementText(v) \o Mark("]")

ValueText(v) ==
  CASE v.kind = "reg" -> RegisterText(v)
    [] v.kind = "imm" -> Numeral(v.value)
    [] v.kind = "mem" -> MemoryText(v)

FlatText(e) ==
  CASE e.kind = "un"  -> Wrap(UnaryName(e.op), ValueText(e.operand))
    [] e.kind = "bin" -> Wrap(BinaryName(e.op),
                              ValueText(e.left) \o Mark("comma") \o ValueText(e.right))
    [] OTHER          -> ValueText(e)

ExpressionText(e) ==
  IF e.kind # "cond" THEN FlatText(e)
  ELSE Mark("Conditional(") \o FlatText(e.condition) \o Mark("then") \o
       FlatText(e.true_expr) \o Mark("else") \o FlatText(e.false_expr) \o Mark(")")

StatementText(s) ==
  Mark(IF s.kind = "store" THEN "Store(" ELSE "Assign(") \o
  ValueText(Destination(s)) \o Mark("comma") \o ExpressionText(s.value) \o Mark(")")

(***************************************************************************)
(* What a text leaves out: the size of a memory operand, the sign of a     *)
(* displacement that stands alone, whether a register that stands alone is *)
(* the base or the index, the scale of no index, the width of RIP, RFLAGS  *)
(* and ZF, and an id that was not given.                                   *)
(***************************************************************************)
ShownRegister(v) ==
  [v EXCEPT !.width = IF v.reg \in GPR THEN @ ELSE 64, !.ssa_id = IF @ < 0 THEN -1 ELSE @]

ShownOptional(v) == IF v = NullValue THEN v ELSE ShownRegister(v)

ShownMemory(v) ==
  LET swapped == v.base = NullValue /\ v.index # NullValue /\ v.scale = 1
      base == IF swapped THEN v.index ELSE v.base
      index == IF swapped THEN NullValue ELSE v.index
  IN MemV(8, ShownOptional(base), ShownOptional(index), IF index = NullValue THEN 1 ELSE v.scale,
          IF base = NullValue /\ index = NullValue THEN Magnitude(v.displacement)
          ELSE v.displacement)

ShownValue(v) ==
  CASE v.kind = "reg" -> ShownRegister(v)
    [] v.kind = "imm" -> v
    [] v.kind = "mem" -> ShownMemory(v)

ShownFlat(e) ==
  CASE e.kind = "un"  -> [e EXCEPT !.operand = ShownValue(@)]
    [] e.kind = "bin" -> [e EXCEPT !.left = ShownValue(@), !.right = ShownValue(@)]
    [] OTHER          -> ShownValue(e)

ShownExpression(e) ==
  IF e.kind # "cond" THEN ShownFlat(e)
  ELSE Conditional(ShownFlat(e.condition), ShownFlat(e.true_expr), ShownFlat(e.false_expr))

ShownStatement(s) ==
  [kind |-> s.kind, place |-> ShownValue(Destination(s)), value |-> ShownExpression(s.value)]
=============================================================================
