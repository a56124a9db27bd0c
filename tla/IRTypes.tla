------------------------------ MODULE IRTypes ------------------------------
(***************************************************************************)
(* The intermediate representation (expression.h, Statement.h, IR.h): the  *)
(* registers, the value and expression nodes and the statements.  A C++    *)
(* class of the hierarchy is a set of records with a distinguishing kind,  *)
(* and dynamic_cast is a test of that kind.                                *)
(*                                                                         *)
(* The lifter and the simplifier only build expressions of bounded depth:  *)
(* a Value, an operator over Values, or the ConditionalExpression of a     *)
(* conditional jump.  The sets below are that bounded family.              *)
(***************************************************************************)
EXTENDS X86Insn

CONSTANTS
  Modulus, \* Modulus[w] is 2^w, in the scale of the model
  Slot     \* the 8 bytes of a stack slot, in the scale of the model

Widths == {8 * s : s \in Sizes}

ASSUME ScaleAssumption ==
  /\ Modulus \in [Widths -> Nat \ {0, 1}]
  /\ Slot \in 0..(Modulus[64] - 1)

Word == 0..(Modulus[64] - 1)

Reg == GPR \cup {"RIP", "RFLAGS", "ZF"}

UnaryOps == {"Neg", "LogicalNot"}
BinaryOps == {"Add", "Sub", "BitXor", "Shr", "Rcr", "Rcl",
              "Eq", "Ne", "Gt", "Ge", "Lt", "Le"}

(***************************************************************************)
(* Values.                                                                 *)
(***************************************************************************)
RegValue == [kind : {"reg"}, reg : Reg, width : Widths, ssa_id : Int]
ImmValue == [kind : {"imm"}, value : Word]
NullValue == [kind |-> "null"]
OptReg == RegValue \cup {NullValue}
MemoryValue == [kind : {"mem"}, size : Sizes, base : OptReg, index : OptReg,
                scale : Scales, displacement : Int]
Value == RegValue \cup ImmValue \cup MemoryValue

RegV(r, w) == [kind |-> "reg", reg |-> r, width |-> w, ssa_id |-> -1]
ImmV(n) == [kind |-> "imm", value |-> n % Modulus[64]]    \* static_cast<uint64_t>
MemV(size, base, index, scale, disp) ==
  [kind |-> "mem", size |-> size, base |-> base, index |-> index,
   scale |-> scale, displacement |-> disp]

(***************************************************************************)
(* Expressions.                                                            *)
(***************************************************************************)
UnaryExpression == [kind : {"un"}, op : UnaryOps, operand : Value]
BinaryExpression == [kind : {"bin"}, op : BinaryOps, left : Value, right : Value]
FlatExpression == Value \cup UnaryExpression \cup BinaryExpression
ConditionalExpression ==
  [kind : {"cond"}, condition : FlatExpression, true_expr : FlatExpression,
   false_expr : FlatExpression]
Expression == FlatExpression \cup ConditionalExpression

Unary(op, e) == [kind |-> "un", op |-> op, operand |-> e]
Binary(op, l, r) == [kind |-> "bin", op |-> op, left |-> l, right |-> r]
Conditional(c, t, f) ==
  [kind |-> "cond", condition |-> c, true_expr |-> t, false_expr |-> f]

(***************************************************************************)
(* Statements.                                                             *)
(***************************************************************************)
AssignStatement == [kind : {"assign"}, dst : Value, value : Expression]
StoreStatement == [kind : {"store"}, address : MemoryValue, value : Expression]
Statement == AssignStatement \cup StoreStatement

Assign(dst, e) == [kind |-> "assign", dst |-> dst, value |-> e]
Store(address, e) == [kind |-> "store", address |-> address, value |-> e]

(***************************************************************************)
(* The place a statement writes, the statement as a definition of register *)
(* r, and the registers an expression or a statement reads.                *)
(***************************************************************************)
Destination(s) == IF s.kind = "store" THEN s.address ELSE s.dst

Defines(s, r) == s.kind = "assign" /\ s.dst.kind = "reg" /\ s.dst.reg = r

FlatValues(e) ==
  CASE e.kind = "un"  -> {e.operand}
    [] e.kind = "bin" -> {e.left, e.right}
    [] OTHER          -> {e}

ValueReads(v) ==
  CASE v.kind = "reg" -> {v}
    [] v.kind = "mem" -> {v.base, v.index} \ {NullValue}
    [] OTHER          -> {}

FlatReads(e) ==
  CASE e.kind = "un"  -> ValueReads(e.operand)
    [] e.kind = "bin" -> ValueReads(e.left) \cup ValueReads(e.right)
    [] OTHER          -> ValueReads(e)

Reads(e) ==
  IF e.kind = "cond"
  THEN FlatReads(e.condition) \cup FlatReads(e.true_expr) \cup FlatReads(e.false_expr)
  ELSE FlatReads(e)

StatementReads(s) ==
  IF s.kind = "store" THEN Reads(s.address) \cup Reads(s.value) ELSE Reads(s.value)
=============================================================================
