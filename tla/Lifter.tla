------------------------------- MODULE Lifter -------------------------------
(***************************************************************************)
(* The lifter (Lifter.h) with the register file that numbers SSA versions  *)
(* (RegisterFile in expression.h) and the statement stream it fills (IR).  *)
(*                                                                         *)
(* One lift() is StartLift, a handler step per decoded instruction, and    *)
(* FinishLift or DisassemblyFails.  One Lifter object serves several       *)
(* lifts, so the register file outlives each of them.                      *)
(***************************************************************************)
EXTENDS IRTypes

CONSTANTS
  Insns,      \* the instructions Capstone may decode
  UnionReads, \* what operands[0].imm may read when the operand is no immediate
  AddrSize,   \* cs_x86.addr_size in 64-bit mode, in the scale of the model
  MaxInsns,   \* bound: instructions decoded in one lift
  MaxLifts    \* bound: lifts of one Lifter object

ASSUME LifterAssumption ==
  /\ \A x \in Insns : WellFormed(x)
  /\ UnionReads \subseteq Int
  /\ AddrSize \in Int
  /\ MaxInsns \in Nat
  /\ MaxLifts \in Nat

VARIABLES
  phase,      \* "idle", "lifting", "done" or "failed" (lift() threw)
  versions,   \* RegisterFile::versions, -1 before the first write
  statements, \* IR::statements of the current or last lift
  next_id,    \* IR::next_id
  source,     \* history: the instructions decoded by this lift
  lifts       \* how many lifts have started

vars == <<phase, versions, statements, next_id, source, lifts>>

-----------------------------------------------------------------------------
(***************************************************************************)
(* Operands (Lifter::reg, Lifter::operand).  reg() maps every alias of a   *)
(* register, ah included, to its family.                                   *)
(***************************************************************************)
FamilyOf(r) == r.family

OptionalReg(r) == IF r = X86_REG_INVALID THEN NullValue ELSE RegV(FamilyOf(r), 64)

OperandBytesAsBits(o) ==    \* mutant: width in bytes
  IF o.type = "reg" THEN RegV(FamilyOf(o.reg), o.size)
  ELSE IF o.type = "imm" THEN ImmV(o.imm)
  ELSE MemV(o.size, OptionalReg(o.base), OptionalReg(o.index), o.scale, o.disp)

Operand(o) ==
  CASE o.type = "reg" -> RegV(FamilyOf(o.reg), 8 * o.size)
    [] o.type = "imm" -> ImmV(o.imm)
    [] o.type = "mem" -> MemV(o.size, OptionalReg(o.base), OptionalReg(o.index),
                              o.scale, o.disp)

(***************************************************************************)
(* SSA tags (RegisterFile::tag_read, RegisterFile::tag_write,              *)
(* Lifter::tag_reads).                                                     *)
(***************************************************************************)
ReadId(vers, r) == IF vers[r] < 0 THEN 0 ELSE vers[r]

TagRead(v, vers) ==
  IF v.kind = "null" THEN v ELSE [v EXCEPT !.ssa_id = ReadId(vers, v.reg)]

TagValue(v, vers) ==
  CASE v.kind = "reg" -> TagRead(v, vers)
    [] v.kind = "mem" -> [v EXCEPT !.base = TagRead(v.base, vers),
                                   !.index = TagRead(v.index, vers)]
    [] OTHER          -> v

TagFlat(e, vers) ==
  CASE e.kind = "un"  -> [e EXCEPT !.operand = TagValue(e.operand, vers)]
    [] e.kind = "bin" -> [e EXCEPT !.left = TagValue(e.left, vers),
                                   !.right = TagValue(e.right, vers)]
    [] OTHER          -> TagValue(e, vers)

TagReads(e, vers) ==
  IF e.kind = "cond"
  THEN Conditional(TagFlat(e.condition, vers), TagFlat(e.true_expr, vers),
                   TagFlat(e.false_expr, vers))
  ELSE TagFlat(e, vers)

(***************************************************************************)
(* Statements are appended to a state [versions, statements, next_id], so  *)
(* that a handler that emits several composes the operators.  The value is *)
(* tagged before the destination's new version exists.                     *)
(***************************************************************************)
BumpedNever(vers, dst) == vers    \* mutant: tag_write without the increment

Bumped(vers, dst) ==
  IF dst.kind = "reg" THEN [vers EXCEPT ![dst.reg] = @ + 1] ELSE vers

TagWrite(dst, vers) ==
  IF dst.kind = "reg" THEN [dst EXCEPT !.ssa_id = vers[dst.reg]] ELSE dst

NewAssignTagsLate(st, dst, value) ==    \* mutant: tag_write before tag_reads
  LET bumped == Bumped(st.versions, dst)
  IN [versions   |-> bumped,
      statements |-> Append(st.statements, Assign(TagWrite(dst, bumped),
                                                  TagReads(value, bumped))),
      next_id    |-> st.next_id + 1]

NewAssign(st, dst, value) ==
  LET bumped == Bumped(st.versions, dst)
  IN [versions   |-> bumped,
      statements |-> Append(st.statements, Assign(TagWrite(dst, bumped),
                                                  TagReads(value, st.versions))),
      next_id    |-> st.next_id + 1]

NewStore(st, dst, src) ==
  [st EXCEPT !.statements = Append(@, Store(TagValue(dst, st.versions),
                                            TagReads(src, st.versions)))]

EmitAssignmentOrStore(st, dst, src) ==
  IF dst.kind = "mem" THEN NewStore(st, dst, src) ELSE NewAssign(st, dst, src)

EmitBinarySwapped(st, x, op) ==    \* mutant: left and right exchanged
  LET dst == Operand(x.ops[1])
  IN EmitAssignmentOrStore(st, dst, Binary(op, Operand(x.ops[2]), dst))

EmitBinaryOperation(st, x, op) ==
  LET dst == Operand(x.ops[1])
  IN EmitAssignmentOrStore(st, dst, Binary(op, dst, Operand(x.ops[2])))

EmitOperation(st, x, op) ==
  LET src == Operand(x.ops[1]) IN NewAssign(st, src, Unary(op, src))

StackSlot == MemV(8, RegV("RSP", 64), NullValue, 1, 0)

AdjustRsp(st, op) ==
  NewAssign(st, RegV("RSP", 64), Binary(op, RegV("RSP", 64), ImmV(Slot)))

EmitStackPushStoreFirst(st, src) ==    \* mutant: the store before the adjustment
  AdjustRsp(EmitAssignmentOrStore(st, StackSlot, src), "Sub")

EmitStackPush(st, src) ==
  EmitAssignmentOrStore(AdjustRsp(st, "Sub"), StackSlot, src)

EmitStackPopAdjustFirst(st, dst) ==    \* mutant: the adjustment before the load
  EmitAssignmentOrStore(AdjustRsp(st, "Add"), dst, StackSlot)

EmitStackPop(st, dst) ==
  AdjustRsp(EmitAssignmentOrStore(st, dst, StackSlot), "Add")

(***************************************************************************)
(* Jumps.  emit_jump reads the immediate member of the operand's union     *)
(* whatever the operand is; make_condition compares ZF whatever the jump.  *)
(***************************************************************************)
JumpTargets(x) == IF x.ops[1].type = "imm" THEN {x.ops[1].imm} ELSE UnionReads

ConditionOfZero(id) ==    \* mutant: jne compares with 0, as the rows below it
  Binary(IF id = "je" THEN "Eq" ELSE "Ne", RegV("ZF", 64), ImmV(IF id = "je" THEN 1 ELSE 0))

ConditionOf(id) ==
  CASE id = "je"  -> Binary("Eq", RegV("ZF", 64), ImmV(1))
    [] id = "jne" -> Binary("Ne", RegV("ZF", 64), ImmV(1))
    [] id = "jg"  -> Binary("Gt", RegV("ZF", 64), ImmV(0))
    [] id = "jge" -> Binary("Ge", RegV("ZF", 64), ImmV(0))
    [] id = "jl"  -> Binary("Lt", RegV("ZF", 64), ImmV(0))
    [] id = "jle" -> Binary("Le", RegV("ZF", 64), ImmV(0))

EmitConditionalJump(st, x) ==
  LET fallthrough == Binary("Add", RegV("RIP", 64), ImmV(AddrSize))
      next_rip == Conditional(ConditionOf(x.id), ImmV(x.ops[1].imm), fallthrough)
  IN NewAssign(st, RegV("RIP", 64), next_rip)

BinaryOpOf(id) ==
  CASE id = "add" -> "Add"
    [] id = "sub" -> "Sub"
    [] id = "xor" -> "BitXor"
    [] id = "shr" -> "Shr"
    [] id = "rcr" -> "Rcr"
    [] id = "rcl" -> "Rcl"

-----------------------------------------------------------------------------
NoVersions == [r \in Reg |-> -1]

Init ==
  /\ phase = "idle"
  /\ versions = NoVersions
  /\ statements = <<>>
  /\ next_id = 0
  /\ source = <<>>
  /\ lifts = 0

Current == [versions |-> versions, statements |-> statements, next_id |-> next_id]

StartLift ==
  /\ phase # "lifting"
  /\ lifts < MaxLifts
  /\ phase' = "lifting"
  /\ versions' = NoVersions
  /\ statements' = <<>>
  /\ next_id' = 0
  /\ source' = <<>>
  /\ lifts' = lifts + 1

(***************************************************************************)
(* Capstone decoded nothing (count == 0): lift() throws after the reset.   *)
(***************************************************************************)
DisassemblyFails ==
  /\ phase = "lifting"
  /\ source = <<>>
  /\ phase' = "failed"
  /\ UNCHANGED <<versions, statements, next_id, source, lifts>>

FinishLift ==
  /\ phase = "lifting"
  /\ source # <<>>
  /\ phase' = "done"
  /\ UNCHANGED <<versions, statements, next_id, source, lifts>>

(***************************************************************************)
(* The loop of lift() takes the next instruction x and its handler leaves  *)
(* the register file and the stream as in st.                              *)
(***************************************************************************)
Handle(x, st) ==
  /\ phase = "lifting"
  /\ Len(source) < MaxInsns
  /\ source' = Append(source, x)
  /\ versions' = st.versions
  /\ statements' = st.statements
  /\ next_id' = st.next_id
  /\ UNCHANGED <<phase, lifts>>

HandleMov(x) ==
  /\ x.id \in MovIds
  /\ Handle(x, EmitAssignmentOrStore(Current, Operand(x.ops[1]), Operand(x.ops[2])))

HandlePush(x) ==
  /\ x.id = "push"
  /\ Handle(x, EmitStackPush(Current, Operand(x.ops[1])))

HandlePop(x) ==
  /\ x.id = "pop"
  /\ Handle(x, EmitStackPop(Current, Operand(x.ops[1])))

HandlePushfq(x) ==
  /\ x.id = "pushfq"
  /\ Handle(x, EmitStackPush(Current, RegV("RFLAGS", 64)))

HandlePopfq(x) ==
  /\ x.id = "popfq"
  /\ Handle(x, EmitStackPop(Current, RegV("RFLAGS", 64)))

HandleLea(x) ==
  /\ x.id = "lea"
  /\ Handle(x, NewAssign(Current, Operand(x.ops[1]), Operand(x.ops[2])))

HandleJmp(x) ==
  /\ x.id = "jmp"
  /\ \E target \in JumpTargets(x) :
       Handle(x, NewAssign(Current, RegV("RIP", 64), ImmV(target)))

HandleCall(x) ==
  /\ x.id = "call"
  /\ Handle(x, EmitStackPush(Current, RegV("RIP", 64)))

HandleRet(x) ==
  /\ x.id = "ret"
  /\ Handle(x, EmitStackPop(Current, RegV("RIP", 64)))

HandleBinary(x) ==
  /\ x.id \in BinaryIds
  /\ Handle(x, EmitBinaryOperation(Current, x, BinaryOpOf(x.id)))

HandleNeg(x) ==
  /\ x.id = "neg"
  /\ Handle(x, EmitOperation(Current, x, "Neg"))

HandleConditionalJump(x) ==
  /\ x.id \in CondJumpIds
  /\ Handle(x, EmitConditionalJump(Current, x))

HandledIds ==
  MovIds \cup BinaryIds \cup CondJumpIds \cup BareIds \cup
  {"push", "pop", "lea", "jmp", "call", "neg"}

(***************************************************************************)
(* handlers.find fails: the instruction is skipped without a statement.    *)
(***************************************************************************)
SkipUnhandled(x) ==
  /\ x.id \notin HandledIds
  /\ Handle(x, Current)

HandleInsn(x) ==
  \/ HandleMov(x) \/ HandlePush(x) \/ HandlePop(x)
  \/ HandlePushfq(x) \/ HandlePopfq(x) \/ HandleLea(x)
  \/ HandleJmp(x) \/ HandleCall(x) \/ HandleRet(x)
  \/ HandleBinary(x) \/ HandleNeg(x) \/ HandleConditionalJump(x)
  \/ SkipUnhandled(x)

Next ==
  \/ StartLift
  \/ DisassemblyFails
  \/ FinishLift
  \/ \E x \in Insns : HandleInsn(x)

Spec == Init /\ [][Next]_vars

-----------------------------------------------------------------------------
(***************************************************************************)
(* Properties.                                                             *)
(***************************************************************************)

\* Every variable stays in its type: in particular every statement a handler
\* appends is a well-formed IR node, and versions are -1 or more.
TypeOK ==
  /\ phase \in {"idle", "lifting", "done", "failed"}
  /\ versions \in [Reg -> Int]
  /\ \A r \in Reg : versions[r] >= -1
  /\ statements \in Seq(Statement)
  /\ next_id \in Nat
  /\ source \in Seq(Insns)
  /\ lifts \in 0..MaxLifts

\* Static single assignment: within one lift, of two statements that write
\* the same register the later one carries the larger SSA id, so no id is
\* given to two definitions, also on a Lifter that has lifted before.
SSAIds(ss) ==
  \A i, j \in DOMAIN ss : \A r \in Reg :
    i < j /\ Defines(ss[i], r) /\ Defines(ss[j], r) =>
      ss[i].dst.ssa_id < ss[j].dst.ssa_id

SingleAssignment == SSAIds(statements)

\* Statement k is the definition of r that a read in statement n sees.
ReachingDef(ss, k, n, r) ==
  /\ k \in 1..(n - 1)
  /\ Defines(ss[k], r)
  /\ \A m \in (k + 1)..(n - 1) : ~Defines(ss[m], r)

ReachesRead(ss, n, u) ==
  \/ \E k \in DOMAIN ss : ReachingDef(ss, k, n, u.reg) /\ ss[k].dst.ssa_id = u.ssa_id
  \/ (\A k \in 1..(n - 1) : ~Defines(ss[k], u.reg)) /\ u.ssa_id = 0

ReadsReach(ss) ==
  \A n \in DOMAIN ss : \A u \in StatementReads(ss[n]) : ReachesRead(ss, n, u)

\* Def-use chains: a register read in a statement is tagged with the id of the
\* last earlier definition of that register, and with 0 if the lift has not
\* written it yet.  RegisterAst, which resolves by position, and any reader of
\* the printed SSA numbers then see the same definition.
ReadsSeeReachingDef == ReadsReach(statements)

SameReg(a, b) == a.kind = b.kind /\ (a.kind = "reg" => a.reg = b.reg /\ a.width = b.width)

SamePlace(a, b) ==
  CASE a.kind = "reg" /\ b.kind = "reg" -> SameReg(a, b)
    [] a.kind = "mem" /\ b.kind = "mem" ->
         /\ SameReg(a.base, b.base) /\ SameReg(a.index, b.index)
         /\ <<a.size, a.scale, a.displacement>> = <<b.size, b.scale, b.displacement>>
    [] OTHER -> FALSE

BothMemory(a, b) == a.kind = "mem" /\ b.kind = "mem"

InPlace(s) ==
  /\ s.value.kind = "bin" => /\ SamePlace(Destination(s), s.value.left)
                             /\ ~BothMemory(Destination(s), s.value.right)
  /\ s.value.kind = "un" => SamePlace(Destination(s), s.value.operand)

AllInPlace(ss) == \A n \in DOMAIN ss : InPlace(ss[n])

\* A statement that computes with an operator updates its destination in
\* place: the left operand is the place it writes, and the right one is no other
\* place in memory.  emit_binary_mem of the
\* recompiler drops the left operand and relies on it, and emit_binary_reg
\* would clobber a right operand equal to the destination without it.
OperatesInPlace == AllInPlace(statements)

\* A stream as RegisterAst relies on it: each version of a register has one
\* definition, an operator works in place, and the one expression with more than
\* one operator is the target of a jump, over a register and immediates.
OverImmediate(e, ops) ==
  e.kind = "bin" /\ e.op \in ops /\ e.left.kind = "reg" /\ e.right.kind = "imm"

IsTarget(e) ==
  /\ OverImmediate(e.condition, {"Eq", "Ne", "Gt", "Ge", "Lt", "Le"})
  /\ e.true_expr.kind = "imm"
  /\ OverImmediate(e.false_expr, {"Add"})

OnlyTargetsNest(ss) == \A n \in DOMAIN ss : ss[n].value.kind = "cond" => IsTarget(ss[n].value)

AsLifted(ss) == SSAIds(ss) /\ AllInPlace(ss) /\ OnlyTargetsNest(ss)
=============================================================================
