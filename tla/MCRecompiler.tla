---------------------------- MODULE MCRecompiler ----------------------------
(***************************************************************************)
(* Instances of the recompiler: streams of two or three chunks, a chunk    *)
(* being what the lifter emits for one instruction, what the simplifier    *)
(* leaves of it, or a statement only a caller of the IR classes builds.    *)
(***************************************************************************)
EXTENDS RecompilerMeaning, MCScale

Q(r) == RegV(r, 64)
Mem(base, disp, size) == MemV(size, Q(base), NullValue, 1, disp)
TopOfStack == Mem("RSP", 0, 8)

Adjust(op) == Assign(Q("RSP"), Binary(op, Q("RSP"), ImmV(Slot)))
PushOf(v) == <<Adjust("Sub"), Store(TopOfStack, v)>>
PopTo(v) == <<IF v.kind = "mem" THEN Store(v, TopOfStack) ELSE Assign(v, TopOfStack),
              Adjust("Add")>>

InPlace(op, v, right) == <<Assign(v, Binary(op, v, right))>>

StackChunks ==
  {PushOf(v) : v \in {Q("RAX"), Q("RSP"), Q("RFLAGS"), ImmV(3), ImmV(5), Mem("RCX", 1, 8)}} \cup
  {PopTo(v) : v \in {Q("RCX"), Q("RSP"), Q("RFLAGS"), Mem("RCX", 0, 8)}} \cup
  { <<Adjust("Sub")>>, <<Adjust("Add")>>, <<Store(TopOfStack, Q("RAX"))>>,
    <<Assign(Q("RAX"), TopOfStack)>>, <<Assign(Q("RSP"), TopOfStack)>>,
    InPlace("Sub", RegV("RSP", 32), ImmV(Slot)) }

DataChunks ==
  { InPlace("Add", Q("RAX"), Q("RCX")), InPlace("BitXor", RegV("RCX", 8), RegV("RAX", 8)),
    InPlace("Sub", Q("RCX"), Mem("RSP", 1, 8)), InPlace("Sub", Q("RAX"), ImmV(4)),
    InPlace("Rcr", Q("RAX"), ImmV(1)), InPlace("Shr", Q("RCX"), ImmV(1)),
    <<Assign(Q("RAX"), Binary("Sub", Q("RCX"), ImmV(2)))>>,
    <<Assign(Q("RAX"), Unary("LogicalNot", Q("RAX")))>>,
    <<Assign(Mem("RCX", 0, 8), Unary("Neg", Mem("RCX", 0, 8)))>>,
    <<Assign(Q("RCX"), ImmV(9))>>, <<Assign(RegV("RAX", 32), RegV("RCX", 32))>>,
    <<Assign(RegV("RAX", 16), ImmV(0))>>, <<Store(Mem("RCX", 0, 2), RegV("RAX", 16))>>,
    <<Store(Mem("RCX", 1, 8), Binary("Add", Mem("RCX", 1, 8), Q("RAX")))>>,
    <<Store(Mem("RCX", 0, 8), Binary("Sub", Mem("RCX", 0, 8), Q("RCX")))>>,
    <<Store(Mem("RAX", 0, 8), Binary("Add", Mem("RAX", 0, 8), ImmV(1)))>>,
    <<Assign(Q("RAX"), MemV(8, Q("RSP"), Q("RCX"), 2, 1))>>,
    <<Assign(Q("RAX"), Mem("RIP", 0, 8))>>,
    <<Assign(Q("RAX"), MemV(8, NullValue, NullValue, 1, 9))>> }

JumpTo(op) ==
  Assign(Q("RIP"), Conditional(Binary(op, Q("ZF"), ImmV(1)), ImmV(5),
                               Binary("Add", Q("RIP"), ImmV(1))))

ControlChunks ==
  { <<Assign(Q("RIP"), ImmV(5))>>, <<JumpTo("Eq")>>, <<JumpTo("Gt")>>,
    PushOf(Q("RIP")), PopTo(Q("RIP")),
    <<[kind |-> "call", target |-> 5]>>, <<[kind |-> "return"]>>, <<[kind |-> "interrupt"]>> }

Chunks == StackChunks \cup DataChunks \cup ControlChunks

MCStreams ==
  {a \o b : a, b \in Chunks} \cup
  {a \o b \o c : a \in StackChunks \cup DataChunks, b \in StackChunks, c \in StackChunks}

State(a, c, s, k, f) ==
  WithFlags(f, [gpr |-> "RAX" :> a @@ "RCX" :> c @@ "RSP" :> s,
                mem |-> [n \in Word |-> (k * n + 3) % 16],
                cf |-> 0, zf |-> 0, sf |-> 0, of |-> 0, exit |-> FallsThrough])

MCCPUs == {State(13, 6, 9, 5, 11), State(0, 8, 1, 7, 2), State(7, 15, 0, 3, 4)}
=============================================================================
