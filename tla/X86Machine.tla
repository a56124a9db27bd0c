----------------------------- MODULE X86Machine -----------------------------
(***************************************************************************)
(* What the processor does with an instruction: the reference against      *)
(* which the IR and the recompiled code are compared.  The processor is    *)
(* outside the repository; only the instructions the lifter handles and    *)
(* the recompiler emits have a meaning here.                               *)
(*                                                                         *)
(* Words are scaled by Modulus.  Memory is one 64-bit cell per address, a  *)
(* narrower access uses the low part of the cell, so accesses overlap      *)
(* fully or not at all.  Shifts and rotates are by one.                    *)
(***************************************************************************)
EXTENDS IRTypes

CONSTANT XorWord(_, _)    \* bitwise exclusive or of two words

\* Three laws of it are needed, and that the widths nest.
ASSUME XorAssumption ==
  \A w \in Widths : \A a \in 0..(Modulus[w] - 1) :
    /\ XorWord(a, a) = 0 /\ XorWord(a, Modulus[w] - 1) = Modulus[w] - 1 - a
    /\ \A b \in 0..(Modulus[w] - 1) : XorWord(a, b) \in 0..(Modulus[w] - 1)

ASSUME NestAssumption == \A w \in Widths : Modulus[64] % Modulus[w] = 0

FallsThrough == -1

Bit == {0, 1}
CPU == [gpr : [GPR -> Word], mem : [Word -> Word], cf : Bit, zf : Bit, sf : Bit, of : Bit,
        exit : Word \cup {FallsThrough}]

\* The states a block may be entered in: no jump has been taken yet.
Entered == {cpu \in CPU : cpu.exit = FallsThrough}

Low(v, w) == v % Modulus[w]

\* A 32-bit write to a register clears the upper half, narrower ones keep it.
Narrowed(old, v, w) == old - Low(old, w) + v
WrittenReg(old, v, w) == IF w = 32 THEN v ELSE Narrowed(old, v, w)

Width(o) == 8 * o.size

FamilyValue(r, cpu) == IF r = X86_REG_INVALID THEN 0 ELSE cpu.gpr[r.family]

EffectiveAddress(o, cpu) ==
  (FamilyValue(o.base, cpu) + o.scale * FamilyValue(o.index, cpu) + o.disp) % Modulus[64]

\* The value of an operand in an instruction of width w.
Source(o, w, cpu) ==
  CASE o.type = "imm" -> Low(o.imm, w)
    [] o.type = "mem" -> Low(cpu.mem[EffectiveAddress(o, cpu)], w)
    [] o.type = "reg" /\ ~o.reg.high -> Low(cpu.gpr[o.reg.family], w)
    [] o.type = "reg" /\ o.reg.high  -> Low(cpu.gpr[o.reg.family] \div Modulus[8], 8)

WriteBack(o, v, cpu) ==
  CASE o.type = "mem" ->
         [cpu EXCEPT !.mem[EffectiveAddress(o, cpu)] = Narrowed(@, v, Width(o))]
    [] o.type = "reg" /\ ~o.reg.high ->
         [cpu EXCEPT !.gpr[o.reg.family] = WrittenReg(@, v, Width(o))]
    [] o.type = "reg" /\ o.reg.high ->
         [cpu EXCEPT !.gpr[o.reg.family] =
            @ + Modulus[8] * (v - Low(@ \div Modulus[8], 8))]

(***************************************************************************)
(* Arithmetic at modulus m with its flags; c is the carry flag before.     *)
(***************************************************************************)
XorBit(a, b) == (a + b) % 2

Sign(v, m) == v \div (m \div 2)

Computed(id, a, b, m, c) ==
  CASE id = "add" -> LET r == (a + b) % m IN
         [r |-> r, cf |-> (a + b) \div m,
          of |-> IF Sign(a, m) = Sign(b, m) THEN XorBit(Sign(a, m), Sign(r, m)) ELSE 0]
    [] id = "sub" -> LET r == (a - b) % m IN
         [r |-> r, cf |-> IF a < b THEN 1 ELSE 0,
          of |-> IF Sign(a, m) # Sign(b, m) THEN XorBit(Sign(a, m), Sign(r, m)) ELSE 0]
    [] id = "xor" -> [r |-> XorWord(a, b), cf |-> 0, of |-> 0]
    [] id = "neg" -> LET r == (-a) % m IN
         [r |-> r, cf |-> IF a = 0 THEN 0 ELSE 1, of |-> IF 2 * a = m THEN 1 ELSE 0]
    [] id = "shr" -> [r |-> a \div 2, cf |-> a % 2, of |-> Sign(a, m)]
    [] id = "rcr" -> [r |-> a \div 2 + c * (m \div 2), cf |-> a % 2,
                      of |-> XorBit(Sign(a, m), c)]
    [] id = "rcl" -> LET r == (2 * a + c) % m IN
         [r |-> r, cf |-> Sign(a, m), of |-> XorBit(Sign(a, m), Sign(r, m))]

Arithmetic(x, cpu) ==
  LET o == x.ops[1]
      m == Modulus[Width(o)]
      b == IF x.id = "neg" THEN 0 ELSE Source(x.ops[2], Width(o), cpu)
      res == Computed(x.id, Source(o, Width(o), cpu), b, m, cpu.cf)
      flagged == [cpu EXCEPT !.cf = res.cf, !.of = res.of]
      ranked == IF x.id \in {"rcr", "rcl"} THEN flagged
                ELSE [flagged EXCEPT !.zf = IF res.r = 0 THEN 1 ELSE 0,
                                     !.sf = Sign(res.r, m)]
  IN WriteBack(o, res.r, ranked)

\* The flags as pushfq stores them and popfq loads them: a word of four bits.
FlagsWord(cpu) == (cpu.cf + 2 * cpu.zf + 4 * cpu.sf + 8 * cpu.of) % Modulus[64]

FlagsSpan == 16    \* the words four bits tell apart

WithFlags(v, cpu) ==
  [cpu EXCEPT !.cf = v % 2, !.zf = (v \div 2) % 2, !.sf = (v \div 4) % 2,
              !.of = (v \div 8) % 2]

MoveRsp(d, cpu) == [cpu EXCEPT !.gpr["RSP"] = (@ + d) % Modulus[64]]

Pushed(v, cpu) ==
  LET moved == MoveRsp(-Slot, cpu)
  IN [moved EXCEPT !.mem[moved.gpr["RSP"]] = v]

Top(cpu) == cpu.mem[cpu.gpr["RSP"]]

Taken(id, cpu) ==
  CASE id = "jmp" -> TRUE
    [] id = "je"  -> cpu.zf = 1
    [] id = "jne" -> cpu.zf = 0
    [] id = "jl"  -> cpu.sf # cpu.of
    [] id = "jge" -> cpu.sf = cpu.of
    [] id = "jle" -> cpu.zf = 1 \/ cpu.sf # cpu.of
    [] id = "jg"  -> cpu.zf = 0 /\ cpu.sf = cpu.of

JumpIds == CondJumpIds \cup {"jmp"}

\* One instruction; a jump that is taken leaves the block, and what follows it
\* in the block is not executed.
Execute(x, cpu) ==
  CASE x.id \in MovIds -> WriteBack(x.ops[1], Source(x.ops[2], Width(x.ops[1]), cpu), cpu)
    [] x.id = "lea" -> WriteBack(x.ops[1], Low(EffectiveAddress(x.ops[2], cpu),
                                               Width(x.ops[1])), cpu)
    [] x.id \in BinaryIds \cup {"neg"} -> Arithmetic(x, cpu)
    [] x.id = "not" -> LET w == Width(x.ops[1])
                       IN WriteBack(x.ops[1], Modulus[w] - 1 - Source(x.ops[1], w, cpu), cpu)
    [] x.id = "push" -> Pushed(Source(x.ops[1], 64, cpu), cpu)
    [] x.id = "pop" -> WriteBack(x.ops[1], Top(cpu), MoveRsp(Slot, cpu))
    [] x.id = "pushfq" -> Pushed(FlagsWord(cpu), cpu)
    [] x.id = "popfq" -> WithFlags(Top(cpu), MoveRsp(Slot, cpu))
    [] x.id \in JumpIds -> IF Taken(x.id, cpu)
                           THEN [cpu EXCEPT !.exit = x.ops[1].imm % Modulus[64]] ELSE cpu
    [] x.id = "nop" -> cpu

Exec(x, cpu) == IF cpu.exit = FallsThrough THEN Execute(x, cpu) ELSE cpu

\* The state after each number of instructions, and after all of them.
States(code, cpu) ==
  LET state[n \in 0..Len(code)] == IF n = 0 THEN cpu ELSE Exec(code[n], state[n - 1])
  IN state

Run(code, cpu) == States(code, cpu)[Len(code)]
=============================================================================
