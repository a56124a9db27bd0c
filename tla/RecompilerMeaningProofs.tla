------------------------ MODULE RecompilerMeaningProofs ------------------------
(***************************************************************************)
(* The proof that the recompiled code means what the statements mean, for  *)
(* every stream, every word size and every processor state a block may be  *)
(* entered in.                                                             *)
(*                                                                         *)
(* What is compared at the cursor is not inductive by itself: a pushfq     *)
(* stores the flags the instructions before it have left, so the invariant *)
(* also says when RFLAGS of the environment is the flags of the processor. *)
(***************************************************************************)
EXTENDS RecompilerProofs, RecompilerMeaning, ExecutionProofs, SequenceTheorems

-----------------------------------------------------------------------------
(***************************************************************************)
(* Operands.                                                               *)
(***************************************************************************)
LEMMA SignedMeans ==
  ASSUME NEW n \in Word
  PROVE  Signed(n) \in Int /\ Signed(n) % Modulus[64] = n
<1>1. PICK M \in Nat \ {0} : M = Modulus[64]
  BY WidthFacts
<1>2. n \in 0..(M - 1) /\ n \in Int
  BY <1>1 DEF Word
<1>3. n % M = n
  BY <1>2, ModSmall
<1>4. (n - M * 1) % M = n % M
  BY <1>2, ModShift
<1>5. n - M = n - M * 1
  BY <1>2
<1> QED BY <1>1, <1>2, <1>3, <1>4, <1>5 DEF Signed

\* A value that has an operand mentions general purpose registers only.
LEMMA OperandReads ==
  ASSUME NEW v \in Value, HasOperand(v)
  PROVE  ReadsWithin(v, GPR)
<1>1. v.kind = "mem" => v \in MemoryValue
  BY DEF Value, RegValue, ImmValue
<1> QED BY <1>1 DEF Value, RegValue, ImmValue, MemoryValue, HasOperand, HasRegOperand,
                    ReadsWithin, ValueReads, OptReg, NullValue

\* A value with an operand that is the value: no displacement is truncated.
Exact(v) == HasOperand(v) /\ AddressFits(v)

\* The operand built for such a value is the register, immediate or address the
\* value is.
LEMMA OperandDenotes ==
  ASSUME NEW v \in Value, Exact(v)
  PROVE  Denotes(AsmOperand(v), v) /\ ReadsWithin(v, GPR)
<1>1. CASE v \in RegValue
  <2>1. v.kind = "reg" /\ v.reg \in GPR /\ v.width \in Widths
    BY <1>1 DEF RegValue, Exact, HasOperand, HasRegOperand
  <2>2. 8 * (v.width \div 8) = v.width
    BY <2>1 DEF Widths, Sizes
  <2>3. AsmOperand(v) = RegOp(X86Reg(v.reg), v.width \div 8)
    BY <2>1 DEF AsmOperand
  <2> QED BY <1>1, <2>1, <2>2, <2>3 DEF RegOp, X86Reg, Width, Denotes, ReadsWithin, ValueReads
<1>2. CASE v \in ImmValue
  <2>1. v.kind = "imm" /\ v.value \in Word
    BY <1>2 DEF ImmValue
  <2>2. Signed(v.value) \in Int /\ Signed(v.value) % Modulus[64] = v.value
    BY <2>1, SignedMeans
  <2> QED BY <1>2, <2>1, <2>2 DEF AsmOperand, ImmOp, Denotes, ReadsWithin, ValueReads
<1>3. CASE v \in MemoryValue
  <2>1. /\ v.kind = "mem" /\ v.base \in OptReg /\ v.index \in OptReg
        /\ HasRegOperand(v.base) /\ HasRegOperand(v.index)
        /\ Offset(v.displacement) = v.displacement
    BY <1>3, OffsetFacts DEF MemoryValue, Exact, HasOperand, AddressFits
  <2>2. NamesSame(GpOf(v.base), v.base) /\ NamesSame(GpOf(v.index), v.index)
    BY <2>1 DEF NamesSame, GpOf, HasRegOperand
  <2>3. AsmOperand(v) = MemOp(GpOf(v.base), GpOf(v.index), v.scale, v.displacement, v.size)
    BY <2>1 DEF AsmOperand
  <2>4. ReadsWithin(v, GPR)
    BY OperandReads DEF Exact
  <2> QED BY <1>3, <2>2, <2>3, <2>4 DEF MemOp, Denotes
<1> QED BY <1>1, <1>2, <1>3 DEF Value

\* Two values with one operand hold the same.
LEMMA SameOperandMeans ==
  ASSUME NEW G \in SUBSET GPR, NEW cpu, NEW env, Linked(G, cpu, env), NEW o,
         NEW a, Denotes(o, a), ReadsWithin(a, G),
         NEW b, Denotes(o, b), ReadsWithin(b, G), a.kind # "imm"
  PROVE  WidthOf(a) = WidthOf(b) /\ EvalValue(a, env) = EvalValue(b, env)
<1>1. b.kind # "imm" /\ WidthOf(a) = Width(o) /\ WidthOf(b) = Width(o) /\ WidthOf(a) \in Widths
  BY DenotesKinds
<1>2. Source(o, Width(o), cpu) = EvalValue(a, env)
  BY <1>1, SourceMeans DEF Fits
<1>3. Source(o, Width(o), cpu) = EvalValue(b, env)
  BY <1>1, SourceMeans DEF Fits
<1> QED BY <1>1, <1>2, <1>3

-----------------------------------------------------------------------------
(***************************************************************************)
(* At one width the assembler encodes what it is given.                    *)
(***************************************************************************)
LEMMA EncodedSame ==
  ASSUME NEW id, NEW d \in AsmOp, NEW s \in AsmOp,
         id \in ShiftIds \/ s.type = "imm" \/ (d.type # "imm" /\ Width(d) = Width(s))
  PROVE  LET x == Insn(id, <<d, s>>)
         IN Encodable(x) => Encoded(x) = x
<1> DEFINE x == Insn(id, <<d, s>>)
<1> SUFFICES ASSUME Encodable(x) PROVE Encoded(x) = x
  OBVIOUS
<1>1. Len(x.ops) = 2 /\ x.ops[1] = d /\ x.ops[2] = s /\ x.id = id /\ x.ops = <<d, s>>
  BY DEF Insn
<1>2. EncodableBinary(x)
  BY <1>1 DEF Encodable
<1>3. /\ d.type \in {"reg", "mem", "imm"} /\ s.type \in {"reg", "mem", "imm"}
      /\ d.type # "imm" => d.size \in Int /\ [d EXCEPT !.size = d.size] = d
      /\ s.type # "imm" => s.size \in Int /\ [s EXCEPT !.size = s.size] = s
  BY DEF AsmOp, Sizes
<1>4. d.type # "imm" /\ s.type # "imm" /\ Width(d) = Width(s) => d.size = s.size
  BY <1>3 DEF Width
<1>5. Insn(x.id, <<d, s>>) = x
  BY <1>1 DEF Insn
<1> HIDE DEF x
<1>6. CASE d.type = "mem" /\ s.type = "reg" /\ x.id \notin ShiftIds
  <2>1. Encoded(x) = Insn(x.id, <<[d EXCEPT !.size = s.size], s>>)
    BY <1>1, <1>6 DEF Encoded
  <2>2. s.size = d.size
    BY <1>1, <1>4, <1>6
  <2> QED BY <1>3, <1>5, <1>6, <2>1, <2>2
<1>7. CASE d.type = "reg" /\ s.type = "mem"
  <2>1. Encoded(x) = Insn(x.id, <<d, [s EXCEPT !.size = d.size]>>)
    BY <1>1, <1>7 DEF Encoded
  <2>2. x.id \notin ShiftIds
    BY <1>1, <1>2, <1>7 DEF EncodableBinary, RegOp
  <2>3. s.size = d.size
    BY <1>1, <1>4, <1>7, <2>2
  <2> QED BY <1>3, <1>5, <1>7, <2>1, <2>3
<1>8. CASE ~(d.type = "mem" /\ s.type = "reg" /\ x.id \notin ShiftIds)
           /\ ~(d.type = "reg" /\ s.type = "mem")
  BY <1>1, <1>8 DEF Encoded
<1> QED BY <1>6, <1>7, <1>8

\* What is emitted without an error, where encoding changes nothing.
LEMMA EmittedSame ==
  ASSUME NEW insns \in Seq(AsmInsn), Emitted(insns) # Throws,
         \A k \in DOMAIN insns : Encodable(insns[k]) => Encoded(insns[k]) = insns[k]
  PROVE  Emitted(insns) = insns /\ \A k \in DOMAIN insns : Encodable(insns[k])
<1>1. \A k \in DOMAIN insns : Encodable(insns[k])
  BY DEF Emitted
<1>2. Emitted(insns) = [k \in DOMAIN insns |-> Encoded(insns[k])]
  BY <1>1 DEF Emitted
<1>3. [k \in DOMAIN insns |-> Encoded(insns[k])] = [k \in DOMAIN insns |-> insns[k]]
  BY <1>1
<1>4. [k \in DOMAIN insns |-> insns[k]] = insns
  OBVIOUS
<1> QED BY <1>1, <1>2, <1>3, <1>4

-----------------------------------------------------------------------------
(***************************************************************************)
(* Statements.  What an emitter returns is compared with the statement it  *)
(* is for, from any linked pair of a processor and an environment.         *)
(***************************************************************************)
NoPopfq(insns) == \A k \in DOMAIN insns : insns[k].id # "popfq"

WritesFlags(insns) == \E k \in DOMAIN insns : insns[k].id \in FlagIds

\* The instructions take the processor where the statement takes the
\* environment, and no flag is written behind its back.
Carries(G, insns, cpu, env, after) ==
  /\ Linked(G, Run(insns, cpu), after)
  /\ KeepsSpecial(after, env)
  /\ NoPopfq(insns)
  /\ WritesFlags(insns) \/ SameFlags(Run(insns, cpu), cpu)

MovInsn(d, v) == Insn("mov", <<AsmOperand(d), AsmOperand(v)>>)

LEMMA MovInsnFacts ==
  ASSUME NEW d \in Value, Exact(d), d.kind # "imm", NEW v \in Value, Exact(v)
  PROVE  /\ MovInsn(d, v) \in AsmInsn
         /\ MovInsn(d, v).id = "mov"
         /\ MovInsn(d, v).ops[1] = AsmOperand(d) /\ MovInsn(d, v).ops[2] = AsmOperand(v)
         /\ Fits(v, WidthOf(d)) /\ Encodable(MovInsn(d, v)) => Encoded(MovInsn(d, v)) = MovInsn(d, v)
<1>1. AsmOperand(d) \in AsmOp /\ AsmOperand(v) \in AsmOp /\ "mov" \in AsmIds
  BY OperandType DEF AsmIds, Exact
<1>2. Denotes(AsmOperand(d), d) /\ Denotes(AsmOperand(v), v)
  BY OperandDenotes
<1>3. Fits(v, WidthOf(d)) => \/ AsmOperand(v).type = "imm"
                             \/ /\ AsmOperand(d).type # "imm"
                                /\ Width(AsmOperand(d)) = Width(AsmOperand(v))
  BY <1>2, DenotesKinds DEF Fits
<1>4. MovInsn(d, v) \in AsmInsn
  BY <1>1, BuiltInsns DEF MovInsn
<1>5. Fits(v, WidthOf(d)) /\ Encodable(MovInsn(d, v)) => Encoded(MovInsn(d, v)) = MovInsn(d, v)
  BY <1>1, <1>3, EncodedSame DEF MovInsn
<1>6. /\ MovInsn(d, v).id = "mov"
      /\ MovInsn(d, v).ops[1] = AsmOperand(d) /\ MovInsn(d, v).ops[2] = AsmOperand(v)
  BY DEF MovInsn, Insn
<1> QED BY <1>4, <1>5, <1>6

\* The reads of a value that has an operand, seen from the registers compared.
Visible(v, G) == \A u \in ValueReads(v) : u.reg \in GPR => u.reg \in G

LEMMA VisibleReads ==
  ASSUME NEW G, NEW v \in Value, HasOperand(v), Visible(v, G)
  PROVE  ReadsWithin(v, G)
BY OperandReads DEF Visible, ReadsWithin

LEMMA ValueMeans ==
  ASSUME NEW G \in SUBSET GPR, NEW cpu, NEW env, Linked(G, cpu, env),
         NEW d \in Value, Exact(d), d.kind # "imm", d.kind = "mem" => Visible(d, G),
         NEW v \in Value, Exact(v), Visible(v, G), Fits(v, WidthOf(d)),
         NEW insns, insns = Emitted(<<MovInsn(d, v)>>), insns # Throws
  PROVE  Carries(G, insns, cpu, env, Written(d, EvalValue(v, env), env))
<1> DEFINE x == MovInsn(d, v)
           e == Written(d, EvalValue(v, env), env)
<1>1. x \in AsmInsn /\ x.id = "mov" /\ x.ops[1] = AsmOperand(d) /\ x.ops[2] = AsmOperand(v)
      /\ (Encodable(x) => Encoded(x) = x)
  BY MovInsnFacts
<1> HIDE DEF x
<1>2. insns = <<x>>
  <2>1. <<x>> \in Seq(AsmInsn)
    BY <1>1
  <2>2. \A k \in DOMAIN <<x>> : Encodable(<<x>>[k]) => Encoded(<<x>>[k]) = <<x>>[k]
    BY <1>1
  <2> QED BY <2>1, <2>2, EmittedSame DEF x
<1>3. Denotes(x.ops[1], d) /\ Denotes(x.ops[2], v) /\ ReadsWithin(v, G)
      /\ (d.kind = "mem" => ReadsWithin(d, G))
  BY <1>1, OperandDenotes, VisibleReads DEF Exact
<1>4. x.id \in MovIds
  BY <1>1 DEF MovIds
<1>5. LET c == Exec(x, cpu)
          f == Written(d, EvalValue(v, env), env)
      IN /\ Linked(G, c, f)
         /\ SameFlags(c, cpu) /\ KeepsSpecial(f, env)
         /\ d.kind = "reg" /\ d.width = 64 => Linked(G \cup {d.reg}, c, f)
  BY <1>3, <1>4, MovMeans
<1>6. Run(insns, cpu) = Exec(x, cpu)
  BY <1>2, RunShort
<1>7. NoPopfq(insns)
  BY <1>1, <1>2 DEF NoPopfq
<1> QED BY <1>5, <1>6, <1>7 DEF Carries

-----------------------------------------------------------------------------
(***************************************************************************)
(* Operations.  Where the destination is a register that is not compared,  *)
(* its value before does not matter either.                                *)
(***************************************************************************)
LEMMA WriteOutside ==
  ASSUME NEW G \in SUBSET GPR, NEW cpu, NEW env \in Env, NEW d \in RegValue, d.reg \in GPR \ G,
         NEW q \in Word, NEW x \in Int, NEW y \in Int,
         Linked(G, cpu, Written(d, y, [env EXCEPT !.reg[d.reg] = q]))
  PROVE  Linked(G, cpu, Written(d, x, env)) /\ KeepsSpecial(Written(d, x, env), env)
<1> DEFINE f == [env EXCEPT !.reg[d.reg] = q]
           e == Written(d, x, env)
           g == Written(d, y, f)
           n == Held(d.reg, WrittenReg(env.reg[d.reg], Low(x, d.width), d.width))
           m == Held(d.reg, WrittenReg(f.reg[d.reg], Low(y, d.width), d.width))
<1>1. d.reg \in Reg
  BY GprIsReg
<1>2. f \in Env
  BY <1>1 DEF Env
<1>3. e = [env EXCEPT !.reg[d.reg] = n] /\ e \in Env
  BY WrittenToReg
<1>4. g = [f EXCEPT !.reg[d.reg] = m] /\ g \in Env
  BY <1>2, WrittenToReg
<1> HIDE DEF n, m
<1>5. f.mem = env.mem /\ \A r \in Reg \ {d.reg} : f.reg[r] = env.reg[r]
  BY DEF Env
<1> HIDE DEF f, e, g
<1>6. e.mem = env.mem /\ \A r \in Reg \ {d.reg} : e.reg[r] = env.reg[r]
  BY <1>3 DEF Env
<1>7. g.mem = f.mem /\ \A r \in Reg \ {d.reg} : g.reg[r] = f.reg[r]
  BY <1>2, <1>4 DEF Env
<1>8. Linked(G, cpu, g)
  BY DEF g, f
<1>9. G \subseteq Reg \ {d.reg}
  BY GprIsReg
<1>10. e.mem = g.mem /\ \A r \in G : e.reg[r] = g.reg[r]
  BY <1>5, <1>6, <1>7, <1>9
<1>11. Linked(G, cpu, e)
  BY <1>3, <1>8, <1>10 DEF Linked
<1>12. KeepsSpecial(e, env)
  BY <1>6 DEF KeepsSpecial
<1> QED BY <1>11, <1>12 DEF e

\* The processor's own value put into the environment.
LEMMA LinkOneMore ==
  ASSUME NEW G \in SUBSET GPR, NEW cpu, NEW env, Linked(G, cpu, env), NEW r \in GPR
  PROVE  /\ cpu.gpr[r] \in Word
         /\ Linked(G \cup {r}, cpu, [env EXCEPT !.reg[r] = cpu.gpr[r]])
<1> DEFINE q == cpu.gpr[r]
           f == [env EXCEPT !.reg[r] = q]
<1>1. q \in Word /\ r \in Reg /\ env \in Env
  BY GprIsReg DEF Linked, Machine
<1> HIDE DEF q
<1>2. f \in Env /\ f.mem = env.mem /\ \A s \in Reg : f.reg[s] = IF s = r THEN q ELSE env.reg[s]
  BY <1>1 DEF Env
<1> HIDE DEF f
<1>3. G \subseteq Reg
  BY GprIsReg
<1>4. Linked(G \cup {r}, cpu, f)
  BY <1>1, <1>2, <1>3 DEF Linked, q
<1> QED BY <1>1, <1>4 DEF f, q

LEMMA EvalBinaryType ==
  ASSUME NEW env \in Env, NEW l \in Value, NEW r \in Value, NEW op \in {"Add", "Sub", "BitXor", "Shr"}
  PROVE  EvalBinary(op, EvalValue(l, env), EvalValue(r, env), Modulus[WidthOf(l)]) \in Int
<1> DEFINE w == WidthOf(l)
           a == EvalValue(l, env)
           b == EvalValue(r, env)
<1>1. w \in Widths /\ a \in 0..(Modulus[w] - 1)
  BY ValueFitsWidth
<1>2. b \in Int
  <2>1. WidthOf(r) \in Widths /\ b \in 0..(Modulus[WidthOf(r)] - 1)
    BY ValueFitsWidth
  <2> QED BY <2>1, WidthInWord, WordIsLow
<1> HIDE DEF w, a, b
<1>3. PICK id : <<id, op>> \in Computing
  BY DEF Computing
<1> DEFINE s == Low(b, w)
           y == EvalBinary(op, a, b, Modulus[w])
<1>4. y \in 0..(Modulus[w] - 1)
  BY <1>1, <1>2, <1>3, ComputedMeans
<1> HIDE DEF y
<1>5. y \in Int
  BY <1>1, <1>4, WidthInWord, WordIsLow
<1> QED BY <1>5 DEF y, a, b, w

LEMMA EvalUnaryType ==
  ASSUME NEW env \in Env, NEW l \in Value, NEW op \in UnaryOps
  PROVE  EvalUnary(op, EvalValue(l, env), Modulus[WidthOf(l)]) \in Int
<1> DEFINE a == EvalValue(l, env)
<1>1. PICK m \in Nat \ {0} : m = Modulus[WidthOf(l)]
  BY ValueFitsWidth, WidthFacts
<1>2. a \in 0..(m - 1)
  BY <1>1, ValueFitsWidth
<1> HIDE DEF a
<1>3. EvalUnary(op, a, m) \in Int
  BY <1>2 DEF EvalUnary, UnaryOps
<1> QED BY <1>1, <1>3 DEF a

\* An operation in place.
LEMMA ComputeMeans ==
  ASSUME NEW G \in SUBSET GPR, NEW cpu, NEW env, Linked(G, cpu, env),
         NEW op \in {"Add", "Sub", "BitXor", "Shr"}, NEW x, <<x.id, op>> \in Computing,
         NEW d, Denotes(x.ops[1], d), d.kind # "imm", d.kind = "mem" => ReadsWithin(d, G),
         NEW v \in Value,
         op # "Shr" => Denotes(x.ops[2], v) /\ ReadsWithin(v, G) /\ Fits(v, WidthOf(d))
  PROVE  LET c == Exec(x, cpu)
             e == Written(d, EvalBinary(op, EvalValue(d, env), EvalValue(v, env),
                                        Modulus[WidthOf(d)]), env)
         IN Linked(G, c, e) /\ KeepsSpecial(e, env)
<1>1. d \in Value /\ env \in Env
  BY DenotesKinds DEF Linked
<1>2. CASE ReadsWithin(d, G)
  <2>1. LET c == Exec(x, cpu)
            e == Written(d, EvalBinary(op, EvalValue(d, env), EvalValue(v, env),
                                       Modulus[WidthOf(d)]), env)
        IN /\ Linked(G, c, e) /\ KeepsSpecial(e, env)
           /\ d.kind = "reg" /\ d.width = 64 => Linked(G \cup {d.reg}, c, e)
    BY <1>2, BinaryMeans
  <2> QED BY <2>1
<1>3. CASE ~ReadsWithin(d, G)
  <2>1. d.kind = "reg" /\ d \in RegValue /\ d.reg \in GPR /\ d.reg \notin G
    BY <1>3, DenotesKinds DEF ReadsWithin, ValueReads
  <2> DEFINE H == G \cup {d.reg}
             f == [env EXCEPT !.reg[d.reg] = cpu.gpr[d.reg]]
             y == EvalBinary(op, EvalValue(d, f), EvalValue(v, f), Modulus[WidthOf(d)])
  <2>2. cpu.gpr[d.reg] \in Word /\ Linked(H, cpu, f)
    BY <2>1, LinkOneMore
  <2>3. H \in SUBSET GPR /\ ReadsWithin(d, H)
        /\ (op # "Shr" => Denotes(x.ops[2], v) /\ ReadsWithin(v, H) /\ Fits(v, WidthOf(d)))
    BY <2>1 DEF ReadsWithin, ValueReads
  <2> HIDE DEF f, H
  <2>4. LET c == Exec(x, cpu)
            e == Written(d, EvalBinary(op, EvalValue(d, f), EvalValue(v, f),
                                       Modulus[WidthOf(d)]), f)
        IN /\ Linked(H, c, e) /\ KeepsSpecial(e, f)
           /\ d.kind = "reg" /\ d.width = 64 => Linked(H \cup {d.reg}, c, e)
    BY <2>2, <2>3, BinaryMeans, ZenonT(60)
  <2>5. f \in Env /\ y \in Int
    BY <1>1, <2>2, EvalBinaryType DEF Linked
  <2>6. Linked(G, Exec(x, cpu), Written(d, y, f))
    BY <2>4 DEF Linked, H
  <2> DEFINE z == EvalBinary(op, EvalValue(d, env), EvalValue(v, env), Modulus[WidthOf(d)])
  <2>7. z \in Int
    BY <1>1, EvalBinaryType
  <2> HIDE DEF y, z
  <2>8. Linked(G, Exec(x, cpu), Written(d, z, env)) /\ KeepsSpecial(Written(d, z, env), env)
    BY <1>1, <2>1, <2>2, <2>5, <2>6, <2>7, WriteOutside DEF f
  <2> QED BY <2>8 DEF z
<1> QED BY <1>2, <1>3

LEMMA ComplementMeans ==
  ASSUME NEW G \in SUBSET GPR, NEW cpu, NEW env, Linked(G, cpu, env),
         NEW op \in UnaryOps, NEW x, x.id = UnaryId(op),
         NEW d, Denotes(x.ops[1], d), d.kind # "imm", d.kind = "mem" => ReadsWithin(d, G)
  PROVE  LET c == Exec(x, cpu)
             e == Written(d, EvalUnary(op, EvalValue(d, env), Modulus[WidthOf(d)]), env)
         IN /\ Linked(G, c, e) /\ KeepsSpecial(e, env)
            /\ op = "LogicalNot" => SameFlags(c, cpu)
<1>1. d \in Value /\ env \in Env
  BY DenotesKinds DEF Linked
<1>2. CASE ReadsWithin(d, G)
  BY <1>2, UnaryMeans
<1>3. CASE ~ReadsWithin(d, G)
  <2>1. d.kind = "reg" /\ d \in RegValue /\ d.reg \in GPR /\ d.reg \notin G
    BY <1>3, DenotesKinds DEF ReadsWithin, ValueReads
  <2> DEFINE H == G \cup {d.reg}
             f == [env EXCEPT !.reg[d.reg] = cpu.gpr[d.reg]]
             y == EvalUnary(op, EvalValue(d, f), Modulus[WidthOf(d)])
  <2>2. cpu.gpr[d.reg] \in Word /\ Linked(H, cpu, f)
    BY <2>1, LinkOneMore
  <2>3. H \in SUBSET GPR /\ ReadsWithin(d, H)
    BY <2>1 DEF ReadsWithin, ValueReads
  <2> HIDE DEF f, H
  <2>4. LET c == Exec(x, cpu)
            e == Written(d, EvalUnary(op, EvalValue(d, f), Modulus[WidthOf(d)]), f)
        IN /\ Linked(H, c, e) /\ KeepsSpecial(e, f)
           /\ op = "LogicalNot" => SameFlags(c, cpu)
    BY <2>2, <2>3, UnaryMeans
  <2>5. f \in Env /\ y \in Int
    BY <1>1, <2>2, EvalUnaryType DEF Linked
  <2>6. Linked(G, Exec(x, cpu), Written(d, y, f)) /\ (op = "LogicalNot" => SameFlags(Exec(x, cpu), cpu))
    BY <2>4 DEF Linked, H
  <2> DEFINE z == EvalUnary(op, EvalValue(d, env), Modulus[WidthOf(d)])
  <2>7. z \in Int
    BY <1>1, EvalUnaryType
  <2> HIDE DEF y, z
  <2>8. Linked(G, Exec(x, cpu), Written(d, z, env)) /\ KeepsSpecial(Written(d, z, env), env)
    BY <1>1, <2>1, <2>2, <2>5, <2>6, <2>7, WriteOutside DEF f
  <2> QED BY <2>6, <2>8 DEF z
<1> QED BY <1>2, <1>3


-----------------------------------------------------------------------------
(***************************************************************************)
(* EmitBinaryReg and EmitUnary: the left operand is moved into the         *)
(* destination unless they have one operand.                               *)
(***************************************************************************)
DataOps == {"Add", "Sub", "BitXor", "Shr"}

BinInsn(op, d, r) == Insn(InstOf(op), <<AsmOperand(d), AsmOperand(r)>>)

LEMMA BinInsnFacts ==
  ASSUME NEW op \in DataOps,
         NEW d \in Value, Exact(d), NEW r \in Value, Exact(r),
         op = "Shr" \/ (d.kind # "imm" /\ Fits(r, WidthOf(d)))
  PROVE  LET x == BinInsn(op, d, r)
         IN /\ x \in AsmInsn
            /\ <<x.id, op>> \in Computing /\ x.id # "popfq" /\ x.id \in FlagIds
            /\ x.ops[1] = AsmOperand(d) /\ x.ops[2] = AsmOperand(r)
            /\ Encodable(x) => /\ Encoded(x) = x
                               /\ d.kind # "imm" /\ ~(d.kind = "mem" /\ r.kind = "mem")
<1> DEFINE x == BinInsn(op, d, r)
<1>1. AsmOperand(d) \in AsmOp /\ AsmOperand(r) \in AsmOp
  BY OperandType DEF Exact
<1>2. Denotes(AsmOperand(d), d) /\ Denotes(AsmOperand(r), r)
  BY OperandDenotes
<1>3. /\ <<InstOf(op), op>> \in Computing /\ InstOf(op) # "popfq" /\ InstOf(op) \in FlagIds
      /\ InstOf(op) \in AsmIds /\ (op = "Shr" => InstOf(op) \in ShiftIds)
  BY DEF DataOps, InstOf, Computing, FlagIds, AsmIds, BinaryIds, ShiftIds
<1>4. x \in AsmInsn
  BY <1>1, <1>3, BuiltInsns DEF BinInsn
<1>5. x.id = InstOf(op) /\ x.ops[1] = AsmOperand(d) /\ x.ops[2] = AsmOperand(r) /\ Len(x.ops) = 2
  BY DEF BinInsn, Insn
<1>6. \/ InstOf(op) \in ShiftIds \/ AsmOperand(r).type = "imm"
      \/ AsmOperand(d).type # "imm" /\ Width(AsmOperand(d)) = Width(AsmOperand(r))
  BY <1>2, <1>3, DenotesKinds DEF Fits
<1>7. Encodable(x) => Encoded(x) = x
  BY <1>1, <1>6, EncodedSame DEF BinInsn
<1>8. Encodable(x) => d.kind # "imm" /\ ~(d.kind = "mem" /\ r.kind = "mem")
  BY <1>2, <1>5, DenotesKinds DEF Encodable, EncodableBinary
<1> HIDE DEF x
<1> QED BY <1>3, <1>4, <1>5, <1>7, <1>8 DEF x

\* One and two instructions that are emitted without an error.
LEMMA EmittedOne ==
  ASSUME NEW x \in AsmInsn, Encodable(x) => Encoded(x) = x,
         NEW insns, insns = Emitted(<<x>>), insns # Throws
  PROVE  insns = <<x>> /\ Encodable(x)
<1>1. <<x>> \in Seq(AsmInsn) /\ DOMAIN <<x>> = {1} /\ <<x>>[1] = x
  OBVIOUS
<1> QED BY <1>1, EmittedSame

LEMMA OneThenOne == \A a, b : <<a>> \o <<b>> = <<a, b>>
<1> SUFFICES ASSUME NEW a, NEW b PROVE <<a>> \o <<b>> = <<a, b>>
  OBVIOUS
<1> DEFINE S == {a, b}
           p == <<a>>
           q == <<b>>
           r == <<a, b>>
<1>1. /\ p \in Seq(S) /\ Len(p) = 1 /\ p[1] = a
      /\ q \in Seq(S) /\ Len(q) = 1 /\ q[1] = b
      /\ r \in Seq(S) /\ Len(r) = 2 /\ r[1] = a /\ r[2] = b
  OBVIOUS
<1> HIDE DEF p, q, r, S
<1>2. /\ p \o q \in Seq(S) /\ Len(p \o q) = Len(p) + Len(q)
      /\ \A k \in 1..(Len(p) + Len(q)) : (p \o q)[k] = IF k <= Len(p) THEN p[k] ELSE q[k - Len(p)]
  BY <1>1, ConcatProperties
<1>3. Len(p \o q) = Len(r) /\ \A k \in 1..Len(p \o q) : (p \o q)[k] = r[k]
  BY <1>1, <1>2
<1>4. p \o q = r
  BY <1>1, <1>2, <1>3, SeqEqual
<1> QED BY <1>4 DEF p, q, r

LEMMA EmittedTwo ==
  ASSUME NEW x \in AsmInsn, NEW y \in AsmInsn,
         Encodable(x) => Encoded(x) = x, Encodable(y) => Encoded(y) = y,
         NEW insns, insns = Emitted(<<x, y>>), insns # Throws
  PROVE  insns = <<x, y>> /\ Encodable(x) /\ Encodable(y)
<1> DEFINE s == <<x, y>>
<1>1. s \in Seq(AsmInsn) /\ DOMAIN s = {1, 2} /\ s[1] = x /\ s[2] = y
  OBVIOUS
<1> HIDE DEF s
<1>2. Emitted(s) = s /\ \A k \in DOMAIN s : Encodable(s[k])
  BY <1>1, EmittedSame DEF s
<1> QED BY <1>1, <1>2 DEF s

\* One operand for two places means one place.
LEMMA OneOperand ==
  ASSUME NEW G \in SUBSET GPR, NEW cpu, NEW env, Linked(G, cpu, env),
         NEW d \in Value, Exact(d), d.kind # "imm", d.kind = "mem" => Visible(d, G),
         NEW l \in Value, Exact(l), Visible(l, G), AsmOperand(d) = AsmOperand(l)
  PROVE  EvalValue(d, env) = EvalValue(l, env)
<1>1. /\ Denotes(AsmOperand(d), d) /\ Denotes(AsmOperand(d), l) /\ ReadsWithin(l, G)
      /\ (d.kind = "mem" => ReadsWithin(d, G))
  BY OperandDenotes, VisibleReads DEF Exact
<1>2. d.kind = l.kind /\ d.kind \in {"reg", "mem"}
  BY <1>1, DenotesKinds
<1>3. ReadsWithin(d, G)
  BY <1>1, <1>2, DenotesKinds DEF ReadsWithin, ValueReads
<1> QED BY <1>1, <1>3, SameOperandMeans


\* An operand moved into the destination: what follows sees it there and
\* every other value as before.
LEMMA MovedFirst ==
  ASSUME NEW G \in SUBSET GPR, NEW cpu, NEW env, Linked(G, cpu, env),
         NEW d \in Value, Exact(d), d.kind # "imm", d.kind = "mem" => Visible(d, G),
         NEW l \in Value, Exact(l), Visible(l, G), Fits(l, WidthOf(d)), WidthOf(l) = WidthOf(d)
  PROVE  LET c == Exec(MovInsn(d, l), cpu)
             f == Written(d, EvalValue(l, env), env)
         IN /\ Linked(G, c, f) /\ SameFlags(c, cpu) /\ KeepsSpecial(f, env)
            /\ EvalValue(d, f) = EvalValue(l, env)
            /\ \A y \in Int : Written(d, y, f) = Written(d, y, env)
            /\ \A r \in Value : /\ d.kind = "reg" => \A u \in ValueReads(r) : u.reg # d.reg
                                /\ d.kind = "mem" => r.kind # "mem"
                                => EvalValue(r, f) = EvalValue(r, env)
<1> DEFINE x == MovInsn(d, l)
           a == EvalValue(l, env)
           f == Written(d, a, env)
<1>1. x.id = "mov" /\ x.ops[1] = AsmOperand(d) /\ x.ops[2] = AsmOperand(l)
  BY MovInsnFacts
<1>2. Denotes(x.ops[1], d) /\ Denotes(x.ops[2], l) /\ ReadsWithin(l, G)
      /\ (d.kind = "mem" => ReadsWithin(d, G)) /\ x.id \in MovIds
  BY <1>1, OperandDenotes, VisibleReads DEF Exact, MovIds
<1> HIDE DEF x
<1>3. LET c == Exec(x, cpu)
          g == Written(d, EvalValue(l, env), env)
      IN /\ Linked(G, c, g)
         /\ SameFlags(c, cpu) /\ KeepsSpecial(g, env)
         /\ d.kind = "reg" /\ d.width = 64 => Linked(G \cup {d.reg}, c, g)
  BY <1>2, MovMeans
<1>4. env \in Env /\ (d.kind = "reg" => d.reg \in GPR)
  BY <1>2, DenotesKinds DEF Linked
<1>5. a \in 0..(Modulus[WidthOf(d)] - 1) /\ WidthOf(d) \in Widths
  BY <1>4, ValueFitsWidth
<1>6. a \in Int /\ Low(a, WidthOf(d)) = a
  BY <1>5, LowSmall
<1> HIDE DEF a
<1>7. EvalValue(d, f) = a /\ \A y \in Int : Written(d, y, f) = Written(d, y, env)
  BY <1>4, <1>6, WrittenReadsBack
<1>8. \A r \in Value : /\ d.kind = "reg" => \A u \in ValueReads(r) : u.reg # d.reg
                       /\ d.kind = "mem" => r.kind # "mem"
                       => EvalValue(r, f) = EvalValue(r, env)
  BY <1>4, <1>6, WrittenKeeps
<1> QED BY <1>3, <1>7, <1>8 DEF a, x

LEMMA BinaryRegMeans ==
  ASSUME NEW G \in SUBSET GPR, NEW cpu, NEW env, Linked(G, cpu, env), NEW op \in DataOps,
         NEW d \in Value, Exact(d), d.kind # "imm", d.kind = "mem" => Visible(d, G),
         NEW l \in Value, Exact(l), Visible(l, G), WidthOf(l) = WidthOf(d),
         NEW r \in Value, Exact(r), Visible(r, G), op = "Shr" \/ Fits(r, WidthOf(d)),
         d.kind = "reg" /\ AsmOperand(d) # AsmOperand(l) => \A u \in ValueReads(r) : u.reg # d.reg,
         NEW insns, insns = EmitBinaryReg(op, AsmOperand(d), AsmOperand(l), AsmOperand(r)),
         insns # Throws
  PROVE  Carries(G, insns, cpu, env,
                 Written(d, EvalBinary(op, EvalValue(l, env), EvalValue(r, env),
                                       Modulus[WidthOf(l)]), env))
<1> DEFINE x == BinInsn(op, d, r)
           y == EvalBinary(op, EvalValue(l, env), EvalValue(r, env), Modulus[WidthOf(d)])
           e == Written(d, y, env)
<1>1. /\ x \in AsmInsn
      /\ <<x.id, op>> \in Computing /\ x.id # "popfq" /\ x.id \in FlagIds
      /\ x.ops[1] = AsmOperand(d) /\ x.ops[2] = AsmOperand(r)
      /\ Encodable(x) => Encoded(x) = x /\ ~(d.kind = "mem" /\ r.kind = "mem")
  BY BinInsnFacts
<1>2. /\ Denotes(x.ops[1], d) /\ (d.kind = "mem" => ReadsWithin(d, G))
      /\ (op # "Shr" => Denotes(x.ops[2], r) /\ ReadsWithin(r, G) /\ Fits(r, WidthOf(d)))
  BY <1>1, OperandDenotes, VisibleReads DEF Exact
<1>3. insns = Emitted(MoveUnlessSame(AsmOperand(d), AsmOperand(l)) \o <<x>>)
  BY DEF EmitBinaryReg, BinInsn
<1> HIDE DEF x
<1>4. CASE AsmOperand(d) = AsmOperand(l)
  <2>1. insns = Emitted(<<x>>)
    BY <1>3, <1>4 DEF MoveUnlessSame
  <2>2. insns = <<x>>
    BY <1>1, <2>1, EmittedOne
  <2>3. EvalValue(d, env) = EvalValue(l, env)
    BY <1>4, OneOperand
  <2>4. LET c == Exec(x, cpu)
            g == Written(d, EvalBinary(op, EvalValue(d, env), EvalValue(r, env),
                                       Modulus[WidthOf(d)]), env)
        IN Linked(G, c, g) /\ KeepsSpecial(g, env)
    BY <1>1, <1>2, ComputeMeans DEF DataOps
  <2>5. Linked(G, Exec(x, cpu), e) /\ KeepsSpecial(e, env)
    BY <2>3, <2>4
  <2>6. Run(insns, cpu) = Exec(x, cpu)
    BY <2>2, RunShort
  <2>7. NoPopfq(insns) /\ WritesFlags(insns)
    BY <1>1, <2>2 DEF NoPopfq, WritesFlags
  <2> QED BY <2>5, <2>6, <2>7 DEF Carries
<1>5. CASE AsmOperand(d) # AsmOperand(l)
  <2> DEFINE m == MovInsn(d, l)
             f == Written(d, EvalValue(l, env), env)
             b == Exec(m, cpu)
  <2>1. insns = Emitted(<<m, x>>)
    <3>1. MoveUnlessSame(AsmOperand(d), AsmOperand(l)) = <<m>>
      BY <1>5 DEF MoveUnlessSame, MovInsn
    <3>2. <<m>> \o <<x>> = <<m, x>>
      BY OneThenOne
    <3> QED BY <1>3, <3>1, <3>2, Zenon
  <2>2. Fits(l, WidthOf(d))
    BY DEF Fits
  <2>3. m \in AsmInsn /\ m.id = "mov" /\ (Encodable(m) => Encoded(m) = m)
    BY <2>2, MovInsnFacts
  <2>4. /\ Linked(G, b, f) /\ SameFlags(b, cpu) /\ KeepsSpecial(f, env)
        /\ EvalValue(d, f) = EvalValue(l, env)
        /\ \A z \in Int : Written(d, z, f) = Written(d, z, env)
        /\ \A v \in Value : /\ d.kind = "reg" => \A u \in ValueReads(v) : u.reg # d.reg
                            /\ d.kind = "mem" => v.kind # "mem"
                            => EvalValue(v, f) = EvalValue(v, env)
    BY <2>2, MovedFirst
  <2> HIDE DEF m
  <2>5. insns = <<m, x>> /\ Encodable(x)
    BY <1>1, <2>1, <2>3, EmittedTwo
  <2>6. EvalValue(r, f) = EvalValue(r, env)
    BY <1>1, <1>5, <2>4, <2>5
  <2> HIDE DEF f, b
  <2>7. LET c == Exec(x, b)
            g == Written(d, EvalBinary(op, EvalValue(d, f), EvalValue(r, f),
                                       Modulus[WidthOf(d)]), f)
        IN Linked(G, c, g) /\ KeepsSpecial(g, f)
    BY <1>1, <1>2, <2>4, ComputeMeans DEF DataOps
  <2>8. EvalBinary(op, EvalValue(d, f), EvalValue(r, f), Modulus[WidthOf(d)]) = y
    BY <2>4, <2>6
  <2>9. y \in Int
    BY EvalBinaryType DEF Linked, DataOps
  <2> HIDE DEF y
  <2>10. Linked(G, Exec(x, b), e) /\ KeepsSpecial(e, f)
    BY <2>4, <2>7, <2>8, <2>9
  <2>11. KeepsSpecial(e, env)
    BY <2>4, <2>10 DEF KeepsSpecial
  <2>12. Run(insns, cpu) = Exec(x, b)
    BY <2>5, RunShort DEF b
  <2>13. NoPopfq(insns) /\ WritesFlags(insns)
    BY <1>1, <2>3, <2>5 DEF NoPopfq, WritesFlags
  <2> QED BY <2>10, <2>11, <2>12, <2>13 DEF Carries, y
<1> QED BY <1>4, <1>5


UnInsn(op, d) == Insn(UnaryInst(op), <<AsmOperand(d)>>)

LEMMA UnInsnFacts ==
  ASSUME NEW op \in UnaryOps, NEW d \in Value, Exact(d)
  PROVE  LET x == UnInsn(op, d)
         IN /\ x \in AsmInsn /\ Encoded(x) = x
            /\ x.id = UnaryId(op) /\ x.id # "popfq" /\ (op # "LogicalNot" => x.id \in FlagIds)
            /\ x.ops[1] = AsmOperand(d)
            /\ Encodable(x) => d.kind # "imm"
<1> DEFINE x == UnInsn(op, d)
<1>1. AsmOperand(d) \in AsmOp /\ Denotes(AsmOperand(d), d)
  BY OperandType, OperandDenotes DEF Exact
<1>2. UnaryInst(op) \in AsmIds /\ UnaryInst(op) \in {"not", "neg"} /\ UnaryInst(op) = UnaryId(op)
      /\ (op # "LogicalNot" => UnaryInst(op) = "neg")
  BY DEF UnaryOps, UnaryInst, UnaryId, AsmIds
<1>3. x \in AsmInsn
  BY <1>1, <1>2, BuiltInsns DEF UnInsn
<1>4. x.id = UnaryInst(op) /\ x.ops[1] = AsmOperand(d) /\ Len(x.ops) = 1
  BY DEF UnInsn, Insn
<1> HIDE DEF x
<1>5. Encoded(x) = x
  BY <1>4 DEF Encoded
<1>6. Encodable(x) => d.kind # "imm"
  BY <1>1, <1>2, <1>4, DenotesKinds DEF Encodable, EncodableUnary, CondJumpIds
<1>7. x.id # "popfq" /\ (op # "LogicalNot" => x.id \in FlagIds)
  BY <1>2, <1>4 DEF FlagIds
<1> QED BY <1>2, <1>3, <1>4, <1>5, <1>6, <1>7 DEF x

LEMMA UnaryRegMeans ==
  ASSUME NEW G \in SUBSET GPR, NEW cpu, NEW env, Linked(G, cpu, env), NEW op \in UnaryOps,
         NEW d \in Value, Exact(d), d.kind # "imm", d.kind = "mem" => Visible(d, G),
         NEW l \in Value, Exact(l), Visible(l, G), WidthOf(l) = WidthOf(d),
         NEW insns, insns = EmitUnary(UnaryInst(op), AsmOperand(d), AsmOperand(l)),
         insns # Throws
  PROVE  Carries(G, insns, cpu, env,
                 Written(d, EvalUnary(op, EvalValue(l, env), Modulus[WidthOf(l)]), env))
<1> DEFINE x == UnInsn(op, d)
           y == EvalUnary(op, EvalValue(l, env), Modulus[WidthOf(d)])
           e == Written(d, y, env)
<1>1. /\ x \in AsmInsn /\ Encoded(x) = x
      /\ x.id = UnaryId(op) /\ x.id # "popfq" /\ (op # "LogicalNot" => x.id \in FlagIds)
      /\ x.ops[1] = AsmOperand(d)
  BY UnInsnFacts
<1>2. Denotes(x.ops[1], d) /\ (d.kind = "mem" => ReadsWithin(d, G))
  BY <1>1, OperandDenotes, VisibleReads DEF Exact
<1>3. insns = Emitted(MoveUnlessSame(AsmOperand(d), AsmOperand(l)) \o <<x>>)
  BY DEF EmitUnary, UnInsn
<1> HIDE DEF x
<1>4. CASE AsmOperand(d) = AsmOperand(l)
  <2>1. insns = Emitted(<<x>>)
    BY <1>3, <1>4 DEF MoveUnlessSame
  <2>2. insns = <<x>>
    BY <1>1, <2>1, EmittedOne
  <2>3. EvalValue(d, env) = EvalValue(l, env)
    BY <1>4, OneOperand
  <2>4. LET c == Exec(x, cpu)
            g == Written(d, EvalUnary(op, EvalValue(d, env), Modulus[WidthOf(d)]), env)
        IN /\ Linked(G, c, g) /\ KeepsSpecial(g, env)
           /\ op = "LogicalNot" => SameFlags(c, cpu)
    BY <1>1, <1>2, ComplementMeans
  <2>5. /\ Linked(G, Exec(x, cpu), e) /\ KeepsSpecial(e, env)
        /\ op = "LogicalNot" => SameFlags(Exec(x, cpu), cpu)
    BY <2>3, <2>4
  <2>6. Run(insns, cpu) = Exec(x, cpu)
    BY <2>2, RunShort
  <2>7. NoPopfq(insns) /\ (op # "LogicalNot" => WritesFlags(insns))
    BY <1>1, <2>2 DEF NoPopfq, WritesFlags
  <2> QED BY <2>5, <2>6, <2>7 DEF Carries
<1>5. CASE AsmOperand(d) # AsmOperand(l)
  <2> DEFINE m == MovInsn(d, l)
             f == Written(d, EvalValue(l, env), env)
             b == Exec(m, cpu)
  <2>1. insns = Emitted(<<m, x>>)
    <3>1. MoveUnlessSame(AsmOperand(d), AsmOperand(l)) = <<m>>
      BY <1>5 DEF MoveUnlessSame, MovInsn
    <3>2. <<m>> \o <<x>> = <<m, x>>
      BY OneThenOne
    <3> QED BY <1>3, <3>1, <3>2, Zenon
  <2>2. Fits(l, WidthOf(d))
    BY DEF Fits
  <2>3. m \in AsmInsn /\ m.id = "mov" /\ (Encodable(m) => Encoded(m) = m)
    BY <2>2, MovInsnFacts
  <2>4. /\ Linked(G, b, f) /\ SameFlags(b, cpu) /\ KeepsSpecial(f, env)
        /\ EvalValue(d, f) = EvalValue(l, env)
        /\ \A z \in Int : Written(d, z, f) = Written(d, z, env)
    BY <2>2, MovedFirst
  <2> HIDE DEF m
  <2>5. insns = <<m, x>>
    BY <1>1, <2>1, <2>3, EmittedTwo
  <2> HIDE DEF f, b
  <2>6. LET c == Exec(x, b)
            g == Written(d, EvalUnary(op, EvalValue(d, f), Modulus[WidthOf(d)]), f)
        IN /\ Linked(G, c, g) /\ KeepsSpecial(g, f)
           /\ op = "LogicalNot" => SameFlags(c, b)
    BY <1>1, <1>2, <2>4, ComplementMeans
  <2>7. EvalUnary(op, EvalValue(d, f), Modulus[WidthOf(d)]) = y
    BY <2>4
  <2>8. y \in Int
    BY EvalUnaryType DEF Linked
  <2> HIDE DEF y
  <2>9. Linked(G, Exec(x, b), e) /\ KeepsSpecial(e, f) /\ (op = "LogicalNot" => SameFlags(Exec(x, b), b))
    BY <2>4, <2>6, <2>7, <2>8
  <2>10. KeepsSpecial(e, env) /\ (op = "LogicalNot" => SameFlags(Exec(x, b), cpu))
    BY <2>4, <2>9 DEF KeepsSpecial, SameFlags
  <2>11. Run(insns, cpu) = Exec(x, b)
    BY <2>5, RunShort DEF b
  <2>12. NoPopfq(insns) /\ (op # "LogicalNot" => WritesFlags(insns))
    BY <1>1, <2>3, <2>5 DEF NoPopfq, WritesFlags
  <2> QED BY <2>9, <2>10, <2>11, <2>12 DEF Carries, y
<1> QED BY <1>4, <1>5


-----------------------------------------------------------------------------
(***************************************************************************)
(* EmitBinaryMem: an operator stored to the cell it updates goes through   *)
(* RAX, which is then the only register that differs.                      *)
(***************************************************************************)
RaxV == RegV("RAX", 64)

LEMMA RaxFacts ==
  /\ RaxV \in RegValue /\ RaxV \in Value /\ Exact(RaxV) /\ AsmOperand(RaxV) = Rax64
  /\ RaxV.kind = "reg" /\ RaxV.reg = "RAX" /\ RaxV.width = 64 /\ WidthOf(RaxV) = 64
  /\ "RAX" \in GPR /\ ValueReads(RaxV) = {RaxV}
<1>1. "RAX" \in GPR /\ "RAX" \in Reg /\ 64 \in Widths /\ 64 \div 8 = 8 /\ -1 \in Int
  BY GprIsReg, GPRAssumption, WidthFacts
<1>2. RaxV \in RegValue /\ RaxV.kind = "reg" /\ RaxV.reg = "RAX" /\ RaxV.width = 64
  BY <1>1 DEF RaxV, RegV, RegValue
<1> QED BY <1>1, <1>2 DEF Value, Exact, HasOperand, HasRegOperand, AddressFits, AsmOperand,
                         Rax64, WidthOf, ValueReads

LEMMA EmittedThree ==
  ASSUME NEW x \in AsmInsn, NEW y \in AsmInsn, NEW z \in AsmInsn,
         Encodable(x) => Encoded(x) = x, Encodable(y) => Encoded(y) = y,
         Encodable(z) => Encoded(z) = z,
         NEW insns, insns = Emitted(<<x, y, z>>), insns # Throws
  PROVE  insns = <<x, y, z>>
<1> DEFINE s == <<x, y, z>>
<1>1. s \in Seq(AsmInsn) /\ DOMAIN s = {1, 2, 3} /\ s[1] = x /\ s[2] = y /\ s[3] = z
  OBVIOUS
<1> HIDE DEF s
<1>2. Emitted(s) = s
  BY <1>1, EmittedSame DEF s
<1> QED BY <1>1, <1>2 DEF s

\* Written to memory, an environment differs in that cell only, and a register
\* that the address does not mention is of no importance for it.
LEMMA WrittenPast ==
  ASSUME NEW env \in Env, NEW d \in RegValue, NEW a \in MemoryValue,
         \A u \in ValueReads(a) : u.reg # d.reg,
         NEW x \in Int, NEW y \in Int
  PROVE  LET f == Written(a, y, Written(d, x, env))
             e == Written(a, y, env)
         IN /\ e \in Env /\ f \in Env /\ e.mem = f.mem /\ e.reg = env.reg
            /\ \A r \in Reg \ {d.reg} : f.reg[r] = env.reg[r]
<1> DEFINE h == Held(d.reg, WrittenReg(env.reg[d.reg], Low(x, d.width), d.width))
           g == Written(d, x, env)
           k == Address(a, env)
           n == Narrowed(env.mem[k], Low(y, WidthOf(a)), WidthOf(a))
           f == Written(a, y, g)
           e == Written(a, y, env)
<1>1. g = [env EXCEPT !.reg[d.reg] = h] /\ g \in Env
  BY WrittenToReg
<1> HIDE DEF h, g
<1>2. g.mem = env.mem /\ \A r \in Reg \ {d.reg} : g.reg[r] = env.reg[r]
  BY <1>1 DEF Env
<1>3. Address(a, g) = k
  <2>1. \A u \in ValueReads(a) : u.reg \in Reg
    BY DEF MemoryValue, ValueReads, OptReg, RegValue
  <2>2. \A u \in ValueReads(a) : g.reg[u.reg] = env.reg[u.reg]
    BY <1>2, <2>1
  <2> QED BY <2>2, AddressDepends
<1>4. e = [env EXCEPT !.mem[k] = n] /\ e \in Env
  BY WrittenToMem
<1>5. f = [g EXCEPT !.mem[k] = n] /\ f \in Env
  <2>1. f = [g EXCEPT !.mem[Address(a, g)] =
               Narrowed(g.mem[Address(a, g)], Low(y, WidthOf(a)), WidthOf(a))] /\ f \in Env
    BY <1>1, WrittenToMem
  <2> QED BY <1>2, <1>3, <2>1
<1> HIDE DEF k, n, e, f
<1>6. e.mem = f.mem /\ e.reg = env.reg /\ f.reg = g.reg
  BY <1>1, <1>2, <1>4, <1>5 DEF Env
<1> QED BY <1>2, <1>4, <1>5, <1>6 DEF e, f, g


LEMMA BinaryMemMeans ==
  ASSUME NEW cpu, NEW env, Linked(GPR \ {"RAX"}, cpu, env), NEW op \in DataOps,
         NEW a \in MemoryValue, Exact(a), Visible(a, GPR \ {"RAX"}), a.size = 8,
         \A u \in ValueReads(a) : u.reg # "RAX",
         NEW r \in Value, Exact(r), Visible(r, GPR \ {"RAX"}), op = "Shr" \/ Fits(r, 64),
         \A u \in ValueReads(r) : u.reg # "RAX",
         NEW insns, insns = EmitBinaryMem(op, AsmOperand(a), AsmOperand(r)), insns # Throws
  PROVE  Carries(GPR \ {"RAX"}, insns, cpu, env,
                 Written(a, EvalBinary(op, EvalValue(a, env), EvalValue(r, env),
                                       Modulus[WidthOf(a)]), env))
<1> DEFINE G == GPR \ {"RAX"}
           d == RaxV
           load == MovInsn(d, a)
           x == BinInsn(op, d, r)
           back == MovInsn(a, d)
           y == EvalBinary(op, EvalValue(a, env), EvalValue(r, env), Modulus[64])
           f == Written(d, EvalValue(a, env), env)
           g == Written(d, y, env)
           z == EvalValue(d, g)
           e == Written(a, y, env)
<1> USE RaxFacts
<1>1. a \in Value /\ a.kind = "mem" /\ WidthOf(a) = 64 /\ env \in Env /\ G \in SUBSET GPR
      /\ G \cup {"RAX"} = GPR
  BY DEF Value, MemoryValue, WidthOf, Linked
<1>2. load \in AsmInsn /\ load.id = "mov" /\ (Encodable(load) => Encoded(load) = load)
      /\ load.ops[1] = AsmOperand(d) /\ load.ops[2] = AsmOperand(a)
  BY <1>1, MovInsnFacts DEF Fits
<1>3. back \in AsmInsn /\ back.id = "mov" /\ (Encodable(back) => Encoded(back) = back)
      /\ back.ops[1] = AsmOperand(a) /\ back.ops[2] = AsmOperand(d)
  BY <1>1, MovInsnFacts DEF Fits
<1>4. /\ x \in AsmInsn
      /\ <<x.id, op>> \in Computing /\ x.id # "popfq" /\ x.id \in FlagIds
      /\ x.ops[1] = AsmOperand(d) /\ x.ops[2] = AsmOperand(r)
      /\ Encodable(x) => Encoded(x) = x
  BY BinInsnFacts
<1>5. insns = Emitted(<<load, x, back>>)
  BY DEF EmitBinaryMem, BinInsn, MovInsn
<1>6. ReadsWithin(a, G) /\ ReadsWithin(r, G)
  BY <1>1, VisibleReads DEF Exact
<1>7. /\ Denotes(AsmOperand(a), a) /\ Denotes(AsmOperand(r), r) /\ Denotes(AsmOperand(d), d)
      /\ ReadsWithin(a, GPR) /\ ReadsWithin(r, GPR) /\ ReadsWithin(d, GPR)
  BY <1>1, OperandDenotes
<1> HIDE DEF load, x, back, d, G
<1>8. insns = <<load, x, back>>
  BY <1>2, <1>3, <1>4, <1>5, EmittedThree
<1> DEFINE c1 == Exec(load, cpu)
           c2 == Exec(x, c1)
           c3 == Exec(back, c2)
<1>9. Linked(GPR, c1, f)
  <2>1. LET c == Exec(load, cpu)
            h == Written(d, EvalValue(a, env), env)
        IN /\ Linked(G, c, h)
           /\ SameFlags(c, cpu) /\ KeepsSpecial(h, env)
           /\ d.kind = "reg" /\ d.width = 64 => Linked(G \cup {d.reg}, c, h)
    <3>1. load.id \in MovIds /\ Fits(a, WidthOf(d)) /\ d.kind = "reg" /\ Linked(G, cpu, env)
      BY <1>1, <1>2 DEF MovIds, Fits, d, G
    <3> QED BY <1>1, <1>2, <1>6, <1>7, <3>1, MovMeans
  <2>2. d.kind = "reg" /\ d.width = 64 /\ d.reg = "RAX"
    BY DEF d
  <2> QED BY <1>1, <2>1, <2>2
<1>10. /\ EvalValue(d, f) = EvalValue(a, env) /\ EvalValue(r, f) = EvalValue(r, env)
       /\ \A n \in Int : Written(d, n, f) = Written(d, n, env)
  <2>1. EvalValue(a, env) \in 0..(Modulus[64] - 1) /\ 64 \in Widths
    BY <1>1, ValueFitsWidth
  <2>2. EvalValue(a, env) \in Int /\ Low(EvalValue(a, env), 64) = EvalValue(a, env)
    BY <2>1, LowSmall
  <2>3. d \in Value /\ d.kind = "reg" /\ d.reg \in GPR /\ WidthOf(d) = 64 /\ d.reg = "RAX"
    BY DEF d
  <2> QED BY <1>1, <2>2, <2>3, WrittenReadsBack, WrittenKeeps
<1>11. y \in Int
  BY <1>1, EvalBinaryType DEF DataOps
<1>12. Linked(GPR, c2, g)
  <2>1. LET c == Exec(x, c1)
            h == Written(d, EvalBinary(op, EvalValue(d, f), EvalValue(r, f),
                                       Modulus[WidthOf(d)]), f)
        IN /\ Linked(GPR, c, h) /\ KeepsSpecial(h, f)
           /\ d.kind = "reg" /\ d.width = 64 => Linked(GPR \cup {d.reg}, c, h)
    <3> HIDE DEF c1, f
    <3>1. d.kind # "imm" /\ WidthOf(d) = 64
      BY DEF d
    <3>2. /\ GPR \in SUBSET GPR /\ Denotes(x.ops[1], d) /\ <<x.id, op>> \in Computing
          /\ (op # "Shr" => Denotes(x.ops[2], r) /\ ReadsWithin(r, GPR) /\ Fits(r, WidthOf(d)))
      BY <1>4, <1>7, <3>1
    <3> QED BY <1>7, <1>9, <3>1, <3>2, BinaryMeans, ZenonT(60)
  <2>2. WidthOf(d) = 64
    BY DEF d
  <2>3. EvalBinary(op, EvalValue(d, f), EvalValue(r, f), Modulus[WidthOf(d)]) = y
    BY <1>10, <2>2
  <2> HIDE DEF y, f, c1
  <2>4. Linked(GPR, Exec(x, c1), Written(d, y, f))
    BY <2>1, <2>3
  <2> QED BY <1>10, <1>11, <2>4
<1> HIDE DEF y, f, c1
<1>13. Linked(GPR, c3, Written(a, z, g))
  <2>1. /\ back.id \in MovIds /\ Fits(d, WidthOf(a)) /\ GPR \in SUBSET GPR
        /\ Denotes(back.ops[1], a) /\ Denotes(back.ops[2], d) /\ a.kind # "imm"
    BY <1>1, <1>3, <1>7 DEF MovIds, Fits, d
  <2> HIDE DEF c2, g
  <2>2. LET c == Exec(back, c2)
            h == Written(a, EvalValue(d, g), g)
        IN /\ Linked(GPR, c, h)
           /\ SameFlags(c, c2) /\ KeepsSpecial(h, g)
           /\ a.kind = "reg" /\ a.width = 64 => Linked(GPR \cup {a.reg}, c, h)
    BY <1>7, <1>12, <2>1, MovMeans, ZenonT(60)
  <2> QED BY <2>2
<1>14. z = Low(y, 64) /\ z \in Int /\ Low(z, 64) = z
  <2>1. d \in Value /\ d.kind = "reg" /\ d.reg \in GPR /\ WidthOf(d) = 64 /\ 64 \in Widths
    BY WidthFacts DEF d
  <2>2. z = Low(y, 64)
    BY <1>1, <1>11, <2>1, WrittenReadsBack
  <2> HIDE DEF z
  <2> QED BY <1>11, <2>1, <2>2, LowRange, LowSmall
<1>15. Written(a, z, g) = Written(a, y, g)
  <2> HIDE DEF z, g, y
  <2> QED BY <1>1, <1>14 DEF Written
<1>16. /\ e \in Env /\ e.mem = Written(a, y, g).mem /\ e.reg = env.reg
       /\ \A q \in Reg \ {"RAX"} : Written(a, y, g).reg[q] = env.reg[q]
  <2>1. d \in RegValue /\ d.reg = "RAX"
    BY DEF d
  <2> QED BY <1>1, <1>11, <2>1, WrittenPast
<1> HIDE DEF z, g, e, c2, c3
<1>17. Linked(G, c3, e)
  <2>1. G \subseteq Reg \ {"RAX"} /\ G \subseteq GPR
    BY GprIsReg DEF G
  <2> QED BY <1>13, <1>15, <1>16, <2>1 DEF Linked
<1>18. KeepsSpecial(e, env)
  BY <1>16 DEF KeepsSpecial
<1>19. Run(insns, cpu) = c3
  BY <1>8, RunShort DEF c1, c2, c3
<1>20. NoPopfq(insns) /\ WritesFlags(insns)
  BY <1>2, <1>3, <1>4, <1>8 DEF NoPopfq, WritesFlags
<1> QED BY <1>1, <1>17, <1>18, <1>19, <1>20 DEF Carries, e, y, G


-----------------------------------------------------------------------------
(***************************************************************************)
(* A statement by itself.                                                  *)
(***************************************************************************)

\* Nothing is emitted that would write to an immediate.
LEMMA ImmRefused ==
  ASSUME NEW d \in ImmValue
  PROVE  /\ \A id, a : ~Encodable(Insn(id, <<AsmOperand(d), a>>))
         /\ \A op \in UnaryOps : ~Encodable(UnInsn(op, d))
<1>1. AsmOperand(d).type = "imm"
  BY DEF ImmValue, AsmOperand, ImmOp
<1>2. \A id, a : ~Encodable(Insn(id, <<AsmOperand(d), a>>))
  <2> SUFFICES ASSUME NEW id, NEW a PROVE ~Encodable(Insn(id, <<AsmOperand(d), a>>))
    OBVIOUS
  <2> DEFINE x == Insn(id, <<AsmOperand(d), a>>)
  <2>1. Len(x.ops) = 2 /\ x.ops[1] = AsmOperand(d)
    BY DEF Insn
  <2> HIDE DEF x
  <2>2. ~Encodable(x)
    BY <1>1, <2>1 DEF Encodable, EncodableBinary
  <2> QED BY <2>2 DEF x
<1>3. \A op \in UnaryOps : ~Encodable(UnInsn(op, d))
  <2>1. d \in Value /\ Exact(d) /\ d.kind = "imm"
    BY DEF ImmValue, Value, Exact, HasOperand, AddressFits
  <2> QED BY <2>1, UnInsnFacts
<1> QED BY <1>2, <1>3

LEMMA NoneEncodable ==
  ASSUME NEW x, ~Encodable(x)
  PROVE  Emitted(<<x>>) = Throws /\ \A y : Emitted(<<x, y>>) = Throws
<1>1. 1 \in DOMAIN <<x>> /\ <<x>>[1] = x /\ \A y : 1 \in DOMAIN <<x, y>> /\ <<x, y>>[1] = x
  OBVIOUS
<1> QED BY <1>1 DEF Emitted

LEMMA PlaceOnly ==
  ASSUME NEW d \in Value, HasOperand(d)
  PROVE  /\ \A v : Emitted(<<MovInsn(d, v)>>) # Throws => d.kind # "imm"
         /\ \A op, l, r : EmitBinaryReg(op, AsmOperand(d), l, r) # Throws => d.kind # "imm"
         /\ \A op \in UnaryOps : \A l : EmitUnary(UnaryInst(op), AsmOperand(d), l) # Throws => d.kind # "imm"
<1> SUFFICES ASSUME d.kind = "imm"
             PROVE  /\ \A v : Emitted(<<MovInsn(d, v)>>) = Throws
                    /\ \A op, l, r : EmitBinaryReg(op, AsmOperand(d), l, r) = Throws
                    /\ \A op \in UnaryOps : \A l : EmitUnary(UnaryInst(op), AsmOperand(d), l) = Throws
  OBVIOUS
<1>1. d \in ImmValue
  BY DEF Value, RegValue, ImmValue, MemoryValue
<1>2. \A id, a : ~Encodable(Insn(id, <<AsmOperand(d), a>>))
  BY <1>1, ImmRefused
<1>3. \A op \in UnaryOps : ~Encodable(UnInsn(op, d))
  BY <1>1, ImmRefused
<1>4. \A v : Emitted(<<MovInsn(d, v)>>) = Throws
  BY <1>2, NoneEncodable DEF MovInsn
<1>5. \A l, x : ~Encodable(x) => Emitted(MoveUnlessSame(AsmOperand(d), l) \o <<x>>) = Throws
  <2> SUFFICES ASSUME NEW l, NEW x, ~Encodable(x)
               PROVE  Emitted(MoveUnlessSame(AsmOperand(d), l) \o <<x>>) = Throws
    OBVIOUS
  <2>1. CASE AsmOperand(d) = l
    <3>1. MoveUnlessSame(AsmOperand(d), l) = <<>> /\ <<>> \o <<x>> = <<x>>
      BY <2>1 DEF MoveUnlessSame
    <3> QED BY <3>1, NoneEncodable
  <2>2. CASE AsmOperand(d) # l
    <3> DEFINE m == Insn("mov", <<AsmOperand(d), l>>)
    <3>1. MoveUnlessSame(AsmOperand(d), l) = <<m>>
      BY <2>2 DEF MoveUnlessSame
    <3>2. ~Encodable(m)
      BY <1>2
    <3> HIDE DEF m
    <3>3. Emitted(<<m, x>>) = Throws
      BY <3>2, NoneEncodable
    <3> QED BY <3>1, <3>3, OneThenOne
  <2> QED BY <2>1, <2>2
<1>6. \A op, l, r : EmitBinaryReg(op, AsmOperand(d), l, r) = Throws
  BY <1>2, <1>5 DEF EmitBinaryReg
<1>7. \A op \in UnaryOps : \A l : EmitUnary(UnaryInst(op), AsmOperand(d), l) = Throws
  BY <1>3, <1>5 DEF EmitUnary, UnInsn
<1> QED BY <1>4, <1>6, <1>7

\* The registers in which a statement is compared: all of them, or all but RAX
\* where an operator may go through it and no statement reads it.
Compared(G, s) ==
  \/ G = GPR /\ ~GoesThroughRax(s)
  \/ G = GPR \ {"RAX"} /\ UpdatesItsCell(s) /\ ~ReadsRax(s)

LEMMA ComparedSees ==
  ASSUME NEW G, NEW s, Compared(G, s)
  PROVE  /\ G \in SUBSET GPR
         /\ \A v : ValueReads(v) \subseteq Reads(s.value) => Visible(v, G)
         /\ Destination(s).kind = "mem" => Visible(Destination(s), G)
<1>1. CASE G = GPR
  BY <1>1 DEF Visible
<1>2. CASE G = GPR \ {"RAX"} /\ ~ReadsRax(s)
  BY <1>2 DEF Visible, ReadsRax, AddressReads
<1> QED BY <1>1, <1>2 DEF Compared


LEMMA WriteMeans ==
  ASSUME NEW G, NEW cpu, NEW env, Linked(G, cpu, env),
         NEW s \in Statement, Compared(G, s), ~IsRotate(s), AtOneWidth(s), AddressesFit(s),
         s.kind = "assign" => ~Overwrites(s),
         EmitWrite(Destination(s), s.value, s.kind = "store") # Throws
  PROVE  Carries(G, EmitWrite(Destination(s), s.value, s.kind = "store"), cpu, env,
                 ExecStatement(s, env))
<1> DEFINE d == Destination(s)
           e == s.value
           isMem == s.kind = "store"
           insns == EmitExpression(d, e, isMem)
<1>1. /\ d \in Value /\ e \in Expression /\ s.kind \in {"assign", "store"}
      /\ s.kind = "store" => d \in MemoryValue
      /\ s.kind = "assign" => d = s.dst
      /\ s.kind = "store" => d = s.address
  BY DEF Statement, AssignStatement, StoreStatement, Destination, Value
<1>2. /\ G \in SUBSET GPR
      /\ \A v : ValueReads(v) \subseteq Reads(e) => Visible(v, G)
      /\ d.kind = "mem" => Visible(d, G)
  BY ComparedSees
<1>3. /\ e.kind = "bin" => WidthOf(e.left) = WidthOf(d) /\ (e.op = "Shr" \/ Fits(e.right, WidthOf(d)))
      /\ e.kind = "un" => WidthOf(e.operand) = WidthOf(d)
      /\ IsExpressionValue(e) => Fits(e, WidthOf(d))
  BY DEF AtOneWidth
<1>4. /\ s.kind = "assign" /\ e.kind = "bin" /\ d.kind = "reg" /\ AsmOperand(d) # AsmOperand(e.left)
           => \A u \in ValueReads(e.right) : u.reg # d.reg
      /\ e.kind = "bin" => e.op \notin {"Rcr", "Rcl"}
  BY <1>1 DEF Overwrites, IsRotate
<1>4a. /\ AddressFits(d)
       /\ e.kind = "bin" => AddressFits(e.left) /\ AddressFits(e.right)
       /\ e.kind = "un" => AddressFits(e.operand)
       /\ IsExpressionValue(e) => AddressFits(e)
  BY DEF AddressesFit, FlatValues, IsExpressionValue
<1>5. ExecStatement(s, env) = Written(d, Eval(e, env), env)
  BY DEF ExecStatement
<1>6. Compared(G, s)
  OBVIOUS
<1>6a. e.kind = "bin" /\ isMem =>
         /\ G = GPR \ {"RAX"} /\ e.left = d /\ d.size = 8
         /\ \A u \in Reads(e) \cup ValueReads(d) : u.reg # "RAX"
  <2>1. e.kind = "bin" /\ isMem => GoesThroughRax(s)
    BY DEF GoesThroughRax
  <2>2. isMem => d.kind = "mem"
    BY <1>1 DEF MemoryValue
  <2> QED BY <1>1, <1>6, <2>1, <2>2 DEF Compared, UpdatesItsCell, ReadsRax, AddressReads
<1> HIDE DEF d, e
<1>7. HasOperand(d) /\ Exact(d) /\ insns # Throws
  BY <1>4a DEF EmitWrite, Exact, d, e
<1> SUFFICES Carries(G, insns, cpu, env, Written(d, Eval(e, env), env))
  BY <1>5, <1>7 DEF EmitWrite, d, e
<1>8. CASE e \in UnaryExpression
  <2>1. e.kind = "un" /\ e.operand \in Value /\ e.op \in UnaryOps
    BY <1>8 DEF UnaryExpression
  <2>2. Exact(e.operand) /\ insns = EmitUnary(UnaryInst(e.op), AsmOperand(d), AsmOperand(e.operand))
    BY <1>4a, <1>7, <2>1 DEF EmitExpression, Computes, IsExpressionValue, Exact
  <2>3. Visible(e.operand, G)
    BY <1>2, <2>1 DEF Reads, FlatReads
  <2>4. d.kind # "imm"
    BY <1>1, <1>7, <2>1, <2>2, PlaceOnly
  <2>5. Eval(e, env) = EvalUnary(e.op, EvalValue(e.operand, env), Modulus[WidthOf(e.operand)])
    BY <2>1 DEF Eval, EvalFlat
  <2> HIDE DEF insns
  <2>6. Carries(G, insns, cpu, env,
                Written(d, EvalUnary(e.op, EvalValue(e.operand, env), Modulus[WidthOf(e.operand)]), env))
    BY <1>1, <1>2, <1>3, <1>7, <2>1, <2>2, <2>3, <2>4, UnaryRegMeans
  <2> QED BY <2>5, <2>6
<1>9. CASE e \in BinaryExpression
  <2>1. e.kind = "bin" /\ e.left \in Value /\ e.right \in Value /\ e.op \in BinaryOps
    BY <1>9 DEF BinaryExpression
  <2>2. Computes(e) /\ (~isMem => HasOperand(e.left))
        /\ insns = IF isMem THEN EmitBinaryMem(e.op, AsmOperand(d), AsmOperand(e.right))
                   ELSE EmitBinaryReg(e.op, AsmOperand(d), AsmOperand(e.left), AsmOperand(e.right))
    BY <1>7, <2>1 DEF EmitExpression, IsExpressionValue
  <2>3. e.op \in DataOps /\ Exact(e.right)
    BY <1>4, <1>4a, <2>1, <2>2 DEF Computes, HasInst, DataOps, Exact
  <2>4. Visible(e.left, G) /\ Visible(e.right, G)
    BY <1>2, <2>1 DEF Reads, FlatReads
  <2>5. Eval(e, env) = EvalBinary(e.op, EvalValue(e.left, env), EvalValue(e.right, env),
                                  Modulus[WidthOf(e.left)])
    BY <2>1 DEF Eval, EvalFlat
  <2>6. e.op = "Shr" \/ Fits(e.right, WidthOf(d))
    BY <1>3, <2>1
  <2>7. CASE ~isMem
    <3>1. insns = EmitBinaryReg(e.op, AsmOperand(d), AsmOperand(e.left), AsmOperand(e.right))
      BY <2>2, <2>7
    <3>2. d.kind # "imm"
      BY <1>1, <1>7, <3>1, PlaceOnly
    <3>3. d.kind = "reg" /\ AsmOperand(d) # AsmOperand(e.left) =>
            \A u \in ValueReads(e.right) : u.reg # d.reg
      BY <1>1, <1>4, <2>1, <2>7
    <3>4. Exact(e.left) /\ WidthOf(e.left) = WidthOf(d)
      BY <1>3, <1>4a, <2>1, <2>2, <2>7 DEF Exact
    <3> HIDE DEF insns
    <3>5. Carries(G, insns, cpu, env,
                  Written(d, EvalBinary(e.op, EvalValue(e.left, env), EvalValue(e.right, env),
                                        Modulus[WidthOf(e.left)]), env))
      BY <1>1, <1>2, <1>7, <2>1, <2>3, <2>4, <2>6, <3>1, <3>2, <3>3, <3>4, BinaryRegMeans
    <3> QED BY <2>5, <3>5
  <2>8. CASE isMem
    <3>1. insns = EmitBinaryMem(e.op, AsmOperand(d), AsmOperand(e.right))
      BY <2>2, <2>8
    <3>2. G = GPR \ {"RAX"} /\ e.left = d /\ d.size = 8 /\ d \in MemoryValue /\ d.kind = "mem"
      BY <1>1, <1>6a, <2>1, <2>8 DEF MemoryValue
    <3>3. (\A u \in ValueReads(d) : u.reg # "RAX") /\ (\A u \in ValueReads(e.right) : u.reg # "RAX")
      BY <1>6a, <2>1, <2>8 DEF Reads, FlatReads
    <3>4. e.op = "Shr" \/ Fits(e.right, 64)
      BY <2>6, <3>2 DEF WidthOf
    <3> HIDE DEF insns
    <3>5. Visible(d, GPR \ {"RAX"}) /\ Visible(e.right, GPR \ {"RAX"}) /\ Linked(GPR \ {"RAX"}, cpu, env)
      BY <1>2, <2>4, <3>2
    <3>6. Carries(GPR \ {"RAX"}, insns, cpu, env,
                  Written(d, EvalBinary(e.op, EvalValue(d, env), EvalValue(e.right, env),
                                        Modulus[WidthOf(d)]), env))
      BY <1>7, <2>1, <2>3, <3>1, <3>2, <3>3, <3>4, <3>5, BinaryMemMeans
    <3> QED BY <2>5, <3>2, <3>6
  <2> QED BY <2>7, <2>8
<1>10. CASE e \in Value
  <2>1. IsExpressionValue(e) /\ e.kind \notin {"un", "bin", "cond"}
    BY <1>10 DEF Value, RegValue, ImmValue, MemoryValue, IsExpressionValue
  <2>2. Exact(e) /\ insns = Emitted(<<MovInsn(d, e)>>)
    BY <1>4a, <1>7, <2>1 DEF EmitExpression, Computes, MovInsn, Exact
  <2>3. Visible(e, G)
    BY <1>2, <2>1 DEF Reads, FlatReads
  <2>4. d.kind # "imm"
    BY <1>1, <1>7, <2>2, PlaceOnly
  <2>5. Eval(e, env) = EvalValue(e, env)
    BY <2>1 DEF Eval, EvalFlat
  <2>6. Fits(e, WidthOf(d))
    BY <1>3, <2>1
  <2> HIDE DEF insns
  <2>7. Carries(G, insns, cpu, env, Written(d, EvalValue(e, env), env))
    BY <1>1, <1>2, <1>7, <1>10, <2>2, <2>3, <2>4, <2>6, ValueMeans
  <2> QED BY <2>5, <2>7
<1>11. CASE e \in ConditionalExpression
  BY <1>7, <1>11 DEF ConditionalExpression, EmitExpression, Computes, IsExpressionValue
<1> QED BY <1>1, <1>8, <1>9, <1>10, <1>11 DEF Expression, FlatExpression

LEMMA StatementMeans ==
  ASSUME NEW G, NEW cpu, NEW env, Linked(G, cpu, env),
         NEW s \in Statement, Compared(G, s), ~IsControl(s), ~IsRotate(s), AtOneWidth(s),
         AddressesFit(s), s.kind = "assign" => ~Overwrites(s), EmitStatement(s) # Throws
  PROVE  Carries(G, EmitStatement(s), cpu, env, ExecStatement(s, env))
<1>1. EmitStatement(s) = EmitWrite(Destination(s), s.value, s.kind = "store")
  BY DEF IsControl, EmitStatement, Destination
<1> QED BY <1>1, WriteMeans


-----------------------------------------------------------------------------
(***************************************************************************)
(* A push or a pop made of two statements.                                 *)
(***************************************************************************)
LEMMA KindIsSet ==
  ASSUME NEW e \in Expression, IsExpressionValue(e)
  PROVE  /\ e \in Value
         /\ e.kind = "reg" => e \in RegValue
         /\ e.kind = "imm" => e \in ImmValue
         /\ e.kind = "mem" => e \in MemoryValue
BY DEF Expression, FlatExpression, Value, RegValue, ImmValue, MemoryValue, UnaryExpression,
       BinaryExpression, ConditionalExpression, IsExpressionValue

LEMMA StackTopPoints ==
  ASSUME NEW v \in Expression, IsStackTop(v)
  PROVE  PointsToTop(v) /\ v.kind = "mem" /\ WidthOf(v) = 64
<1>1. v.kind = "mem" /\ v \in MemoryValue
  BY KindIsSet DEF IsStackTop, IsExpressionValue
<1> QED BY <1>1 DEF IsStackTop, IsReg, PointsToTop, WidthOf

\* The adjustment of RSP as a statement.
LEMMA AdjustedByStatement ==
  ASSUME NEW env \in Env, NEW s \in Statement, NEW op \in {"Add", "Sub"}, AdjustsRsp(s, op),
         s.dst.width = 64, AtOneWidth(s)
  PROVE  ExecStatement(s, env) = Moved(IF op = "Sub" THEN -Slot ELSE Slot, env)
<1> DEFINE d == s.dst
           e == s.value
<1>1. /\ s.kind = "assign" /\ d.kind = "reg" /\ d.reg = "RSP"
      /\ e.kind = "bin" /\ e.op = op
      /\ e.left.kind = "reg" /\ e.left.reg = "RSP"
      /\ e.right.kind = "imm" /\ e.right.value = Slot
  BY DEF AdjustsRsp, IsRspAdjust, IsReg
<1>2. d \in Value /\ e \in Expression /\ Destination(s) = d
  BY <1>1 DEF Statement, AssignStatement, StoreStatement, Destination
<1>3. e.left \in Value /\ e.right \in Value
  BY <1>1, <1>2 DEF Expression, FlatExpression, Value, RegValue, ImmValue, MemoryValue,
                    UnaryExpression, BinaryExpression, ConditionalExpression
<1>4. d \in RegValue /\ e.left \in RegValue /\ e.right \in ImmValue
  BY <1>1, <1>2, <1>3 DEF Value, RegValue, ImmValue, MemoryValue
<1>5. IsRsp(d) /\ IsRsp(e.left)
  BY <1>1, <1>2, <1>4 DEF AtOneWidth, WidthOf, IsRsp
<1>6. IsSlot(e.right)
  <2>1. Slot \in 0..(Modulus[64] - 1) /\ 64 \in Widths
    BY <1>1, <1>4, WidthFacts DEF ImmValue, Word
  <2>2. Slot % Modulus[64] = Slot
    BY <2>1, LowSmall DEF Low
  <2> QED BY <1>1, <1>4, <2>2 DEF IsSlot
<1>7. ExecStatement(s, env) = Written(d, EvalBinary(op, EvalValue(e.left, env), EvalValue(e.right, env),
                                                    Modulus[WidthOf(e.left)]), env)
  BY <1>1, <1>2 DEF ExecStatement, Eval, EvalFlat
<1> QED BY <1>5, <1>6, <1>7, AdjustMeans

LEMMA PushPairMeans ==
  ASSUME NEW G \in SUBSET GPR, "RSP" \in G, NEW cpu, NEW env, Linked(G, cpu, env),
         NEW first \in Statement, NEW second \in Statement, IsPush(first, second),
         FusedFaithfully(first, second), AtOneWidth(first), AtOneWidth(second),
         Visible(second.value, G), AddressFits(second.value),
         NEW insns, insns = EmitStackOp("push", second.value), insns # Throws,
         (\E k \in DOMAIN insns : insns[k].id = "pushfq") => env.reg["RFLAGS"] = FlagsWord(cpu)
  PROVE  Carries(G, insns, cpu, env, ExecStatement(second, ExecStatement(first, env)))
<1> DEFINE f == Moved(-Slot, env)
           v == second.value
           a == second.address
           e == Stored(EvalValue(v, f), f)
<1>1. /\ AdjustsRsp(first, "Sub") /\ second.kind = "store" /\ IsStackTop(a) /\ IsExpressionValue(v)
      /\ first.dst.width = 64 /\ ~MentionsRsp(v)
  BY DEF IsPush, FusedFaithfully
<1>2. env \in Env /\ a \in Expression /\ v \in Expression /\ Destination(second) = a
  BY <1>1 DEF Linked, Statement, AssignStatement, StoreStatement, Destination, Expression,
              FlatExpression, Value
<1>3. v \in Value /\ (v.kind = "reg" => v \in RegValue) /\ PointsToTop(a) /\ WidthOf(a) = 64
  BY <1>1, <1>2, KindIsSet, StackTopPoints
<1>4. Fits(v, 64) /\ AvoidsRsp(v)
  <2>1. Fits(v, 64)
    BY <1>1, <1>2, <1>3 DEF AtOneWidth
  <2>2. AvoidsRsp(v)
    BY <1>1, <1>3 DEF MentionsRsp, AvoidsRsp, ValueReads, Value, RegValue, ImmValue, MemoryValue
  <2> QED BY <2>1, <2>2
<1>5. ExecStatement(first, env) = f
  BY <1>1, <1>2, AdjustedByStatement
<1>6. f \in Env /\ \A r \in Reg \ {"RSP"} : f.reg[r] = env.reg[r]
  <2>1. -Slot \in Int
    BY ScaleAssumption
  <2> QED BY <1>2, <2>1, MovedType
<1>7. EvalValue(v, f) \in Word
  <2>1. WidthOf(v) \in Widths /\ EvalValue(v, f) \in 0..(Modulus[WidthOf(v)] - 1)
    BY <1>3, <1>6, ValueFitsWidth
  <2> QED BY <2>1, WidthInWord
<1> HIDE DEF f
<1>8. ExecStatement(second, f) = e
  <2>1. ExecStatement(second, f) = Written(a, EvalValue(v, f), f)
    BY <1>1, <1>2 DEF ExecStatement, Eval, EvalFlat, IsExpressionValue
  <2> QED BY <1>3, <1>6, <1>7, <2>1, TopMeans
<1>9. CASE IsReg(v, "RFLAGS")
  <2> DEFINE x == Insn("pushfq", <<>>)
             y == FlagsWord(cpu)
  <2>1. insns = <<x>> /\ x.id = "pushfq"
    <3>1. (IF "push" = "push" THEN "pushfq" ELSE "popfq") = "pushfq"
      OBVIOUS
    <3>2. insns = <<Insn(IF "push" = "push" THEN "pushfq" ELSE "popfq", <<>>)>>
      <4>1. ~HasOperand(v)
        BY <1>9, GPRAssumption DEF IsReg, HasOperand, HasRegOperand
      <4> QED BY <1>9, <4>1 DEF EmitStackOp
    <3>3. x.id = "pushfq"
      BY DEF Insn
    <3> QED BY <3>1, <3>2, <3>3, Zenon
  <2> HIDE DEF x
  <2>2. 1 \in DOMAIN insns /\ insns[1].id = "pushfq"
    BY <2>1
  <2>3. env.reg["RFLAGS"] = y
    BY <2>2
  <2>4. v.width = 64 /\ v.reg = "RFLAGS" /\ v.kind = "reg" /\ "RFLAGS" \in Reg \ {"RSP"}
    BY <1>4, <1>9 DEF IsReg, Fits, WidthOf, Reg
  <2>5. f.reg["RFLAGS"] = y /\ y \in Word
    <3>1. env.reg["RFLAGS"] \in Word
      BY <1>2, <2>4 DEF Env
    <3> QED BY <1>6, <2>3, <2>4, <3>1
  <2>6. EvalValue(v, f) = y
    <3>1. EvalValue(v, f) = Low(y, 64)
      BY <2>4, <2>5 DEF EvalValue
    <3> QED BY <2>5, <3>1, WholeWord
  <2> HIDE DEF y
  <2>7. LET g == Stored(y, Moved(-Slot, env))
        IN /\ Linked(G, Exec(x, cpu), g) /\ y \in Word
           /\ SameFlags(Exec(x, cpu), cpu) /\ KeepsSpecial(g, env)
    BY <2>1, PushfqMeans DEF y
  <2>8. Linked(G, Exec(x, cpu), e) /\ SameFlags(Exec(x, cpu), cpu) /\ KeepsSpecial(e, env)
    BY <2>6, <2>7 DEF f
  <2>9. Run(insns, cpu) = Exec(x, cpu) /\ NoPopfq(insns)
    BY <2>1, RunShort DEF NoPopfq
  <2> QED BY <1>5, <1>8, <2>8, <2>9 DEF Carries
<1>10. CASE ~IsReg(v, "RFLAGS")
  <2> DEFINE x == Insn("push", <<AsmOperand(v)>>)
  <2>1. HasOperand(v) /\ insns = Emitted(<<x>>)
    BY <1>10 DEF EmitStackOp
  <2>2. x \in AsmInsn
    <3>1. "push" \in AsmIds
      BY DEF AsmIds
    <3> QED BY <1>3, <2>1, <3>1, OperandType, BuiltInsns
  <2>3. x.id = "push" /\ x.ops[1] = AsmOperand(v) /\ Len(x.ops) = 1
    BY DEF Insn
  <2> HIDE DEF x
  <2>4. insns = <<x>>
    BY <2>1, <2>2, <2>3, EmittedOne DEF Encoded
  <2>5. Denotes(x.ops[1], v) /\ ReadsWithin(v, G)
    <3>1. Exact(v)
      BY <2>1 DEF Exact
    <3> QED BY <1>3, <2>1, <2>3, <3>1, OperandDenotes, VisibleReads
  <2>6. LET h == Moved(-Slot, env)
            g == Stored(EvalValue(v, h), h)
        IN /\ Linked(G, Exec(x, cpu), g) /\ EvalValue(v, h) \in Word
           /\ SameFlags(Exec(x, cpu), cpu) /\ KeepsSpecial(g, env)
    BY <1>4, <2>3, <2>5, PushMeans
  <2>7. Linked(G, Exec(x, cpu), e) /\ SameFlags(Exec(x, cpu), cpu) /\ KeepsSpecial(e, env)
    BY <2>6 DEF f
  <2>8. Run(insns, cpu) = Exec(x, cpu) /\ NoPopfq(insns)
    BY <2>3, <2>4, RunShort DEF NoPopfq
  <2> QED BY <1>5, <1>8, <2>7, <2>8 DEF Carries
<1> QED BY <1>9, <1>10

\* A popfq leaves in RFLAGS of the environment what the processor has in its flags.
LoadsFlags(G, insns, cpu, after) ==
  /\ Linked(G, Run(insns, cpu), after)
  /\ \E x : insns = <<x>> /\ x.id = "popfq"
  /\ after.reg["RFLAGS"] = FlagsWord(Run(insns, cpu))

LEMMA PopPairMeans ==
  ASSUME NEW G \in SUBSET GPR, "RSP" \in G, NEW cpu, NEW env, Linked(G, cpu, env),
         NEW first \in Statement, NEW second \in Statement, IsPop(first, second),
         FusedFaithfully(first, second), AtOneWidth(first), AtOneWidth(second),
         NEW insns, insns = EmitStackOp("pop", first.dst), insns # Throws
  PROVE  LET after == ExecStatement(second, ExecStatement(first, env))
         IN Carries(G, insns, cpu, env, after) \/ LoadsFlags(G, insns, cpu, after)
<1> DEFINE d == first.dst
           v == first.value
           g == Written(d, TopOf(env), env)
           e == Moved(Slot, g)
<1>1. /\ first.kind = "assign" /\ IsStackTop(v) /\ AdjustsRsp(second, "Add")
      /\ second.dst.width = 64 /\ d.kind = "reg" /\ d.reg # "RSP"
  BY DEF IsPop, FusedFaithfully
<1>2. env \in Env /\ v \in Expression /\ d \in Value /\ Destination(first) = d
  BY <1>1 DEF Linked, Statement, AssignStatement, StoreStatement, Destination
<1>3. PointsToTop(v) /\ WidthOf(v) = 64 /\ v.kind = "mem" /\ d \in RegValue
  BY <1>1, <1>2, StackTopPoints DEF Value, RegValue, ImmValue, MemoryValue
<1>4. WidthOf(d) = 64 /\ AvoidsRsp(d) /\ d.width = 64
  <2>1. Fits(v, WidthOf(d))
    BY <1>2, <1>3 DEF AtOneWidth, IsExpressionValue
  <2>2. WidthOf(d) = 64 /\ d.width = 64
    BY <1>1, <1>3, <2>1 DEF Fits, WidthOf
  <2>3. AvoidsRsp(d)
    BY <1>1 DEF AvoidsRsp, ValueReads
  <2> QED BY <2>2, <2>3
<1>5. TopOf(env) \in Word /\ EvalValue(v, env) = TopOf(env)
  <2>1. 0 \in Word
    BY WordIsLow
  <2> QED BY <1>2, <1>3, <2>1, TopMeans
<1>6. ExecStatement(first, env) = g
  BY <1>1, <1>2, <1>3, <1>5 DEF ExecStatement, Eval, EvalFlat
<1>7. g \in Env
  BY <1>2, <1>5, WrittenType, WordIsLow
<1> HIDE DEF g
<1>8. ExecStatement(second, g) = e
  BY <1>1, <1>7, AdjustedByStatement
<1>9. CASE IsReg(d, "RFLAGS")
  <2> DEFINE x == Insn("popfq", <<>>)
  <2>1. insns = <<x>> /\ x.id = "popfq"
    <3>1. (IF "pop" = "push" THEN "pushfq" ELSE "popfq") = "popfq"
      OBVIOUS
    <3>2. insns = <<Insn(IF "pop" = "push" THEN "pushfq" ELSE "popfq", <<>>)>>
      <4>1. ~HasOperand(d)
        BY <1>9, GPRAssumption DEF IsReg, HasOperand, HasRegOperand
      <4> QED BY <1>9, <4>1 DEF EmitStackOp
    <3>3. x.id = "popfq"
      BY DEF Insn
    <3> QED BY <3>1, <3>2, <3>3, Zenon
  <2> HIDE DEF x
  <2>2. IsFlags(d)
    BY <1>3, <1>4, <1>9 DEF IsFlags, IsReg
  <2>3. LET h == Moved(Slot, Written(d, TopOf(env), env))
        IN /\ Linked(G, Exec(x, cpu), h)
           /\ h.reg["RFLAGS"] = FlagsWord(Exec(x, cpu))
           /\ h.reg["RIP"] = env.reg["RIP"] /\ h.reg["ZF"] = env.reg["ZF"]
    BY <2>1, <2>2, PopfqMeans
  <2>4. Linked(G, Exec(x, cpu), e) /\ e.reg["RFLAGS"] = FlagsWord(Exec(x, cpu))
    BY <2>3 DEF g
  <2>5. Run(insns, cpu) = Exec(x, cpu)
    BY <2>1, RunShort
  <2> HIDE DEF e
  <2>6. LoadsFlags(G, insns, cpu, e)
    BY <2>1, <2>4, <2>5 DEF LoadsFlags
  <2> QED BY <1>6, <1>8, <2>6
<1>10. CASE ~IsReg(d, "RFLAGS")
  <2> DEFINE x == Insn("pop", <<AsmOperand(d)>>)
  <2>1. HasOperand(d) /\ insns = Emitted(<<x>>)
    BY <1>10 DEF EmitStackOp
  <2>2. x \in AsmInsn
    <3>1. "pop" \in AsmIds
      BY DEF AsmIds
    <3> QED BY <1>2, <2>1, <3>1, OperandType, BuiltInsns
  <2>3. x.id = "pop" /\ x.ops[1] = AsmOperand(d) /\ Len(x.ops) = 1
    BY DEF Insn
  <2> HIDE DEF x
  <2>4. insns = <<x>>
    BY <2>1, <2>2, <2>3, EmittedOne DEF Encoded
  <2>5. Denotes(x.ops[1], d) /\ d.kind # "imm" /\ (d.kind = "mem" => ReadsWithin(d, G))
    BY <1>1, <1>2, <2>1, <2>3, OperandDenotes DEF Exact, AddressFits
  <2>6. LET h == Moved(Slot, Written(d, TopOf(env), env))
        IN /\ Linked(G, Exec(x, cpu), h)
           /\ SameFlags(Exec(x, cpu), cpu) /\ KeepsSpecial(h, env)
    BY <1>4, <2>3, <2>5, PopMeans
  <2>7. Linked(G, Exec(x, cpu), e) /\ SameFlags(Exec(x, cpu), cpu) /\ KeepsSpecial(e, env)
    BY <2>6 DEF g
  <2>8. Run(insns, cpu) = Exec(x, cpu) /\ NoPopfq(insns)
    BY <2>3, <2>4, RunShort DEF NoPopfq
  <2> HIDE DEF e
  <2>9. Carries(G, insns, cpu, env, e)
    BY <2>7, <2>8 DEF Carries
  <2> QED BY <1>6, <1>8, <2>9
<1> QED BY <1>9, <1>10


LEMMA PushKeepsFlags ==
  ASSUME NEW v \in Value, NEW insns, insns = EmitStackOp("push", v), insns # Throws
  PROVE  NoPopfq(insns)
<1>1. CASE IsReg(v, "RFLAGS")
  <2>1. ~HasOperand(v)
    BY <1>1, GPRAssumption DEF IsReg, HasOperand, HasRegOperand
  <2> DEFINE x == Insn("pushfq", <<>>)
  <2>2. insns = <<x>>
    BY <1>1, <2>1 DEF EmitStackOp
  <2>3. x.id = "pushfq"
    BY DEF Insn
  <2> HIDE DEF x
  <2> QED BY <2>2, <2>3 DEF NoPopfq
<1>2. CASE ~IsReg(v, "RFLAGS")
  <2> DEFINE x == Insn("push", <<AsmOperand(v)>>)
  <2>1. HasOperand(v) /\ insns = Emitted(<<x>>)
    BY <1>2 DEF EmitStackOp
  <2>2. x \in AsmInsn
    <3>1. "push" \in AsmIds
      BY DEF AsmIds
    <3> QED BY <2>1, <3>1, OperandType, BuiltInsns
  <2>3. x.id = "push" /\ Len(x.ops) = 1
    BY DEF Insn
  <2> HIDE DEF x
  <2>4. insns = <<x>>
    BY <2>1, <2>2, <2>3, EmittedOne DEF Encoded
  <2> QED BY <2>3, <2>4 DEF NoPopfq
<1> QED BY <1>1, <1>2

-----------------------------------------------------------------------------
(***************************************************************************)
(* The flags a pushfq stores are known where no flag has been written      *)
(* since the entry or the last popfq.                                      *)
(***************************************************************************)
KnownIn(c, k) ==
  \A j \in 1..(k - 1) : c[j].id \in FlagIds => \E p \in (j + 1)..(k - 1) : c[p].id = "popfq"

PushesKnownIn(c) == \A k \in DOMAIN c : c[k].id = "pushfq" => KnownIn(c, k)

LEMMA KnownFlags ==
  ASSUME NEW c \in Seq(AsmInsn), NEW insns \in Seq(AsmInsn), NEW d, d = c \o insns,
         PushesKnownIn(d)
  PROVE  /\ PushesKnownIn(c)
         /\ NoPopfq(insns) /\ (\E k \in DOMAIN insns : insns[k].id = "pushfq")
              => KnownIn(c, Len(c) + 1)
         /\ NoPopfq(insns) /\ KnownIn(d, Len(d) + 1)
              => KnownIn(c, Len(c) + 1) /\ ~WritesFlags(insns)
<1> DEFINE n == Len(c)
           m == Len(insns)
<1>1. /\ n \in Nat /\ m \in Nat /\ Len(d) = n + m
      /\ DOMAIN c = 1..n /\ DOMAIN insns = 1..m /\ DOMAIN d = 1..(n + m)
      /\ \A k \in 1..n : d[k] = c[k]
      /\ \A k \in 1..m : d[n + k] = insns[k]
  OBVIOUS
<1>2. \A k \in 1..(n + 1) : KnownIn(d, k) => KnownIn(c, k)
  <2> SUFFICES ASSUME NEW k \in 1..(n + 1), KnownIn(d, k), NEW j \in 1..(k - 1),
                      c[j].id \in FlagIds
               PROVE  \E p \in (j + 1)..(k - 1) : c[p].id = "popfq"
    BY DEF KnownIn
  <2>1. d[j] = c[j] /\ \A p \in (j + 1)..(k - 1) : d[p] = c[p]
    BY <1>1
  <2>2. \E p \in (j + 1)..(k - 1) : d[p].id = "popfq"
    BY <2>1 DEF KnownIn
  <2> QED BY <2>1, <2>2
<1>3. PushesKnownIn(c)
  <2> SUFFICES ASSUME NEW k \in DOMAIN c, c[k].id = "pushfq" PROVE KnownIn(c, k)
    BY DEF PushesKnownIn
  <2>1. k \in DOMAIN d /\ d[k].id = "pushfq" /\ k \in 1..(n + 1)
    BY <1>1
  <2>2. KnownIn(d, k)
    BY <2>1 DEF PushesKnownIn
  <2> QED BY <1>2, <2>1, <2>2
<1>4. ASSUME NoPopfq(insns), NEW q \in (n + 1)..(n + m + 1), KnownIn(d, q)
      PROVE  /\ KnownIn(c, n + 1)
             /\ \A j \in 1..m : n + j < q => insns[j].id \notin FlagIds
  <2>1. \A p \in 1..(q - 1) : p > n => d[p].id # "popfq"
    <3> SUFFICES ASSUME NEW p \in 1..(q - 1), p > n PROVE d[p].id # "popfq"
      OBVIOUS
    <3>1. p - n \in 1..m /\ n + (p - n) = p
      BY <1>1
    <3>2. d[p] = insns[p - n]
      BY <1>1, <3>1
    <3> QED BY <1>1, <1>4, <3>1, <3>2 DEF NoPopfq
  <2>2. \A j \in 1..(q - 1) : d[j].id \in FlagIds =>
          \E p \in (j + 1)..(q - 1) : d[p].id = "popfq"
    BY <1>4, Zenon DEF KnownIn
  <2>3. KnownIn(c, n + 1)
    <3> SUFFICES ASSUME NEW j \in 1..((n + 1) - 1), c[j].id \in FlagIds
                 PROVE  \E p \in (j + 1)..((n + 1) - 1) : c[p].id = "popfq"
      BY DEF KnownIn
    <3>1. j \in 1..n /\ j \in 1..(q - 1) /\ d[j] = c[j]
      BY <1>1
    <3>2. PICK p \in (j + 1)..(q - 1) : d[p].id = "popfq"
      BY <2>2, <3>1
    <3>3. p \in 1..(q - 1)
      BY <1>1, <3>1
    <3>4. p <= n
      BY <1>1, <2>1, <3>2, <3>3
    <3>5. p \in (j + 1)..((n + 1) - 1) /\ d[p] = c[p]
      BY <1>1, <3>1, <3>4
    <3> QED BY <3>2, <3>5
  <2>4. \A j \in 1..m : n + j < q => insns[j].id \notin FlagIds
    <3> SUFFICES ASSUME NEW j \in 1..m, n + j < q, insns[j].id \in FlagIds PROVE FALSE
      OBVIOUS
    <3>1. n + j \in 1..(q - 1) /\ d[n + j] = insns[j]
      BY <1>1
    <3>2. PICK p \in (n + j + 1)..(q - 1) : d[p].id = "popfq"
      BY <2>2, <3>1
    <3>3. p \in 1..(q - 1) /\ p > n
      BY <1>1
    <3> QED BY <2>1, <3>2, <3>3
  <2> QED BY <2>3, <2>4
<1>5. ASSUME NoPopfq(insns), NEW k \in DOMAIN insns, insns[k].id = "pushfq"
      PROVE  KnownIn(c, n + 1)
  <2>1. n + k \in (n + 1)..(n + m + 1) /\ n + k \in DOMAIN d /\ d[n + k].id = "pushfq"
    BY <1>1, <1>5
  <2>2. KnownIn(d, n + k)
    BY <2>1 DEF PushesKnownIn
  <2> QED BY <1>4, <1>5, <2>1, <2>2
<1>6. ASSUME NoPopfq(insns), KnownIn(d, Len(d) + 1)
      PROVE  KnownIn(c, n + 1) /\ ~WritesFlags(insns)
  <2>1. Len(d) + 1 \in (n + 1)..(n + m + 1) /\ \A j \in 1..m : n + j < Len(d) + 1
    BY <1>1
  <2>2. KnownIn(c, n + 1) /\ \A j \in 1..m : insns[j].id \notin FlagIds
    BY <1>4, <1>6, <2>1
  <2> QED BY <1>1, <2>2 DEF WritesFlags
<1> QED BY <1>3, <1>5, <1>6


-----------------------------------------------------------------------------
(***************************************************************************)
(* The invariant.  G is the set of registers compared: all of them, or all *)
(* but RAX.                                                                *)
(***************************************************************************)
Sides == {GPR, GPR \ {"RAX"}}

Before(cpu) == RunIR(SubSeq(ir, 1, i - 1), EnvOf(cpu))

LinkedSoFar(G) ==
  \A cpu \in Entered :
    /\ Linked(G, Run(code, cpu), Before(cpu))
    /\ FlagsKnown(Len(code) + 1) => Before(cpu).reg["RFLAGS"] = FlagsWord(Run(code, cpu))

Consumed(G) == \A n \in 1..(i - 1) : IsTranslated(n) /\ Compared(G, ir[n])

FaithfulSoFar(G) == status # "threw" /\ Consumed(G) /\ PushesKnownFlags => LinkedSoFar(G)

MeaningInv == RecompilerInv /\ \A G \in Sides : FaithfulSoFar(G)

LEMMA SidesAre ==
  ASSUME NEW G \in Sides
  PROVE  G \in SUBSET GPR /\ "RSP" \in G
BY GprIsReg DEF Sides

LEMMA InitEstablishesMeaning == Init => MeaningInv
<1> SUFFICES ASSUME Init PROVE MeaningInv
  OBVIOUS
<1>1. RecompilerInv
  BY InitEstablishesInv
<1>2. ASSUME NEW G \in Sides, NEW cpu \in Entered
      PROVE  /\ Linked(G, Run(code, cpu), Before(cpu))
             /\ Before(cpu).reg["RFLAGS"] = FlagsWord(Run(code, cpu))
  <2>1. code = <<>> /\ SubSeq(ir, 1, i - 1) = <<>>
    <3>1. i - 1 = 0 /\ code = <<>> /\ ir \in Stream
      BY RecompilerAssumption DEF Init
    <3> QED BY <3>1 DEF Stream
  <2>2. Run(code, cpu) = cpu /\ Before(cpu) = EnvOf(cpu)
    BY <2>1, RunNothing, RunIRNothing DEF Before
  <2>3. Linked(GPR, cpu, EnvOf(cpu)) /\ EnvOf(cpu).reg["RFLAGS"] = FlagsWord(cpu)
    BY EnteredIsLinked
  <2>4. Linked(G, cpu, EnvOf(cpu))
    BY <2>3, SidesAre DEF Linked
  <2> QED BY <2>2, <2>3, <2>4
<1> QED BY <1>1, <1>2 DEF MeaningInv, FaithfulSoFar, LinkedSoFar

\* The environment after the statements consumed and the next one, or two.
LEMMA BeforeNext ==
  ASSUME ir \in Stream, i \in Nat \ {0}, i <= Len(ir), NEW cpu
  PROVE  /\ RunIR(SubSeq(ir, 1, i), EnvOf(cpu)) = ExecStatement(ir[i], Before(cpu))
         /\ i + 1 <= Len(ir) =>
              RunIR(SubSeq(ir, 1, i + 1), EnvOf(cpu)) =
                ExecStatement(ir[i + 1], ExecStatement(ir[i], Before(cpu)))
<1>1. Len(ir) \in Nat /\ i \in 1..Len(ir) /\ ir \in Seq(Statement \cup ControlStatement)
  BY DEF Stream
<1>2. RunIR(SubSeq(ir, 1, i), EnvOf(cpu)) = ExecStatement(ir[i], Before(cpu))
  BY <1>1, RunIRStep DEF Before
<1>3. ASSUME i + 1 <= Len(ir)
      PROVE  RunIR(SubSeq(ir, 1, i + 1), EnvOf(cpu)) =
               ExecStatement(ir[i + 1], RunIR(SubSeq(ir, 1, i), EnvOf(cpu)))
  <2> DEFINE n == i + 1
  <2>1. n \in 1..Len(ir) /\ n - 1 = i
    BY <1>1, <1>3
  <2> HIDE DEF n
  <2>2. RunIR(SubSeq(ir, 1, n), EnvOf(cpu)) =
          ExecStatement(ir[n], RunIR(SubSeq(ir, 1, n - 1), EnvOf(cpu)))
    BY <1>1, <2>1, RunIRStep
  <2> QED BY <2>1, <2>2 DEF n
<1> QED BY <1>2, <1>3

\* What an emitter gives for the next statements extends what was emitted
\* before: this is the step of both kinds.
Extends(G, insns, width) ==
  \A cpu \in Entered :
    LET c == Run(code, cpu)
        env == Before(cpu)
        after == RunIR(SubSeq(ir, 1, i + width - 1), EnvOf(cpu))
    IN Linked(G, c, env)
       /\ (/\ NoPopfq(insns)
           /\ \E k \in DOMAIN insns : insns[k].id = "pushfq"
           => env.reg["RFLAGS"] = FlagsWord(c))
       => Carries(G, insns, c, env, after) \/ LoadsFlags(G, insns, c, after)

LEMMA EmitKeepsMeaning ==
  ASSUME RecompilerInv, status = "compiling", NEW G \in Sides, FaithfulSoFar(G),
         NEW insns, Sound(insns), NEW width \in {1, 2}, Emit(insns, width),
         insns # Throws /\ Consumed(G)' => Extends(G, insns, width)
  PROVE  FaithfulSoFar(G)'
<1> SUFFICES ASSUME status' # "threw", Consumed(G)', PushesKnownFlags'
             PROVE  LinkedSoFar(G)'
  BY DEF FaithfulSoFar
<1>1. insns # Throws /\ code' = code \o insns /\ ir' = ir /\ i' = i + width
  BY DEF Emit
<1>2. code \in Seq(AsmInsn) /\ insns \in Seq(AsmInsn) /\ i \in Nat \ {0}
  BY <1>1 DEF RecompilerInv, TypeOK, Sound, Stream
<1>3. Extends(G, insns, width)
  BY <1>1
<1>4. Consumed(G)
  <2> SUFFICES ASSUME NEW n \in 1..(i - 1) PROVE IsTranslated(n) /\ Compared(G, ir[n])
    BY DEF Consumed
  <2>1. n \in 1..(i' - 1)
    BY <1>1, <1>2
  <2>2. (IsTranslated(n) /\ Compared(G, ir[n]))'
    BY <2>1 DEF Consumed
  <2> QED BY <1>1, <2>2 DEF IsTranslated
<1> DEFINE d == code'
<1>5. PushesKnownIn(d) /\ (FlagsKnown(Len(code) + 1)' <=> KnownIn(d, Len(d) + 1))
      /\ (PushesKnownIn(code) => PushesKnownFlags)
      /\ (FlagsKnown(Len(code) + 1) <=> KnownIn(code, Len(code) + 1))
  BY Zenon DEF PushesKnownFlags, FlagsKnown, PushesKnownIn, KnownIn
<1>6. d = code \o insns
  BY <1>1
<1> HIDE DEF d
<1>7. /\ PushesKnownIn(code)
      /\ NoPopfq(insns) /\ (\E k \in DOMAIN insns : insns[k].id = "pushfq")
           => KnownIn(code, Len(code) + 1)
      /\ NoPopfq(insns) /\ KnownIn(d, Len(d) + 1)
           => KnownIn(code, Len(code) + 1) /\ ~WritesFlags(insns)
  BY <1>2, <1>5, <1>6, KnownFlags
<1>8. LinkedSoFar(G)
  BY <1>4, <1>5, <1>7 DEF FaithfulSoFar
<1>9. ASSUME NEW cpu \in Entered
      PROVE  LET c == Run(code', cpu)
                 after == RunIR(SubSeq(ir', 1, i' - 1), EnvOf(cpu))
             IN /\ Linked(G, c, after)
                /\ KnownIn(d, Len(d) + 1) => after.reg["RFLAGS"] = FlagsWord(c)
  <2> DEFINE b == Run(code, cpu)
             env == Before(cpu)
             c == Run(insns, b)
             after == RunIR(SubSeq(ir, 1, i + width - 1), EnvOf(cpu))
  <2>1. Run(code', cpu) = c
    BY <1>1, <1>2, RunConcat
  <2>2. RunIR(SubSeq(ir', 1, i' - 1), EnvOf(cpu)) = after
    <3> DEFINE last == i + width - 1
    <3>1. i' - 1 = last
      BY <1>1, <1>2
    <3> HIDE DEF last
    <3>2. RunIR(SubSeq(ir', 1, i' - 1), EnvOf(cpu)) = RunIR(SubSeq(ir, 1, last), EnvOf(cpu))
      BY <1>1, <3>1, Zenon
    <3> QED BY <3>2 DEF last
  <2>3. /\ Linked(G, b, env)
        /\ KnownIn(code, Len(code) + 1) => env.reg["RFLAGS"] = FlagsWord(b)
    BY <1>5, <1>8 DEF LinkedSoFar
  <2>4. Carries(G, insns, b, env, after) \/ LoadsFlags(G, insns, b, after)
    BY <1>3, <1>7, <2>3 DEF Extends
  <2> HIDE DEF b, env, after
  <2>5. CASE Carries(G, insns, b, env, after)
    <3>1. /\ Linked(G, c, after) /\ KeepsSpecial(after, env) /\ NoPopfq(insns)
          /\ WritesFlags(insns) \/ SameFlags(c, b)
      BY <2>5 DEF Carries
    <3>2. KnownIn(d, Len(d) + 1) => after.reg["RFLAGS"] = FlagsWord(c)
      <4> SUFFICES ASSUME KnownIn(d, Len(d) + 1) PROVE after.reg["RFLAGS"] = FlagsWord(c)
        OBVIOUS
      <4>1. KnownIn(code, Len(code) + 1) /\ SameFlags(c, b)
        BY <1>7, <3>1
      <4>2. after.reg["RFLAGS"] = env.reg["RFLAGS"]
        BY <3>1, GprIsReg DEF KeepsSpecial
      <4> QED BY <2>3, <4>1, <4>2, FlagsWordKept
    <3> QED BY <2>1, <2>2, <3>1, <3>2
  <2>6. CASE LoadsFlags(G, insns, b, after)
    BY <2>1, <2>2, <2>6 DEF LoadsFlags
  <2> QED BY <2>4, <2>5, <2>6
<1> QED BY <1>5, <1>9 DEF LinkedSoFar, Before


LEMMA PairExtends ==
  ASSUME RecompilerInv, NEW G \in Sides, i + 1 <= Len(ir), IsPair(i),
         EmitPair(ir[i], ir[i + 1]) # Throws,
         \A n \in 1..(i + 1) : IsTranslated(n) /\ Compared(G, ir[n])
  PROVE  Extends(G, EmitPair(ir[i], ir[i + 1]), 2)
<1> DEFINE first == ir[i]
           second == ir[i + 1]
           insns == EmitPair(first, second)
<1>1. ir \in Stream /\ i \in Nat \ {0} /\ Len(ir) \in Nat
  BY DEF RecompilerInv, TypeOK, Stream
<1>2. first \in Statement \cup ControlStatement /\ second \in Statement \cup ControlStatement
  BY <1>1 DEF Stream
<1>3. i \in 1..(i + 1) /\ i + 1 \in 1..(i + 1) /\ i < Len(ir)
  BY <1>1
<1>4. IsTranslated(i) /\ IsTranslated(i + 1) /\ Compared(G, first) /\ Compared(G, second)
  BY <1>3
<1>5. first \in Statement /\ second \in Statement
  BY <1>2, <1>4 DEF IsTranslated, IsControl, ControlStatement
<1>6. AtOneWidth(first) /\ AtOneWidth(second) /\ FusedFaithfully(first, second)
  BY <1>3, <1>4 DEF IsTranslated
<1>7. IsPush(first, second) \/ IsPop(first, second)
  BY DEF IsPair
<1>8. G \in SUBSET GPR /\ "RSP" \in G
  BY SidesAre
<1>9. second.kind = "store" /\ IsExpressionValue(second.value) =>
        second.value \in Value /\ Visible(second.value, G) /\ AddressFits(second.value)
  <2> SUFFICES ASSUME second.kind = "store", IsExpressionValue(second.value)
               PROVE  second.value \in Value /\ Visible(second.value, G) /\ AddressFits(second.value)
    OBVIOUS
  <2>1. second.value \in Expression
    BY <1>5 DEF Statement, AssignStatement, StoreStatement
  <2>2. second.value \in Value /\ ValueReads(second.value) = Reads(second.value)
    BY <2>1, KindIsSet DEF Reads, FlatReads, IsExpressionValue
  <2>3. AddressFits(second.value)
    BY <1>4 DEF IsTranslated, AddressesFit, FlatValues, IsExpressionValue
  <2> QED BY <1>4, <2>2, <2>3, ComparedSees
<1> HIDE DEF first, second
<1> SUFFICES ASSUME NEW cpu \in Entered,
                    Linked(G, Run(code, cpu), Before(cpu)),
                    NoPopfq(insns) /\ (\E k \in DOMAIN insns : insns[k].id = "pushfq")
                      => Before(cpu).reg["RFLAGS"] = FlagsWord(Run(code, cpu))
             PROVE  LET after == RunIR(SubSeq(ir, 1, i + 2 - 1), EnvOf(cpu))
                    IN \/ Carries(G, insns, Run(code, cpu), Before(cpu), after)
                       \/ LoadsFlags(G, insns, Run(code, cpu), after)
  BY DEF Extends, first, second
<1> DEFINE c == Run(code, cpu)
           env == Before(cpu)
           after == ExecStatement(second, ExecStatement(first, env))
<1>10. RunIR(SubSeq(ir, 1, i + 2 - 1), EnvOf(cpu)) = after
  <2>1. i + 2 - 1 = i + 1
    BY <1>1
  <2>2. RunIR(SubSeq(ir, 1, i + 1), EnvOf(cpu)) = after
    BY <1>1, <1>3, BeforeNext DEF first, second
  <2> QED BY <2>1, <2>2
<1>11. insns # Throws
  BY DEF first, second
<1> HIDE DEF c, env
<1>12. CASE IsPush(first, second)
  <2>1. insns = EmitStackOp("push", second.value)
    BY <1>12 DEF EmitPair
  <2>2. second.value \in Value /\ Visible(second.value, G) /\ AddressFits(second.value)
    BY <1>9, <1>12 DEF IsPush
  <2> HIDE DEF insns
  <2>3. NoPopfq(insns)
    BY <1>11, <2>1, <2>2, PushKeepsFlags
  <2>4. (\E k \in DOMAIN insns : insns[k].id = "pushfq") => env.reg["RFLAGS"] = FlagsWord(c)
    BY <2>3 DEF c, env
  <2>5. Linked(G, c, env)
    BY DEF c, env
  <2>6. Carries(G, insns, c, env, ExecStatement(second, ExecStatement(first, env)))
    BY <1>5, <1>6, <1>8, <1>11, <1>12, <2>1, <2>2, <2>4, <2>5, PushPairMeans
  <2> QED BY <1>10, <2>6 DEF c, env
<1>13. CASE ~IsPush(first, second)
  <2>1. insns = EmitStackOp("pop", first.dst) /\ IsPop(first, second)
    BY <1>7, <1>13 DEF EmitPair
  <2> HIDE DEF insns
  <2>2. Linked(G, c, env)
    BY DEF c, env
  <2>3. LET e == ExecStatement(second, ExecStatement(first, env))
        IN Carries(G, insns, c, env, e) \/ LoadsFlags(G, insns, c, e)
    BY <1>5, <1>6, <1>8, <1>11, <2>1, <2>2, PopPairMeans
  <2> QED BY <1>10, <2>3 DEF c, env
<1> QED BY <1>12, <1>13

LEMMA StatementExtends ==
  ASSUME RecompilerInv, NEW G \in Sides, i <= Len(ir), EmitStatement(ir[i]) # Throws,
         IsTranslated(i), Compared(G, ir[i])
  PROVE  Extends(G, EmitStatement(ir[i]), 1)
<1> DEFINE s == ir[i]
           insns == EmitStatement(s)
<1>1. ir \in Stream /\ i \in Nat \ {0} /\ Len(ir) \in Nat
  BY DEF RecompilerInv, TypeOK, Stream
<1>2. s \in Statement \cup ControlStatement
  BY <1>1 DEF Stream
<1>3. /\ ~IsControl(s) /\ ~IsRotate(s) /\ AtOneWidth(s) /\ AddressesFit(s)
      /\ (s.kind = "assign" => ~Overwrites(s))
      /\ Compared(G, s)
  BY DEF IsTranslated
<1>4. s \in Statement
  BY <1>2, <1>3 DEF IsControl, ControlStatement
<1> HIDE DEF s
<1> SUFFICES ASSUME NEW cpu \in Entered, Linked(G, Run(code, cpu), Before(cpu))
             PROVE  Carries(G, insns, Run(code, cpu), Before(cpu),
                            RunIR(SubSeq(ir, 1, i + 1 - 1), EnvOf(cpu)))
  BY DEF Extends, s
<1>5. RunIR(SubSeq(ir, 1, i + 1 - 1), EnvOf(cpu)) = ExecStatement(s, Before(cpu))
  <2>1. i + 1 - 1 = i
    BY <1>1
  <2>2. RunIR(SubSeq(ir, 1, i), EnvOf(cpu)) = ExecStatement(s, Before(cpu))
    BY <1>1, BeforeNext DEF s
  <2> QED BY <2>1, <2>2
<1>6. EmitStatement(s) # Throws
  BY DEF s
<1>7. Carries(G, EmitStatement(s), Run(code, cpu), Before(cpu), ExecStatement(s, Before(cpu)))
  BY <1>3, <1>4, <1>6, StatementMeans
<1> QED BY <1>5, <1>7

LEMMA NextKeepsMeaning == MeaningInv /\ [Next]_vars => MeaningInv'
<1> SUFFICES ASSUME MeaningInv, [Next]_vars PROVE MeaningInv'
  OBVIOUS
<1>1. RecompilerInv /\ RecompilerInv' /\ i \in Nat /\ Len(ir) \in Nat
  BY NextKeepsInv DEF MeaningInv, RecompilerInv, TypeOK, Stream
<1> SUFFICES ASSUME NEW G \in Sides PROVE FaithfulSoFar(G)'
  BY <1>1 DEF MeaningInv
<1>2. FaithfulSoFar(G)
  BY DEF MeaningInv
<1>3. CASE CompilePair
  <2> DEFINE insns == EmitPair(ir[i], ir[i + 1])
  <2>1. /\ status = "compiling" /\ i + 1 <= Len(ir) /\ IsPair(i) /\ Emit(insns, 2)
        /\ ir' = ir /\ i' = i + 2
    BY <1>3 DEF CompilePair, IsPair, Emit
  <2>2. Sound(insns)
    <3>1. ir[i] \in Statement \cup ControlStatement /\ ir[i + 1] \in Statement \cup ControlStatement
      BY <1>1, <2>1 DEF RecompilerInv, TypeOK, Stream
    <3> QED BY <2>1, <3>1, PairSound DEF IsPair
  <2>3. insns # Throws /\ Consumed(G)' => Extends(G, insns, 2)
    <3> SUFFICES ASSUME insns # Throws, Consumed(G)' PROVE Extends(G, insns, 2)
      OBVIOUS
    <3>1. \A n \in 1..(i + 1) : IsTranslated(n) /\ Compared(G, ir[n])
      <4>1. i' - 1 = i + 1
        BY <1>1, <2>1
      <4>2. \A n \in 1..(i' - 1) : (IsTranslated(n) /\ Compared(G, ir[n]))'
        BY DEF Consumed
      <4> QED BY <2>1, <4>1, <4>2 DEF IsTranslated
    <3> QED BY <1>1, <2>1, <3>1, PairExtends
  <2> QED BY <1>1, <1>2, <2>1, <2>2, <2>3, EmitKeepsMeaning
<1>4. CASE CompileStatement
  <2> DEFINE insns == EmitStatement(ir[i])
  <2>1. /\ status = "compiling" /\ i <= Len(ir) /\ Emit(insns, 1)
        /\ ir' = ir /\ i' = i + 1
    BY <1>4 DEF CompileStatement, Emit
  <2>2. Sound(insns)
    <3>1. ir[i] \in Statement \cup ControlStatement
      BY <1>1, <2>1 DEF RecompilerInv, TypeOK, Stream
    <3> QED BY <3>1, StatementSound
  <2>3. insns # Throws /\ Consumed(G)' => Extends(G, insns, 1)
    <3> SUFFICES ASSUME insns # Throws, Consumed(G)' PROVE Extends(G, insns, 1)
      OBVIOUS
    <3>1. IsTranslated(i) /\ Compared(G, ir[i])
      <4>1. i \in 1..(i' - 1)
        BY <1>1, <2>1 DEF RecompilerInv, TypeOK
      <4>2. \A n \in 1..(i' - 1) : (IsTranslated(n) /\ Compared(G, ir[n]))'
        BY DEF Consumed
      <4> QED BY <2>1, <4>1, <4>2 DEF IsTranslated
    <3> QED BY <1>1, <2>1, <3>1, StatementExtends
  <2> QED BY <1>1, <1>2, <2>1, <2>2, <2>3, EmitKeepsMeaning
<1>5. CASE Finalize \/ UNCHANGED vars
  <2>1. ir' = ir /\ i' = i /\ code' = code /\ (status' # "threw" => status # "threw")
    BY <1>5 DEF Finalize, vars
  <2> QED BY <1>2, <2>1 DEF FaithfulSoFar, Consumed, IsTranslated, PushesKnownFlags, FlagsKnown,
                            LinkedSoFar, Before
<1> QED BY <1>3, <1>4, <1>5 DEF Next

\* Whatever the stream, the word sizes and the state a block is entered in, the
\* instructions emitted so far leave registers and memory as the statements
\* consumed so far do.
THEOREM EmittedMeansIRHolds == Spec => []EmittedMeansIR
<1>1. MeaningInv => EmittedMeansIR
  <2> SUFFICES ASSUME MeaningInv, status # "threw", \A n \in 1..(i - 1) : HasDataMeaning(n),
                      PushesKnownFlags, NEW cpu \in CPUs
               PROVE  SameData(Run(code, cpu), RunIR(SubSeq(ir, 1, i - 1), EnvOf(cpu)))
    BY DEF EmittedMeansIR
  <2>1. GPR \in Sides /\ Consumed(GPR)
    BY DEF Sides, Consumed, HasDataMeaning, Compared
  <2>2. LinkedSoFar(GPR) /\ cpu \in Entered
    BY <2>1, CPUsAssumption DEF MeaningInv, FaithfulSoFar
  <2> QED BY <2>2, LinkedMeansSameData DEF LinkedSoFar, Before
<1> QED BY <1>1, InitEstablishesMeaning, NextKeepsMeaning, PTL DEF Spec

\* Whatever the stream, an operator stored to the cell it updates costs RAX and
\* nothing else.
THEOREM MemoryOperatorConfinedHolds == Spec => []MemoryOperatorConfined
<1>1. MeaningInv => MemoryOperatorConfined
  <2> SUFFICES ASSUME MeaningInv, status # "threw", PushesKnownFlags, NEW cpu \in CPUs,
                      \A n \in 1..(i - 1) :
                        IsTranslated(n) /\ UpdatesItsCell(ir[n]) /\ ~ReadsRax(ir[n])
               PROVE  LET after == Run(code, cpu)
                          meant == RunIR(SubSeq(ir, 1, i - 1), EnvOf(cpu))
                      IN SameData([after EXCEPT !.gpr["RAX"] = meant.reg["RAX"]], meant)
    BY DEF MemoryOperatorConfined
  <2>1. GPR \ {"RAX"} \in Sides /\ Consumed(GPR \ {"RAX"})
    BY DEF Sides, Consumed, Compared
  <2>2. LinkedSoFar(GPR \ {"RAX"}) /\ cpu \in Entered
    BY <2>1, CPUsAssumption DEF MeaningInv, FaithfulSoFar
  <2> DEFINE after == Run(code, cpu)
             meant == RunIR(SubSeq(ir, 1, i - 1), EnvOf(cpu))
  <2>3. Linked(GPR \ {"RAX"}, after, meant)
    BY <2>2 DEF LinkedSoFar, Before
  <2> HIDE DEF after, meant
  <2>4. SameData([after EXCEPT !.gpr["RAX"] = meant.reg["RAX"]], meant)
    BY <2>3 DEF Linked, Machine, SameData
  <2> QED BY <2>4 DEF after, meant
<1> QED BY <1>1, InitEstablishesMeaning, NextKeepsMeaning, PTL DEF Spec
=============================================================================
