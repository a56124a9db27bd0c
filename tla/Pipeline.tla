------------------------------ MODULE Pipeline ------------------------------
(***************************************************************************)
(* The pipeline of main(): bytes are lifted, the IR is simplified in place *)
(* and recompiled.  A caller of the classes may leave the simplifier out.  *)
(* The three components are those of Lifter, Simplifier and Recompiler,    *)
(* which share the statement stream.                                       *)
(***************************************************************************)
EXTENDS Lifter, IRMeaning, SequencesExt

CONSTANT CPUs    \* the processor states a block is tried from

ASSUME CPUsAssumption == CPUs \subseteq Entered

VARIABLES
  stage,                    \* "lift", "simplify" or "compile"
  ir, pos, passes, original, \* Simplifier; ir is also the Recompiler's
  i, code, status           \* Recompiler

laterVars == <<stage, ir, pos, passes, original, i, code, status>>
pipelineVars == <<vars, laterVars>>

S == INSTANCE Simplifier WITH Blocks <- {}, MaxPasses <- 1
R == INSTANCE Recompiler WITH Streams <- {}

-----------------------------------------------------------------------------
PipelineInit ==
  /\ Init
  /\ stage = "lift"
  /\ ir = <<>> /\ pos = 1 /\ passes = 0 /\ original = <<>>
  /\ i = 1 /\ code = <<>> /\ status = "compiling"

Lift == stage = "lift" /\ Next /\ UNCHANGED laterVars

HandOver(next) ==
  /\ stage = "lift" /\ phase = "done"
  /\ stage' = next
  /\ ir' = statements
  /\ original' = statements
  /\ UNCHANGED <<vars, pos, passes, i, code, status>>

BeginSimplify == HandOver("simplify")

SkipSimplify == HandOver("compile")

Simplify ==
  /\ stage = "simplify"
  /\ S!Next
  /\ UNCHANGED <<vars, stage, i, code, status>>

BeginCompile ==
  /\ stage = "simplify" /\ passes = 1
  /\ stage' = "compile"
  /\ UNCHANGED <<vars, ir, pos, passes, original, i, code, status>>

Compile ==
  /\ stage = "compile"
  /\ R!Next
  /\ UNCHANGED <<vars, stage, pos, passes, original>>

PipelineNext ==
  Lift \/ BeginSimplify \/ SkipSimplify \/ Simplify \/ BeginCompile \/ Compile

\* One thread runs the components one after the other and none of them waits.
PipelineSpec == PipelineInit /\ [][PipelineNext]_pipelineVars /\ WF_pipelineVars(PipelineNext)

-----------------------------------------------------------------------------
\* The refinement of BlockTranslator: the block is taken when it is handed to a
\* later component, the answer given when the last component has.
T == INSTANCE BlockTranslator WITH
       block  <- IF stage = "lift" THEN <<>> ELSE source,
       answer <- IF stage = "lift" THEN IF phase = "failed" THEN "refused" ELSE "none"
                 ELSE CASE status = "threw" -> "refused"
                        [] status = "done"  -> "delivered"
                        [] OTHER            -> "pending",
       output <- IF status = "done" THEN code ELSE <<>>

(***************************************************************************)
(* What becomes of an instruction that no other disturbs, without the      *)
(* simplifier: one without a handler is dropped, a high byte becomes the   *)
(* low one, lea a load, a displacement keeps its low 32 bits, an operator  *)
(* on memory goes through RAX, and one that has no encoding or names RIP   *)
(* is refused.                                                             *)
(***************************************************************************)
Kept ==
  FlattenSeq([k \in DOMAIN source |->
    IF source[k].id \in HandledIds THEN <<source[k]>> ELSE <<>>])

Recoded(o) ==
  CASE o.type = "imm" -> ImmOp(R!Signed(o.imm % Modulus[64]))
    [] o.type = "reg" -> [o EXCEPT !.reg.high = FALSE]
    [] o.type = "mem" -> [o EXCEPT !.disp = R!Offset(@)]

Recompiled(x) ==
  LET ops == [k \in DOMAIN x.ops |-> Recoded(x.ops[k])]
  IN IF x.id \in BinaryIds /\ x.ops[1].type = "mem"
     THEN <<Insn("mov", <<R!Rax64, ops[1]>>), Insn(x.id, <<R!Rax64, ops[2]>>),
            Insn("mov", <<ops[1], R!Rax64>>)>>
     ELSE <<Insn(IF x.id \in {"movabs", "lea"} THEN "mov" ELSE x.id, ops)>>

Refused(x) ==
  \/ x.id \in {"call", "ret"} \/ T!NamesRip(x)
  \/ x.id = "pop" /\ x.ops[1].type = "mem"
  \/ \E k \in DOMAIN Recompiled(x) : ~R!Encodable(Recompiled(x)[k])

Direct(x) == x.id = "jmp" => x.ops[1].type = "imm"

Undisturbed ==
  /\ \A k \in DOMAIN source : Direct(source[k])
  /\ \A k \in DOMAIN Kept : ~T!IdiomAt(Kept, k)

-----------------------------------------------------------------------------
(***************************************************************************)
(* Properties.                                                             *)
(***************************************************************************)

\* Without the simplifier, a block in which no hand-written push or pop is
\* hidden is recompiled instruction by instruction: every push and pop, of RSP
\* and of the flags too, is recognised in the statement stream, no neighbour is
\* drawn into one, nothing else is lost, doubled or reordered than what Kept and
\* Recompiled say, and compile() throws exactly if it meets a refused one.
RoundTrip ==
  stage = "compile" /\ passes = 0 /\ Undisturbed =>
    /\ status = "threw" => \E k \in DOMAIN Kept : Refused(Kept[k])
    /\ status = "done" =>
         /\ \A k \in DOMAIN Kept : ~Refused(Kept[k])
         /\ code = FlattenSeq([k \in DOMAIN Kept |->
                     [n \in DOMAIN Recompiled(Kept[k]) |-> R!Encoded(Recompiled(Kept[k])[n])]])

\* The pipeline is a block translator: with or without the simplifier, a block
\* of surviving instructions is compiled to one that behaves like it, whatever
\* is refused leaves no code, and nothing changes once it was answered.
TranslatesBlocks == T!TranslatorSpec

\* A block that was handed over to a later component is delivered or refused in
\* the end.
BlockAnswered == T!Answered

\* What RegisterAst and the recompiler get: simplified or not, and half-way
\* through, no id of the stream has two definitions and every read still carries
\* the id of the definition that reaches it.
UsesSurvive == stage # "lift" => SSAIds(ir) /\ ReadsReach(ir)

\* And every operator still has its destination on its left, which emit_binary_mem
\* drops and emit_binary_reg overwrites before it reads the right one.
InPlaceSurvives == stage # "lift" => AllInPlace(ir)

\* And the value of a store is still the node it was: RegisterAst keeps a pointer
\* to it, which the rules that put another node in its place, of another kind,
\* would leave dangling.
StoredNodesStay ==
  stage # "lift" =>
    \A n \in DOMAIN ir : ir[n].kind = "store" => ir[n].value.kind = original[n].value.kind

Plain == \A k \in DOMAIN source : T!Survives(source[k]) /\ ~T!IdiomAt(source, k)

\* Simplifier.h:9-11, the rules rewrite "nodes that match a known-safe pattern":
\* a block that is simplified leaves the registers, the memory and the exit it
\* left before, those that depend on a flag included.
SimplifierIsSafe ==
  stage = "compile" /\ passes = 1 /\ status = "done" /\ Plain =>
    \A cpu \in CPUs : T!SameEffect(Run(source, cpu), Run(code, cpu))

\* Simplifier.h:80-82, negating the immediate "keeps the value identical": a
\* block that compiles as it is still compiles when it is simplified.
SimplifiedCompiles == stage = "compile" /\ passes = 1 /\ Plain => status # "threw"

\* Recompiler.h:317, "RIP must never arrive here": operand() is never asked for
\* the operand of RIP.
RipNeverArrives ==
  stage = "compile" /\ status = "compiling" /\ R!IsPair(i) =>
    LET v == IF R!IsPush(ir[i], ir[i + 1]) THEN ir[i + 1].value ELSE ir[i].dst
    IN ~R!IsReg(v, "RIP")
=============================================================================
