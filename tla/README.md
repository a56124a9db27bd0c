# Asm2IR: a verification development

Asm2IR (`src/`, about 1700 lines of C++ headers and a `main.cpp`) lifts a block of x86-64
instructions to an SSA-numbered intermediate representation, simplifies it, resolves registers
symbolically, prints it, and recompiles it to machine code. These TLA+ modules model the pipeline,
TLC checks them on small instances, and TLAPS proves for blocks of any length that lifting and
recompiling preserve what a block does to registers and memory and that simplifying preserves what
each statement does, that the expression RegisterAst gives for a register has the value of that
register, that what is printed tells statements apart, that without the simplifier a block is
recompiled instruction by instruction, and what the parts of the pipeline rely on in each other: the
SSA numbering, the shape of operators, and that the pipeline answers each block once.

File names below without a directory are in `src/`.

## 1. Inventory

| Component | Code | State | Operations | Must be right |
|---|---|---|---|---|
| IR nodes and stream | `expression.h`, `Statement.h`, `IR.h` | `statements`, `next_id` | `add`, `allocate_assign_id` | trees of bounded depth; a statement is an assignment or a store |
| Register file | `expression.h:111-131` | `versions`, one counter per register | `reset`, `tag_read`, `tag_write` | an id names one definition; a read carries the id of the definition that reaches it |
| Lifter | `Lifter.h` | register file, stream under construction | `lift`, one handler per instruction | statements mean what the instruction does |
| Simplifier | `Simplifier.h` | the stream, rewritten in place | `simplify` | meaning unchanged; one walk suffices; no new reads |
| RegisterAst | `Registerast.h` | index of definitions and stores, pointers into the IR | constructor, `build_last`, `build` | the expression has the value the register has; no pointer dangles |
| Printing | `IR.h`, `expression.h` | none | `statements_str` and what it calls | every operator has a name; different statements read differently |
| Recompiler | `Recompiler.h` | cursor, assembler buffer | `compile` | code means what the statements mean; all or nothing |
| Pipeline | `main.cpp` | who holds the IR | lift, simplify, query, compile | the block that comes out behaves as the block that went in |

**How they interact.** Everything is a call on one thread. `Lifter::lift` returns an `IR`;
`Simplifier::simplify` takes it by reference and replaces expressions inside its statements;
`RegisterAst` keeps raw pointers into it; `Recompiler::compile` reads it. Capstone decodes for the
lifter, AsmJit encodes for the recompiler; both are libraries outside the repository and external
in the model.

**What is hard.** There is no concurrency and nothing is persisted, so there are no interleavings,
timeouts or crashes to model. What is hard is *order and staleness in a stream of statements*:

- one instruction becomes two statements whose order matters (`push`, `pop`), and the recompiler
  finds the pair again by a two-statement window which knows nothing of where they came from;
- a read is tagged from counters that the same call increments;
- RegisterAst resolves a use by its position, each address where its statement stands;
- RFLAGS and ZF in the IR are never updated by arithmetic, and the recompiler trusts the processor
  to still have the right ones;
- the arithmetic of immediates at the ends of their ranges;
- AsmJit may refuse an instruction in the middle of a block.

`PROJECT.json` lists each of these at its line, with the properties that cover it.

## 2. Modules

```
X86Insn            instructions and operands (external: Capstone, AsmJit)
  IRTypes          IR nodes, statements, words
    Lifter             lift(), handlers, register file
    Simplifier         simplify()
    Recompiler         compile()
    RegisterAst        a session on an IR (and Lifter, Simplifier by INSTANCE)
    IRText             statements_str()
    X86Machine         what the processor does (external)
      IRMeaning          what statements mean
      BlockTranslator    what Asm2IR promises of a block (abstract)
LiftMeaning        = Lifter      + IRMeaning
SimplifierMeaning  = Simplifier  + IRMeaning
RecompilerMeaning  = Recompiler  + IRMeaning
RegisterAstMeaning = RegisterAst + IRMeaning + IRText
Pipeline           = Lifter, Simplifier and Recompiler sharing the stream; refines BlockTranslator
MC*                constants for TLC; MCScale is the scale all of them share

theorems about     in
X86Machine, IRMeaning    ExecutionProofs (lemmas: running one more step, what each instruction means)
Lifter                   LifterProofs, LiftMeaningProofs
Simplifier               SimplifierProofs
Recompiler               RecompilerProofs, RecompilerMeaningProofs
RegisterAst, IRText      RegisterAstProofs
Pipeline                 PipelineProofs
```

- **IRTypes.** A C++ class is a set of records with a `kind`; `dynamic_cast` is a test of it. The
  lifter and the simplifier only build a Value, an operator over Values or the one
  ConditionalExpression of a jump, so the types are that bounded family and need no recursion.
  `ImmV` is `static_cast<uint64_t>`: it wraps.
- **Lifter.** `phase`, `versions`, `statements`, `next_id`, and the history variables `source` and
  `lifts`. `StartLift` is the reset at the head of `lift()`, `DisassemblyFails` its exception, one
  `Handle...` action per handler, `SkipUnhandled` the instruction that has none. Handlers that emit
  two statements compose state-to-state operators (`EmitStackPush`), as the code composes calls.
  An indirect `jmp` reads the wrong member of a union: the target is any of `UnionReads`.
- **Simplifier.** A cursor `pos` over `ir`, `VisitStatement` per iteration of the loop, `FinishPass`
  where `simplify()` returns; `passes` counts calls.
- **Recompiler.** A cursor `i`, the `code` in the assembler and a `status`. Each emitter is an
  operator returning instructions or `Throws`, in the order in which the code would check.
  `Encodable` says what AsmJit accepts, `Encoded` what it makes of differing sizes.
- **RegisterAst.** A session: a lifted stream, `Construct`, `SimplifyIR` before or after it, and
  any number of queries (`BuildLast`, `Build`) at any time once it is built. `resolve()` and its
  argument `depth` are a recursive function from the levels that are left to a table: `Resolver(ss,
  gone)[n]` gives the answer for each expression and position, in terms of the tables one level down
  (`below`) and two (`under`, for the address of a store), and is `TooDeep` where no level is left; a
  throw anywhere below makes the whole answer `TooDeep`. An answer is a new tree, and unlike the
  IR's its depth is not bounded, so it is the sequence of its nodes in postfix order, the order in
  which `resolve()` makes them; `same_expr` is equality. A definition is read through its statement,
  which stays, but a store through a pointer to its value as it was at construction
  (`Registerast.h:57`, `:100`): `freed` holds the stores whose value another node has replaced since,
  and a query that reads one answers `Dangling`. `SimplifyIR` forgets the last query, because an
  answer is about the stream it was asked of. The constant `Streams` is any set of streams `AsLifted`,
  which every stream of the lifter is (`LiftedStreamsServe`).
- **IRText.** `statement_str` and `expression_str` as sequences of tokens, with the two tables of
  operator names. It also says what a text leaves out (`ShownStatement`): the size of a memory
  operand, the sign of a displacement that stands alone, whether a register that stands alone in
  brackets is the base or the index, the width of RIP, RFLAGS and ZF, and an id that was never given.
- **BlockTranslator.** A block is taken, then refused or answered by a block, and nothing changes
  after that. `ProtocolSpec` is this order alone, `TranslatorSpec` adds that a `Translatable` block
  is never refused and that its answer `BehavesLike` it.
- **Pipeline.** `stage` says who holds the stream. The simplifier may be left out: a caller of the
  classes may do so, and the difference between both ways is what several properties are about. The
  refinement mapping takes the block when a later component is handed it, and the answer from the
  recompiler's `status`. `main()`'s query of RegisterAst changes nothing and is in the sessions of
  that module.

## 3. The machine everything is compared with

`X86Machine` gives each instruction its effect on registers, memory, CF, ZF, SF, OF and the exit of
the block. `IRMeaning` gives each statement its effect on an environment of registers and memory.
TLC cannot enumerate 64-bit words, so both are **scaled** by the constant `Modulus`: widths 8, 16,
32, 64 are 1, 2, 3 and 4 bits, a word is 0..15, a sign-extended 32-bit immediate is -4..3 and the 8
bytes of a stack slot are `Slot = 1` cell. Memory is one 64-bit cell per address, so accesses
overlap fully or not at all; shifts and rotates are by one. The rules of the code that depend on
sizes (wrap-around, all-ones mask, the range of an immediate, zeroing of the upper half by 32-bit
writes) keep their boundaries in that scale, and every 4-bit immediate is tried.

The exclusive or of two words is the constant `XorWord`, of which the modules assume only that
`a ^ a = 0`, that `a ^ (2^w - 1)` is the complement, and that it stays within the width of its operands
(`XorAssumption`); each width divides the word (`NestAssumption`) and holds at least one bit
(`ScaleAssumption`). `MCScale` gives TLC the real one on four bits, the proofs use the laws.

RFLAGS is a word of the four flags (`FlagsSpan`): a value written to it keeps those and no other bit
(`Held`), as `popfq` does. A block is entered before any jump was taken (`Entered`), which is what the
compared processor states are drawn from. `Run` and `RunIR` are recursive functions from the number of
steps to the state after them.

## 4. Runs

| Run | Distinct states | Shows |
|---|---|---|
| `LifterBlocks` | 148 241 | 32 instructions, blocks of up to 3, two lifts of one object: `SingleAssignment`, `ReadsSeeReachingDef`, `OperatesInPlace`, `TypeOK`, and from three processor states `DataPreserved`, `JumpDecided` |
| `SimplifierRules` | 11 976 | `MeaningPreserved` in 15 environments, `OnePassSuffices`, `ReadsShrink`, `TypeOK` |
| `RecompilerWindow` | 44 838 | streams of two and three chunks: `EmittedMeansIR`, `MemoryOperatorConfined`, `PairsWhole`, `CompletesOrThrows`, `TypeOK` |
| `PipelineRoundTrip` | 897 456 | 38 instructions, blocks of up to 3, with and without the simplifier: `RoundTrip`, `UsesSurvive`, `InPlaceSurvives`, `StoredNodesStay`, and the refinement `TranslatesBlocks` |
| `PipelineAnswers` | 39 947 | blocks of up to 2 and two lifts, with fairness: `BlockAnswered`, `TranslatesBlocks` across a failed lift |
| `RegisterAstResolve` | 372 448 | sessions on the streams of 2 and 3 instructions: `LastValueResolved`, `VersionResolved`, `DepthSuffices`, `NothingDangles`, `EverythingNamed`, `PrintedApart` |

**What the main properties say.** `RoundTrip` is exact: without the simplifier, the code of a block
is instruction for instruction what `Kept` and `Recompiled` say, and `compile()` throws exactly for a
block that holds a `Refused` instruction. These three definitions are the list of what Asm2IR does
to an instruction it does not keep as it is. `TranslatesBlocks` is about behaviour: simplified or not,
a `Translatable` block is delivered as a block with the same registers, memory and exit, and the same
flags if they were set again after whatever may lose them. `MemoryOperatorConfined` bounds the damage
of an operator stored to memory, which is computed in RAX: RAX is lost and nothing else.
`NothingDangles` says that simplifying under a live RegisterAst is harmless, and `StoredNodesStay`
why: the only rule that applies to an operator over its own cell changes the node where it is.

**Bounds.** Blocks have up to three instructions, that is six statements: the recompiler's window
is two statements, so three instructions give every overlap of a pair with both neighbours; the
simplifier looks at one statement; a definition, its redefinition and a use are three instructions.
Two lifts show what survives a reset. The registers are RAX (the scratch register of the
recompiler), RSP and one other, with RIP, RFLAGS and ZF. `MaxDepth = 12` puts the depth limit of
RegisterAst inside the range of the streams: some reach it and are answered `TooDeep`, most do not; `DepthSuffices` says for which none does,
`3 * Len(ir) <= MaxDepth + 1`, and a stream of statements over operators over loads attains it.
A RegisterAst session simplifies its stream at most once, since a second walk changes nothing
(`OnePassSuffices`). Three environments or processor states per block are chosen with different
addresses, sign bits and flags. `CHECK_DEADLOCK` is off in every run, because every component stops
when it is done.

**Preconditions.** The meaning properties hold for the blocks the IR can speak for, and the
definitions that say which (`Expressible`, `Survives`, `Translatable`, `IsTranslated`, `Within`) are
a list of what Asm2IR does not translate:

- a high byte register is lifted as the low one (`Lifter.h:26`);
- `lea` is lifted, and recompiled, as a load (`Lifter.h:245-250`);
- `call` and `ret` become a push and a pop of RIP, which do not compile;
- an operand relative to RIP and a `pop` to memory do not compile either (unless `sub rsp, 8` stands before
  a `pop` to the top of the stack, and the window takes the two for a push: `PopsToTop`);
- rotates through carry have no meaning in the IR, though they are recompiled as they are;
- RFLAGS and ZF of the IR are those of the entry or of the last `popfq`, and `jg`, `jge`, `jl`, `jle`
  compare ZF with 0: a jump is right because the recompiler turns the comparison back into the
  condition code it came from;
- an operator stored to memory is recompiled through RAX (`Recompiler.h:179-186`);
- unhandled instructions are dropped (`Lifter.h:203-205`), among them the `not` and `cmp` that the
  recompiler itself emits;
- hand-written stack idioms are fused into a push or a pop, which is right for whole registers
  (`GoodIdiom`) but changes flags, and is wrong for a 32-bit adjustment (`FusedFaithfully`);
- the statements of a push or a pop move eight bytes whatever the operand's size (`MovesSlot`), and a
  push or a pop that mentions RSP sees it at another time than the processor;
- AsmJit takes the width of a register for both operands, so a statement over operands of different
  widths compiles to another one (`AtOneWidth`; the lifter makes none but the counts of shifts), and a
  left operand that is moved in place overwrites what the right one may read (`Overwrites`);
- a jump to the address the lifter falls through to, which is no address of the block, would not show
  whether it was taken (`EndsInJump`);
- an instruction the simplifier rewrites to a move or a not no longer sets its flags, and an add it
  rewrites to a sub sets the opposite carry (`LosesFlags`);
- a `movabs` may have a displacement of 64 bits, which `MemoryValue` keeps and `memory_operand()` hands to a
  parameter of 32 (`Recompiler.h:335`): the upper half is cut off (`Offset`) and the code accesses another
  address (`AddressesFit`). That AsmJit takes what is left, of an operand with neither base nor index, as
  the address is external;
- RegisterAst ignores widths (`WholeWords`) and matches addresses by shape (`NoHiddenAlias`: a load and
  an earlier store of the same cell have the same resolved address), as `Registerast.h:26-31` says; it
  does not see an operator that updates memory without a store (`NoMemoryAssign`), and answers a
  `popfq` with all that was loaded, where RFLAGS keeps only the flags (`NoFlagsAssign`).

**Findings.** Six runs each check one sentence of the source and end in a counterexample:
`LiftPushRsp` (`push rsp` in the IR stores the adjusted RSP; the recompiler happens to fuse it back
into the right instruction, RegisterAst does not), `PipelineSimplifierSafe` (below),
`PipelineSimplifiedCompiles` (`add rax, -2^31` cannot be a sub of an immediate), `PipelineRip`,
`RegisterAstLastValueWithNeg` and `RegisterAstVersionZeroIsEntry`.

The rules of the simplifier keep values and not flags, in two ways. A `sub` or `xor` that becomes a move
or a `not` sets none: `PipelineSimplifierSafe` has instructions of its own (`FlagInsns`, of which one is rewritten
and one reads flags), and its counterexample is `sub eax, eax`, which becomes `mov eax, 0`, before a `je`, which
then decides on the flags of the entry. An `add` of a negative immediate that becomes a `sub` leaves the same value and the
opposite carry, which a `rcl` after it would rotate in (`Simplifier.h:89`): no run is about that one, and
`LosesFlags` keeps such blocks out of `TranslatesBlocks`.

**Fairness.** `Recompiler` and `Pipeline` assume weak fairness of their next-state relation, for
`CompletesOrThrows` and `BlockAnswered`: both are loops on one thread without blocking calls, so a
step that is enabled is executed. A caller that has the IR of a block goes on with it, as `main()`
does; which of the two ways it takes is its choice, and no fairness is assumed of that choice.

## 5. Proofs

Twenty-seven theorems, each for every value of the constants that satisfies the named assumptions: any
registers, any word size, blocks and streams of any length, every state a block can be entered in. TLC
evaluates each assumption in a run.

| Theorem | Of | States |
|---|---|---|
| `TypeCorrect`, `SingleAssignmentHolds`, `ReadsSeeReachingDefHolds` | `LifterProofs` | types and SSA numbering of the lifter |
| `LiftedStreamsServe` | `LifterProofs` | every stream of the lifter is one RegisterAst may be built on |
| `OperatesInPlaceHolds` | `LifterProofs` | an operator has its destination on the left, and at most one operand in memory |
| `DataPreservedHolds`, `JumpDecidedHolds` | `LiftMeaningProofs` | the statements of a block leave registers and memory as the processor does, and select the target it jumps to |
| `SimplifierTypeCorrect`, `ReadsShrinkHolds`, `OnePassSufficesHolds` | `SimplifierProofs` | types, reads and normal form of the simplifier |
| `MeaningPreservedHolds` | `SimplifierProofs` | no rule changes what a statement does to an environment |
| `RecompilerTypeCorrect`, `PairsWholeHolds` | `RecompilerProofs` | only encodable instructions are emitted; no pair is torn |
| `EmittedMeansIRHolds`, `MemoryOperatorConfinedHolds` | `RecompilerMeaningProofs` | the emitted code leaves registers and memory as the statements do; an operator stored to memory costs RAX and nothing else |
| `AnswersAreCurrent` | `RegisterAstProofs` | the inductive invariant of a session: the last answer is the one the stream of now gives, with nothing freed |
| `LastValueResolvedHolds`, `VersionResolvedHolds` | `RegisterAstProofs` | the expression of the last or of any version of a register has the value the statements give it |
| `NothingDanglesHolds`, `DepthSufficesHolds` | `RegisterAstProofs` | no query reads a freed node; three levels for each statement are enough |
| `EverythingNamedHolds`, `PrintedApartHolds` | `RegisterAstProofs` | every operator that is printed has a name; statements printed alike are alike |
| `FollowsProtocol` | `PipelineProofs` | `Pipeline` refines `BlockTranslator!ProtocolSpec` |
| `UsesSurviveHolds`, `InPlaceSurvivesHolds`, `StoredNodesStayHolds` | `PipelineProofs` | what the lifter promises still holds when the recompiler and RegisterAst read the stream |
| `RoundTripHolds` | `PipelineProofs` | without the simplifier, what becomes of a block is what becomes of each of its instructions |

**Assumptions.** `GPRAssumption` and `ScaleAssumption` throughout; `LifterAssumption` (Capstone's
operands are well-formed, from which "at most one memory operand" and "both operands of one size" follow),
`SimplifierAssumption` and `RecompilerAssumption` (the inputs are streams) and `RegisterAstAssumption`
(the inputs are streams `AsLifted`: single ids, operators in place, a conditional only as a jump's value)
for their components;
`XorAssumption`, `NestAssumption`, `EnvsAssumption` and `CPUsAssumption` for the meaning.

**SSA numbering.** Neither SSA property is inductive. That a new id is larger than every earlier one
needs a link between the stream and the counters: `versions[r]` is the id of the last definition of
`r`, or -1 if there is none. `IInv` is `TypeOK /\ StateInv(Current)`, where `StateInv` is a predicate
of a state record `[versions, statements, next_id]`. A handler composes one or two operators on such
a record, so there is one preservation lemma per operator (`NewAssignKeepsInv`, `NewStoreKeepsInv`,
`EmitKeepsInv`), which rest on `AppendKeepsInv`: appending a statement whose reads carry the current
ids and whose destination carries the next one keeps the invariant. `OperatesInPlaceHolds` has the
same structure over `InPlaceInv`, which is `IInv` and that all statements are in place; tagging the
reads of both copies of an operand alike is what keeps left and destination equal.

**Running code and statements.** `ExecutionProofs` is the common ground of the two proofs about whole
blocks. A run is a recursive function; that it exists, and that prefixes of equal code run alike, is
induction over the natural numbers, which `SetInduction` derives from their well-foundedness for a set
in the place of a predicate. From it come `RunAppend`, `RunConcat` and `RunIRAppend`: one more
instruction is one more step. Then there is one lemma per kind of instruction (`MovMeans`, `BinaryMeans`,
`UnaryMeans`, `PushMeans`, `PopMeans`, `PushfqMeans`, `PopfqMeans`): if a processor and an environment are
`Linked` in a set of registers and in memory, and each operand `Denotes` a value of the IR, then they
are linked after the instruction and the statement. The set of registers is a parameter because the
recompiler may lose RAX. Width by width the arithmetic is `ModNested` and `ModOfSum`, that reducing to a
narrower width after a wider one is reducing to the narrower at once.

**What lifting preserves.** `LiftInv` is `IInv /\ FaithfulSoFar /\ JumpDecided`. `DataPreserved` by itself is
not inductive: a `pushfq` needs the flags, a conditional jump needs RFLAGS and ZF of the environment, and every
later instruction needs that the block was not left. `LinkedSoFar` adds these: the environment's RFLAGS is the
processor's flags word as long as `RflagsCurrent`, its ZF is the processor's as long as `EntryFlags`, its RIP is
untouched, and the processor is still in the block. Per handler, `...Follows` says that the statements it
appends `Follow` the instruction; tags do not matter to this (`TagReadsMeans`). The second statement of a
push or a pop runs after the first changed RSP, so `MoveAndWriteCommute` shows that moving RSP and writing
an operand that does not speak of RSP commute. `JumpAssigns` gives the value of RIP for a taken and a
not taken jump.

**Simplifier.** Two lemmas about the rewrite of one expression carry the syntactic theorems: it
stays an expression and reads no more (`SimplifyExprShrinks`), and it is a fixed point
(`SimplifyExprIdempotent`), because rule 2 makes a `Sub`, which neither rule 1 nor rule 2 looks at and
rule 3 has already been asked about. `SimplifierInv` adds `Normalised`, that every statement behind
the cursor, or every statement after the first walk, is already a fixed point.
`MeaningPreservedHolds` has one lemma per rule on top of facts about `%` that are proved from the
uniqueness of quotient and remainder (`ModUnique`, `ModShift`): two operands that look the same have the
same value, so they cancel; a sum with `-C` and a difference with `C` agree modulo every width.

**Recompiler.** `Sound` says of an emitter that it returns `Throws` or instructions that can be
encoded; there is a lemma for each emitter. That pairs never overlap (`PairsDoNotOverlap`) is a fact
of the shapes: a pair ends in a store or in an addition, and begins with a subtraction or with the
assignment of a memory operand. With it `RecompilerInv` is inductive.

**What recompiling preserves.** `MeaningInv` is `RecompilerInv` and `FaithfulSoFar(G)` for two sets `G` of
registers, all of them and all but RAX: both theorems are the same statement about what has been consumed, with
different preconditions on the statements and a different `G`. As for the lifter, the flags have to be
added (`Before(cpu)` has the RFLAGS of the code while these are known), because the two properties say nothing of
them and a later `pushfq` reads them. The step is by what is compiled: a fused pair (`PushPairMeans`,
`PopPairMeans`) or one statement (`WriteMeans`, with a lemma for each emitter; `BinaryRegMeans` for the inserted
move, `BinaryMemMeans` for the three instructions through RAX). That encoding loses nothing is the precondition
`AtOneWidth` (`EncodedSame`), and that an operand keeps its address is `AddressesFit` (`Offset` leaves a displacement
of 32 bits alone: `OffsetFacts`); a statement whose displacement is wider is not `IsTranslated`. The second theorem has to exclude an assignment or a store whose *address* is
computed from RAX as well as a value that is (`AddressReads`): after an operator was stored to memory such an address is another one.

**Pipeline.** `FollowsProtocol` maps each step to a step of the abstract protocol or a stutter
(`ProtocolStep`), under `ProtocolInv`: before `compile` nothing has been answered, and what is handed
over is a block. The theorems about the stream use `StreamInv`: until it is handed over, the lifter's own
invariant; afterwards `GoodStream(ir)`, which a rewrite of one statement keeps (`RewriteKeepsStream`)
because it keeps destinations and only drops reads.

**Round trip.** `RoundTrip` is about a whole block, so its invariant says how a block lies in the stream. `Cuts(c, ks, ss)`:
the instructions `ks` cut the stream `ss` at the positions `c`, and the statements between two cuts are, up to
SSA tags (`Alike`), the ones of that instruction (`Lifted`). `CutInv` says that such cuts exist while a block is
lifted; each handler adds one (`HandledAlike`, `CutsExtend`), and an instruction without a handler adds none.
`RoundInv` adds that `compile()` moves from cut to cut (`Progress`): the cursor stands at a cut, the code is that of
the instructions before it, and none of these is refused. The step rests on four facts:

- tags are no part of what the recompiler looks at (`AlikeStatements`, `AlikePairs`);
- what an instruction lifts to is compiled to what `Recompiled` says, or throws if it is `Refused`
  (`AnswersAll`, with a lemma for each kind of instruction; `AnswerThrows`);
- no pair lies across a cut, unless the two instructions are an idiom (`NoStraddle`, `NoWindowAcross`);
- one more sequence is flattened last (`FlattenStep`), which the library's recursive `FlattenSeq` gives by
  `SetInduction`.

**RegisterAst, the session.** `SessionInv` is inductive. `StreamInv` says that the stream still has the
shape of a lifted one, which a rewrite keeps (`SimplifiedStream`), and that `freed` is empty: a store the
lifter makes holds an operator over its own cell, and the one rule that applies to such an operator
changes its node (`StoredOperatorStays`), which is an argument about a stream that was not simplified
yet, hence `walked \/ AllInPlace(ir)`. `AnswerInv` says that the last answer is `Answer(ir, {}, ...)`; with it
the other theorems are statements about `Answer` of a stream and need no further induction over the
behaviour.

**RegisterAst, the levels.** `Resolver` is a recursive function of the levels that are left; that it
exists and unfolds (`LevelsExist`, `OneLevel`) is `SetInduction` again. What holds of the tables one and
two levels down and is kept by one `ResolveExpression` holds of every level (`LevelInduction`), so each
theorem is one lemma about a step and its parts: a use (`UseIs`), a load (`LoadIs`), an address
(`AddressIs`), an operator.

- *Depth* (`LevelReaches`): an expression `e` at position `at` does not fail with `3 * at - 2 + Extra(e)`
  levels left, where `Extra` is 1 for a load, 2 for an operator over one. A use spends a level and
  goes to a position before its own; a load spends one on its address and two on that of an earlier store.
- *Agreement* (`HigherLevelsAgree`): where a level gives an answer, every higher level gives the same.
  `resolve_load` compares addresses resolved at different depths, so this is what makes that
  comparison one of addresses and not of depths.
- *Meaning* (`LevelMeets`): an answer that did not fail `Computes`, on a stack, the value the expression
  has in the environment before its statement. An operator's nodes are those of its operands followed
  by its own (`StackConcat`, `BinaryComputes`). A use has the value its reaching definition
  computed because nothing in between writes the register (`RegisterKept`); a forwarded load has the
  value the store wrote because no statement in between writes that cell (`CellKept`), which is where
  `NoHiddenAlias` comes in: a store in between to the same address would have had the same tree, and
  `resolve_load` takes the latest; a load that is not forwarded reads the cell of the entry for the
  same reason. Addresses are sums modulo the word, folded in another order than `Address` adds
  them (`AddressComputes`, with `ModOfProduct` for the scale).

`VersionResolvedHolds` adds that ids are single (`SSAIds`), so that the definition `build` finds from the
end is the one meant.

**Printing.** `PrintedApart` needs that a text can be read back. The text of each part is followed by the
rest of the line, and each `...Splits` lemma says: if two texts followed by two rests are equal, and the
rests begin with a mark that cannot belong to the part (`EndsAre`), then the parts show the same and the
rests are equal. They go from the optional width and id of a register over the terms of an address,
where a register in brackets may be a base or an index without a scale (`MemorySplits`), and the operators,
up to the whole statement (`StatementSplits`); there is no recursion, as the trees of the IR are bounded.

**What the proofs corrected.** Proof attempts found cases the instances of TLC had missed. `RoundTrip` was false for
`sub rsp, 8; pop qword [rsp]`: alone the `pop` is refused, but its first statement completes a push with the
subtraction before it, and the block is compiled; it is an idiom now (`PopsToTop`) and among the instructions TLC
tries. A jump target is the signed word AsmJit is given (`Target`). The theorems about meaning needed that an address may
read RAX (`AddressReads`), that a moved left operand may overwrite the right one (`Overwrites`), that operands have
one width (`AtOneWidth`), what a write to RFLAGS keeps (`Held`), how a block is entered (`Entered`), and that the
size of a stack slot is a word (`ScaleAssumption`). For RegisterAst: an answer given before the stream is
simplified is about the stream as it was, `build` of RFLAGS after a `popfq` answers the whole word that was
loaded (`NoFlagsAssign`), and the exact bound of `DepthSuffices` is three levels per statement.
`PrintedApart` was false for `[rcx]` with RCX as the base and as the index, which read alike: `ShownMemory`
says so and both are among the instructions TLC tries.

**Only model-checked.** Of `TranslatesBlocks` that the answer behaves like the block: it needs the
meaning theorems composed through the three components, with the flags that neither the IR nor these theorems speak
of; that it follows the protocol is `FollowsProtocol`. Liveness (`CompletesOrThrows`, `BlockAnswered`) needs
ENABLED, which the provers do not handle. The six runs that end in a counterexample have nothing to prove.

## 6. Not modelled

- `hex_to_bytes`, `bytes_to_hex` and `disassemble` convert bytes; no state depends on them.
  (`hex_to_bytes` cuts a number above 0xFF to its low byte, `main.cpp:22`.)
- `IR::assign_map` and the lookups that read it: nothing fills it.
- Where recompiled code is placed. Targets are compared as addresses of the original code, which is
  what the code keeps; `address_starts`, which `IR.h:17-23` says would relocate them, is neither
  filled nor read, so there is no behaviour to model.
- The text of control statements, which no code builds, and `memory_string` and `immediate_string`,
  which nothing calls.
- `Reg::NONE`, which segment and control registers map to and which indexes past the end of `versions`
  (`expression.h:129-130`); segment overrides and 32-bit addresses, which are dropped
  (`Lifter.h:54-60`); `ret imm16`, whose immediate is dropped; 16-bit pushes and pops, which adjust RSP
  by 8 in the IR: `WellFormed` and the instances keep such operands out.
- `llabs` of the most negative displacement, which a `movabs` of the address 2^63 has and which is undefined
  (`IR.h:171`): `Magnitude` is what negation leaves in the build, and no instance has a displacement that large.
- The leak of Capstone's buffer when a handler throws.
- Whole numbers of the machine: 64-bit words are scaled (section 3), so carries between bytes and
  partially overlapping accesses are not seen.

## 7. Plan

Done: the modules, runs and theorems above. What would be worth adding, in this order:

1. That a block that is not simplified behaves as its code: `RoundTripHolds` and the meaning of `Recompiled`
   instruction by instruction, with the flags.
2. Memory of bytes, so that accesses may overlap partly, for the stores RegisterAst matches by size.
3. That compiled code, lifted again, means the same: `not` and `cmp`, which the recompiler emits, have no
   handler, so this would be about the blocks without them.
