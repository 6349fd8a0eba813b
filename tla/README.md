# bfjit in TLA+

TLA+ models of bfjit, a Brainf\_ck compiler in C: a lexer and parser build an intermediate
representation (IR), an optimiser rewrites it, and the result is either compiled to machine code
and called, or, with `--profile-ir-execution`, interpreted and profiled. Paths and line numbers
below are those of the repository (`src/...` is the directory of C files, `include/...` the
headers).

The models cover the way of a program from its text to its last output byte, through either code
generator or the interpreter, and the command around it with its reports. They are checked with
TLC on small instances. Proved with TLAPS for every instance are the safety of the interpreter and
its profile, of the scans and of the code generated for either machine, what these take for granted
of optimised programs, and the safety of the parser's memory and of the command's resources.

## Inventory

| Component | State | Operations | What makes it correct |
|---|---|---|---|
| Lexer (`src/bflexer.c`) | position: offset, line, column | `bf_lexer_next` | tokens in source order, each with its own place |
| Parser (`src/bfparser.c`) | recursion stack, block arrays (count, capacity), current token, error | push and merge nodes, open and close loops, fail, unwind | the tree says what the text says; arrays are never overrun, freed once; the first error is reported at its place |
| Optimiser (`src/bfopt.c`) | the tree, rewritten in place; recursion over bodies | eight kinds of pass per block, inner blocks first | what the program does is kept, from every tape, even when a `malloc` fails half way; it ends |
| Interpreter (`src/bfjit_runtime.c`) | tape, pointer, recursion stack, stdin/stdout | one case per IR node | the tape is never left; events and final tape are those of the program as written |
| Profile (`src/bfjit_runtime.c`, `include/bfjit_internal.h`) | counters, tables of segments and scan contexts | record node, segment, scan | the counts add up; failing to record is the only reason a correct program may stop |
| Shared JIT planning (`src/bfjit_backend_shared.c`) | pending pointer offset of a block | defer moves, merge runs, plan controls, scans, multiplies | a deferred move is made exactly once, before it matters |
| x86-64 backend (`src/bfjit_backend_x86_64.c`) | code buffer, labels, guard fields | one emit function per node and variant, size hints | each access is guarded, through a register that holds the tape; errors come back; the code fits its buffer or is refused |
| aarch64 backend (`src/bfjit_backend_aarch64.c`) | the same, with more registers and short immediates | the same | the same; an offset that fits no immediate reaches the same cell |
| JIT lifecycle (`src/bfjit_backend.c`) | one mapping, writable or executable | map, emit, protect, flush, unmap | the code is called only when ready; a mapping is released once, on every path |
| JIT entry (`src/bfjit.c`) | locks of stdin and stdout, the dump's stream | compile, call, dump, read the result | a negative result becomes its message; locks and stream are given back |
| Driver (`src/main.c`) | source, program, tape, profile | options, file, run | each resource freed once, an exit code that tells what happened |
| Statistics (`src/main.c`) | tables of signatures | collect multiply loops, segments, control flow | every node counted once; the analysis agrees with the optimiser's |
| Reference machine (`benchmark/bf.c`) | tape, instruction pointer | one instruction a turn | the benchmark's plain implementation: here, the meaning of a program |

The components run one after the other in one thread: source text → `bf_parse_src` → `bf_program` →
`bf_opt_program` (in place) → `bf_jit_execute_program` or `bf_runtime_execute_profiled`. Generated
code calls back only `bf_runtime_read_byte` and `bf_runtime_write_byte`. Nothing is concurrent and
nothing is persisted: what is hard here is rewriting without changing the meaning, deferring
pointer moves across control flow, arithmetic at the ends of the tape and of a byte, registers and
fields that are stale, and allocations failing in the middle. `PROJECT.json` lists each hazard at
its line with the properties that would show it going wrong.

## Modules

| Module | Models |
|---|---|
| `BFIR` | IR nodes and cell arithmetic |
| `BFSource` | the lexer and the parser's effect as functions: `Lex`, `AppendDelta`, `ParseSource` |
| `BFParser` | the parser as a state machine: token by token, arrays, failing `realloc`, unwinding |
| `BFLoops` | what the optimiser asks of a loop's body and what it makes of it: movement, multiply plans, offsets, the if it becomes |
| `BFPasses` | each optimiser pass as an operator on nodes and blocks; `OptimizeBlock`, all of them |
| `BFOptimizer` | the passes in the order of `bf_opt_block`, a step each, with failing `malloc` |
| `BFProfile` | the profile record and its updates |
| `BFJitPlan` | the planning helpers that the interpreter and the JIT share |
| `BFTape` | the tape that an interpreter and a scan work on |
| `BFRuntime` | the profiled interpreter; one action per case of its switch |
| `BFOptimized` | the interpreter on blocks that the optimiser leaves: its ifs are flat, come back and move what they say |
| `BFScan` | the loops by which a scan finds its zero cell; one step in `BFRuntime` |
| `BFCodeGen` | what both code generators share: runs of simple nodes, guards, instructions |
| `BFEmitter` | the shared driver of code generation: pending offsets, the code buffer's size |
| `BFX86`, `BFArm` | the code generators: from a block to abstract instructions, with their lengths and size hints |
| `BFNative`, `BFArmNative` | the execution of those instructions on the tape, and `bf_jit_execute_program` |
| `BFStats` | the statistics of `--dump-multiply-stats`, `--dump-simple-segment-stats` and `--dump-control-flow-stats` |
| `BFDriver` | the command in all its modes: `main`, `bf_read_file`, `bf_jit_backend_compile` and `_dispose`, the dump of the code |
| `BFReference` | the reference machine: the meaning of a source text |
| `BFContract` | what an execution promises, as an abstract specification |
| `BFParser_proofs`, `BFOptimizer_proofs`, `BFRuntime_proofs`, `BFNative_proofs`, `BFArm_proofs`, `BFDriver_proofs` | TLAPS proofs about these modules (about `BFScan` in `BFRuntime_proofs`) |
| `BFEmitter_proofs` | what the proofs about the two code generators share, with the machine as a parameter |
| `BFFolds_proofs` | the induction and the facts about folds and recursive functions that these proofs share |
| `MCSources`, `MCParser`, `MCOptimizer`, `MCRuntime`, `MCScan`, `MCNative`, `MCArm`, `MCDriver` | instances for TLC, with the properties that need one |

Who uses whom: `BFIR` <- `BFJitPlan` <- `BFCodeGen` <- `BFEmitter`; `BFX86` and `BFArm` extend
`BFCodeGen` and instantiate `BFEmitter` with their callbacks, as the C files fill a
`bf_jit_pending_offset_ops`. `BFRuntime` uses `BFJitPlan`, `BFProfile` and, as `BFScan` does,
`BFTape`; `BFOptimized` puts it together with `BFLoops`, which `BFPasses` extends too; `MCRuntime`
(of `BFOptimized`), `MCNative` and `MCArm` compose parser, optimiser, an execution and
`BFContract`. `BFDriver` takes parser, optimiser and reports as constants, which `MCDriver.cfg`
gives as `ParseSource`, `OptimizeBlock` and the operators of `BFStats`.

How state and actions correspond to the code:

* A C recursion (`bf_parse_block`, `bf_opt_block`, `bf_runtime_execute_block`) is a sequence
  `frames`, its last element the running invocation with its locals. A step is a token, a pass or
  an IR node; errors are steps that go back through the frames (parser) or leave at once with the
  value every caller would pass up (interpreter).
* `BFRuntime`: `AddPtr` and `StoreCell` are the two halves of `bf_runtime_execute_simple_segment`'s
  loop; `BeginSegment` records the segment first, as the code does. `ArriveAtLoop`, `TestLoop` and
  `BlockEnds` are the `while` of a LOOP; `TestIf` the `if` of an IF; `Scan`, `MultiZero` and
  `MultiplyLoop` their functions. `SegmentRecordFails` and `ScanRecordFails` are the `-1` returns
  when the profile cannot grow. `io` and `touched` are history variables.
* `BFOptimizer`: a malloc that fails is `Spare`: the pass leaves what it was given.
* `BFX86` and `BFArm` keep what may go wrong with generated code: which register holds the tape's
  address, the pointer or a cell's place, where guards stand and what range they cover, the pending
  offset, the registers a guard, a multiplication or a call destroys, relative jumps. An
  "instruction" is what one emit helper writes. `Bytes` in `BFX86` and `Words` in `BFArm` are the
  lengths of what the helpers write; they were compared with the bytes that both generators emit,
  for several hundred programs. `BFNative` and `BFArmNative` give the instructions their effect. An
  access through the wrong register or off the tape is undefined in C and for the processor; the
  model stops there and `AccessesAreSafe` reports it.
* A code buffer's size is settled from hints before anything is emitted; a program whose code is
  longer is refused as a whole (`Overflows`, in the action `Compile`).
* aarch64 compares with the tape's end in a register that has to be loaded (`LoadBound`) and has
  immediates of 12 bits (`MaxImm`, `MaxBack`). Two comparisons of the code read an unloaded
  register and one cuts off an offset; `fooled` records that such a comparison came out other than
  it should. From there on nothing is promised, in `AccessesAreSafe` and in the contract, so that
  what these comparisons spoil does not hide the rest.
* `BFDriver` has an action per call of `main` and its callees that may fail or that acquires or
  gives back something. `held` is what has been acquired; `misused` records a use, a release or an
  acquisition that does not fit it. `buffer` and `access` are the mapping and what this thread may
  do with it, `failed` and `said` histories.
* `BFStats` is functions from the root block to the report printed.
* `BFContract` states what a user relies on. Its actions are `Event`, `Finish`, `Fault` and
  `GiveUp` (profiling ran out of memory). A program that runs off its tape has no meaning from
  there on: the parser already cancels `<` against `>`, so an access off the tape may have been
  optimised away. It still owes every event before that access. `MCRuntime`, `MCNative` and `MCArm`
  instantiate it with a refinement mapping (`Answer`), as the property `MeansWhatItSays`: the
  interpreter and both kinds of generated code implement the same abstract specification.

## Runs

| Run | Instance | Shows |
|---|---|---|
| `parser` | every text of at most 5 characters over `> < + . [ ]` and newline, and nine longer ones with the other instructions and comments; first capacity small, every `realloc` may fail | arrays are never overrun and always have one owner (`BlocksFitTheirArrays`, `ArraysOwnedOnce`), blocks hold no mergeable neighbours (`BlocksAreCanonical`), the blocks built so far say what was read so far (`BuiltFromSource`), the answer and the error's place are right (`AnswersRightly`), the state machine builds what `ParseSource` says (`BuildsParseSource`), and it answers (`Answers`) |
| `optimizer` | every well-formed program of at most 5 instructions without input, and forty longer ones; 4-valued cells, every tape of the instance and every pointer on it, every `malloc` may fail | each pass keeps the meaning (`MeaningKept`), what later passes, the interpreter and the generators take from a node is so after every pass (`JustifiedSoFar`: ifs are flat and come back where they say, only their first multiply loop trusts its counter, a multiply loop's terms have distinct offsets), the passes add up to `OptimizeBlock` (`EndsOptimized`), and end (`Optimizes`) |
| `runtime` | every well-formed program of at most 4 instructions and some thirty longer ones, optimised; 6 cells of 4 values; three inputs; profile allocations may fail | `TypeOK`, `OnlyTheTapeIsTouched`, `CallStackOK`, `ProfileAddsUp`, `IfBodiesRunOnce`, `NonnullCounterIsNonzero`, `MeansWhatItSays` and `Terminates` of the interpreter, and that the optimiser's output is as `OptimizedPrograms` says |
| `scan` | every tape of 18 cells with at most two zero cells, every start, steps -4, -3, -1, 0, 2, 3, 4, 5 | no cell off the tape is read (`ReadsOnTape`), all that is passed has been read and is nonzero (`PathSoFar`), the answer and the cells read are those of `BFRuntime!Scan` (`ActsAsOneStep`), and every scan returns (`Returns`) |
| `signature` | the same as `runtime`, no failing allocation, signature buffer of 4 bytes | **violation** of `OnlyFaultsFail` |
| `native` | the programs of `runtime` and some thirty-five more for pending offsets, guards, scans and the code buffer; 18 cells, so that scans by four and nine take every way | `AccessesAreSafe`, `CounterIsNonzero`, `MeansWhatItSays` and `Terminates` of the generated x86-64 code |
| `native_error` | programs that move off the tape | **violation** of `ErrorsAreReported` |
| `native_tail` | two programs with an if that has a multiply tail | **violation** of `AccessesAreSafe` |
| `native_scope` | emitter fields as memory left them | **violation** of `AccessesAreSafe` |
| `arm` | the programs of `native` and fifteen more for immediates and for the scans the aarch64 pass rewrites | the same four of the generated aarch64 code, up to a comparison that goes wrong |
| `arm_bound` | the same | **violation** of `OnlyFaultsFail` |
| `driver` | the programs of `runtime` (the exhaustive part up to 3 instructions), six more, and one that does not parse; every mode; every call may fail | what is acquired is used while held and given back once (`NothingMisused`, `NothingLeaks`), code is called only when ready (`CodeIsReady`), exit code and messages tell what happened (`ExitTellsFailure`); the reports find no loop that the optimiser should have made an if (`ConvertibleLoopsAreConverted`) and count every simple node once (`EveryNodeIsReported`) |

Bounds, all of them constants of the configurations:

* `CellCount = 4`: wrapping, -1 and products modulo the cell size all occur; the code's 256 enters
  it only through that modulus (`Byte`).
* `TapeSize`: 6 for the interpreter, so that short programs reach both ends; 18 natively, since a
  turn of the scan by four looks 12 cells ahead and advances 16 (`scan` has 18 for the same
  reason; of a tape it matters only where the first zero ahead is and whether one follows, so two
  zero cells are enough, and what the other cells hold is of no matter).
* `ShortLength`, `MCLength`: the exhaustive part. Every IR node kind needs at most five source
  instructions to appear, combinations come with the longer programs listed in the modules.
* `Fuel`: instructions the reference machine is followed for. Programs it cannot finish are not
  started; they are those that do not end.
* Inputs: empty (end of file at once), one that ends with a zero byte, one other.
* `MultiplyMaxOffsets = 256` and `SignatureRoom = 8192` as in the code, except in `signature`,
  where a short body must overflow the buffer; a body of several thousand nodes overflows the
  real one in the same way.
* `ScanReturnPass`: the pass compiled only for aarch64 is on for the interpreter, optimiser and
  aarch64 runs and off for `native` and `driver`.
* `MaxNesting = 8`: how deep blocks may nest, for `BFPasses` to have a set of all nodes; the code
  has no limit. The deepest program of the runs nests less, which TLC checks
  (`ProgramsAssumption` of `BFOptimizer`); the proofs hold for every bound.
* `BaseHint = 64`, `MinCodeSize = 1024` (256 and 16384 in the code): the code buffer's size is
  formed and compared as in the code, but a program of 37 instructions outgrows it (see below).
  Most programs fit it and some are refused: both ways of `Compile` are taken.
* `MaxImm = 12`, `MaxBack = 4` (4095 and 256 in the code): on a tape of 18 cells there are offsets
  on each side of both, and offsets that need two immediates.
* `SignatureSize = 12` (8192 in the code): some control-flow reports collect, others fail.

### Fairness

`WF_vars(Step)` only: one thread that nothing blocks takes its next step. Input always comes,
as `bf_runtime_read_byte` returns at the end of the file too. Liveness is checked only of programs
that end on the reference machine within `Fuel`, and of the parser and optimiser for every input.
`BFDriver` states no fairness: every one of its paths is a line without loops, and deadlock
checking shows that none stops before `exit`.

### Disagreements found

1. `native_error`: an error block sets eax to the negated reason and jumps to the epilogue that
   loads eax from the pointer (`src/bfjit_backend_x86_64.c:1694-1697`, `1776-1777`). Errors of
   generated code are never reported, though `src/bfjit.c:86-117` has a message for each.
2. `native_tail`: an if whose body is a multiply loop and a run of simple nodes reads its counter
   through rsi, which that code does not load (`:1259-1263`). `+[[->+<]>+++<].` crashes.
3. `native_scope`: the scoped-guard fields are read but never initialised (`:152-166`, `:55`,
   `:680`). If they happen to be set, guards are missing.
4. `signature`: `--profile-ir-execution` stops a correct program with an error when the signature
   of a loop's body needs more than 8192 bytes (`src/bfjit_runtime.c:315`).
5. `arm_bound`: on aarch64 a scan by one, and a scan by nine from a negative pending offset,
   compare with x12, into which nothing has loaded the tape's size
   (`src/bfjit_backend_shared.c:252-273`). A correct program fails with `tape pointer moved out of
   bounds (scan)`, or a scan that leaves the tape goes on.

The passing run `native` therefore starts with cleared fields and leaves out the programs with
such ifs, except one in which rsi still holds the tape's address from an earlier multiply loop; and
`arm` makes no claim past a comparison of the fifth kind.

Met while modelling, and allowed by the properties because the models state what the code does:

* The hints of a loop at an offset are shorter than its code. `.>` followed by a hundred `+[.-]`
  is refused on x86-64 with a code buffer overflow, and by 66 of them on aarch64: the contract
  excuses a program that is refused before it starts (`Overflows`).
* A pending offset below -4095 is cut to 12 bits by the comparison before a scan on aarch64
  (`src/bfjit_backend_aarch64.c:713`): part of `fooled`.
* `bf_jit_emit_op_if` reads `ok` before it is set on aarch64 (`:1558`): emission may stop there
  (`EmissionMayFail`), both outcomes are checked.
* `bf_jit_dump_program_code` ignores what `fclose` returns, and a report that cannot be collected
  leaves the exit code 0: `ExitTellsFailure` names both as its exceptions.

## Proofs

`BFRuntime_proofs` proves for every value of the constants, assuming only what `BFIR`,
`BFJitPlan`, `BFProfile` and `BFRuntime` assume of them (cells and tape are not empty, programs
are sequences of `Node`, which is closed under taking bodies):

* `RuntimeTypeOK`: `Spec => []TypeOK`. The pointer stays on the tape and every cell is a byte.
* `RuntimeMemorySafe`: `Spec => []OnlyTheTapeIsTouched`.
* `RuntimeCallStackOK`: `Spec => []CallStackOK`.

They hold of any IR program, optimised or not: memory safety of the interpreter does not rest on
the optimiser. The inductive invariant is the conjunction of the three. None is inductive alone:
that a cell touched is on the tape needs the pointer's range, that needs the node's fields to be
integers, and that needs every frame's block to be a sequence of nodes with its index inside. One
lemma per action shows that the action preserves the invariant; lemmas about the helpers stand
before them (the end of a segment exists and covers segment nodes only, the extremes of a finite
set of offsets, the first zero of a scan lies on the tape, a `RangeError` of 0 puts every offset
on the tape).

It goes on, under the same assumptions and for every way the profile's allocations may fail:

* `RuntimeProfileAddsUp`: `Spec => []ProfileAddsUp`. The counters of the profile's tables add up to
  its totals, whenever the run has not failed.

`ProfileAddsUp` speaks of the moments between segments only and is not inductive. `ProfileInv`
(`Sums`) says at every state how far the totals may be ahead of the tables: by what the running
invocation has counted of the segment or scan it is in and not recorded yet (`Ahead`). Each of the
three record functions is a lemma of its own (`RecordNodeCounts`, `RecordSegmentCounts`,
`RecordScanContextCounts`): which counter it bumps, and that no key of a table appears twice.

And, on every program as the optimiser leaves it (`OptimizedPrograms`, of `BFOptimized`, a
hypothesis in the statement of these two):

* `RuntimeIfBodiesRunOnce`: `Spec => []IfBodiesRunOnce`. The interpreter, like the generated code,
  leaves an `IF` without looking at its cell again, and that is right: the cell is zero there and
  the pointer is where it was.
* `RuntimeNonnullCounter`: `Spec => []NonnullCounterIsNonzero`. No `NONNULL_MULTIPLY_LOOP` is
  reached on a zero cell.

`OptimizedPrograms` says that every `IF` has a body of which `bf_try_convert_loop_to_if` finds that
it leaves zero (`LeavesOriginZero`), and that only the first node of an `IF`'s body is a
`NONNULL_MULTIPLY_LOOP`. TLC evaluates it on what the optimiser makes of every program of the run
`runtime` (`MCProgramsAssumption`); that it is so after every pass over every program is
`OptimizerJustifies` below. The inductive invariant `IfInv` follows the optimiser's argument
through the run of the body: at node `i` the pointer is at the origin plus the offset that
`OffsetAt` computed for `i` (no node moves by an amount the optimiser does not know:
`NeverGivenUp`), where it takes the origin for zero the origin is zero (`ZeroForAReason`), and at
the first node the origin is not. That bodies of ifs are flat follows from the same analysis
(`BodyIsFlat`).

`BFNative_proofs` proves of the x86-64 code of every program, and `BFArm_proofs` of the aarch64
code:

* `NativeMemorySafe`, `ArmMemorySafe`: `Spec => []AccessesAreSafe`. Each access is to the tape, and
  through a register that then holds the address it is meant to (on aarch64: until a comparison
  has come out wrong, see below).
* `NativeCounterIsNonzero`, `ArmCounterIsNonzero`: `Spec => []CounterIsNonzero`.
* `NativeTypeOK`, `ArmTypeOK`: `Spec => []TypeOK`. In particular control never leaves the code.

The argument has three parts.

1. *Executing annotated code.* An annotation gives each instruction the set of states (tape,
   pointer, registers) it may be reached in; `Annotated` says that every instruction may be executed
   in each of its states (`Takes`), and leads to a state of the instruction behind it or of the one
   it jumps to. The inductive invariant is that the code has an annotation and the machine is in a
   state of it (`AnnotatedInv`). One lemma per action shows that the machine stays there. This part
   is each machine's own.
2. *Code that has an annotation.* `Fits(c, P, Q)`: entered in a state of P, the code c is left at
   its end in one of Q. Pieces that fit can be put one behind the other (`FitsThen`), into loops
   and behind tests (`FitsLoop`, `FitsBehindJump`): of an instruction this needs no more than
   `KeepsIsMonotone`, so it is proved once, in `BFEmitter_proofs`, which has the machine and its
   instructions as constants and which both proofs instantiate (`Code`). The states that a backend
   needs are few (`Known`), and with them each emit function is a lemma: runs of stores
   (`RunFits`), input and output, multiply loops, clears of several cells, the scans by one, four
   and nine in both directions, loops and ifs. That one guard for the least and one for the greatest
   offset of a run covers all of it is proved here (`TermWindowBounded`).
3. *What is emitted for a program.* `EmitBlock` is a function defined by recursion on a block's
   bodies and by a fold over its nodes, with the pending offset as the fold's state.
   `EmitBlockFolds` shows that there is such a function, and that it takes its values from its
   definition; `BlockFits` then shows by induction on the height of a block that what it emits may
   be entered in every state with any offset pending, except that an if's body that begins with a
   `NONNULL_MULTIPLY_LOOP` is entered only with a cell that is not zero (`Entry`). This is in
   `BFEmitter_proofs` too: a backend has to show that its callbacks emit code that fits
   (`CallbacksFit`), no more.

What is known of a state differs. On x86-64 it is which registers hold the tape's address, which
offsets are known to be on the tape, which cells not to be zero, and what dl may hold. On aarch64 a
cell is addressed through x15, through x10 and x8, or through an address computed from them, as its
offset fits an immediate or not, and x8 is sometimes the pointer and sometimes moved along: a state
is known by the distances of x8 and of the cursor x15 from the pointer, which offsets are on the
tape, which cells are not zero, and what x12 may hold. x12 is both the counter of a multiply loop
and the tape's size in a guard, and `ArmCounterIsNonzero` depends on the order of their loads in
each of the emit functions. Where a term is too far for an immediate, x8 is moved to the counter
before the guard of the terms and again behind it: that is right only if the guard has loaded the
pointer into x8 between, which it does when it checks anything, and the proof has to show that it
does (it checks the counter's offset, which is not 0 where x8 is moved).

On aarch64 a scan may compare x8 with a register that does not hold the tape's size, or with a bound
cut to an immediate's width (run `arm_bound`). `AccessesAreSafe` stops at a comparison whose result
differs from the right one (`fooled`); the proof shows that nothing else can lead an access off the
tape, and that even then the machine does not leave the code or keep a pointer off the tape
(`Scanning`: x8 is one of the places it is meant to be at, unless `fooled`).

The hypotheses of these theorems are in their statements. `NoGuardScope` excludes what
`native_scope` shows to go wrong, and without it neither memory safety holds. `NoMultiplyTail`, for
x86-64 only, excludes what `native_tail` shows: there the tail of an if reads the counter through a
register that nothing has loaded, whereas the aarch64 backend loads it again, so that
`ArmMemorySafe` includes such ifs. `NonnullBeginsIf`: a `NONNULL_MULTIPLY_LOOP` is the first node
of an if's body, which the optimiser sees to (it is part of what `OptimizerJustifies` says of every
program, and TLC evaluates it on the programs of `native` and `arm`, `MCProgramsAssumption`). And
`FinitelyNested`: blocks have a height, since a node is in a tree. `Node` can be taken to be any
set of nodes with the bodies in it, such as the nodes of one program; nothing else is assumed of
the programs, which need not be what the optimiser makes.

`BFFolds_proofs` is what makes these possible. The library's induction theorems take an operator as
a parameter, which cannot be instantiated here; `InductionTo` and `SubsetInduction` state induction
for *sets* of numbers and sets of subsets instead, and `RecursionByHeight` the existence of a
recursive function whose values depend on lower points only, with the function's definition as a
function on functions. So a fold over a sequence or a set, and a recursive function, can be reasoned
about: `FoldExists` and `FoldSteps` give a fold's successive values (`Trace`), `TotalSumsUp`,
`TotalType` and `TotalChange` say what the sum over a finite domain is, and how it changes with one
value.

The end of `BFRuntime_proofs` is about the loops of `BFScan`, for every tape, start and step but 1:

* `ScanReadsOnTape`, `ScanPathSoFar`, `ScanActsAsOneStep`: `ScanSpec` implies always `ReadsOnTape`,
  `PathSoFar` and `ActsAsOneStep`.
* `ScanDoesWhatTheLoopDid`: where the loop has returned, called with the interpreter's pointer and
  the step of the node, the action `Scan` of `BFRuntime` moves to the loop's answer, fails where it
  has none, and its `touched` are the cells that `bf_runtime_scan_index` and
  `bf_runtime_scan_index_step4` really read. So `BFRuntime` may take a scan in one step.

The inductive invariant adds `PathSoFar`: the index is on the stride as long as it is on the tape,
and the cells read are exactly those of the stride behind it. It needs that cells of a stride are
at least a step apart (`StrideApart`), that a step from one leads to the next (`StrideGoesOn`) and
that a turn of four leaves no cell of the stride out (`TurnCovers`). A scan by 0, which the parser
makes nothing of, returns at once and reads nothing: that `Scan` says so too is by this theorem.

`BFOptimizer_proofs` proves of the optimiser, for every set of programs made of what the parser
makes (`ProgramsAssumption`), every bound on their nesting, and whichever `malloc` fails:

* `OptimizerJustifies`: `Spec => []JustifiedSoFar`. After each pass every `IF` has a body that
  leaves zero in its cell, only its first node is a `NONNULL_MULTIPLY_LOOP`, and the terms of a
  multiply loop have distinct offsets, none of them the counter's. For the finished program this is
  what `RuntimeIfBodiesRunOnce`, `RuntimeNonnullCounter` and the theorems on generated code assume
  (`OptimizedPrograms`, `NonnullBeginsIf`).

What could go wrong is that a pass over an inner block is undone by one over a block around it: an
`IF`'s body must not be rewritten once the analysis has been made of it, and a node marked
`NONNULL_MULTIPLY_LOOP` must stay at the front. The invariant (`Inv`, `StackOK`) is therefore about
whole blocks. `Sound` is the nodes all of whose nodes are justified, `Unmarked` those of them that
are no `NONNULL_MULTIPLY_LOOP` themselves: at every moment each invocation's block is a sequence of
`Unmarked` nodes of its level, and each waiting one stands at a `LOOP`, so the body put back is not
an `IF`'s. Each pass is a lemma that it keeps such blocks. Three of them are loops that change the
block as they go, and share one lemma (`LoopOverKeeps`): a pass that keeps a set of blocks turn by
turn keeps it. The last pass marks at all depths (`MarkEach`, a recursive function), and needs that
marking the first node of a body takes nothing away from why its `IF` is one: the analysis
(`OriginKnown`) does not tell the two kinds of multiply loop apart. That the sets of nodes by level,
`NodesOf`, `MarkEach` and `Rebuilt` are functions with the values that their definitions say is
proved first, by induction over levels (`LevelsExist`, `PluggingExists`).

* `OptimizerEndsOptimized`: `Spec => []EndsOptimized`. When the passes are over and no allocation
  failed, the program is `OptimizeBlock(original)`, from which the runs of the interpreter and of
  the generators start: the state machine, pass by pass over a stack of invocations, and the
  function, recursive in the bodies, are the same optimiser.

This needs that `OptimizeBlock` is a function of which its equation holds (`OptimizingExists`, by
induction over the height of blocks; `OptimizeBlockSteps` unfolds it once). The invariant
(`OnCourse`) says of each invocation on the stack, waiting or at the top, that what its block will
become by what is left to do (`Yields`, `WillYield`) is `OptimizeBlock` of the block that it was
called for: the root, or the body still in the block below. A pass takes itself off what is left
and applies itself to the block; a call starts with everything left; and a return puts in place of
a body what the caller reckoned with.

`BFParser_proofs` proves of the parser, for every set of sources (`SourcesAssumption`: sequences of
characters), every first capacity (a positive one, `FirstCapacityAssumption`) and whichever
`realloc` fails:

* `ParserBlocksFit`, `ParserArraysOwnedOnce`, `ParserBlocksCanonical`: `Spec` implies always
  `BlocksFitTheirArrays`, `ArraysOwnedOnce` and `BlocksAreCanonical`.

The inductive invariant is `Sound`: the three properties, stated per frame (`GoodFrame`) and of the
stack and the heap (`OwnedOnce`), with what they need to be inductive: frames are records whose
nodes have integer arguments, the heap is finite (an address not on it exists), and the capacity a
block believes in is right while parsing goes on (it is not after a failed `realloc`, which is why
nothing may be pushed from there on). Pushes, merges and the hand-over of a loop's arrays to the
block around it are lemmas about one frame (`PushedGood`, `MergedGood`, `NestedGood`); a change of
the top frame and its end are lemmas about the stack (`TopChanges`, `TopGoes`), and each action
follows from one of each.

* `ParserAnswersRightly`: `Spec => []AnswersRightly`. A program is accepted only if its brackets
  match, and rejected only if they do not or memory ran out; the error is at the first closing
  bracket too many, or else at the innermost loop left open, at the line and column it has in the
  text.
* `ParserBuildsParseSource`: `Spec => []BuildsParseSource`. The state machine builds what the fold
  `ParseSource` says, from which the runs of every later part start.

Both rest on the invariant `Faithful`, which relates the parser to the part of the text read so far.
The token is the first instruction not consumed yet, and the lexer's counters are its place counted
from the text (`Reads`; `AdvanceToLocation`, `LexFinds`). The blocks on the stack are those that
`ParseSource` has after as many characters (`BlocksAfterSteps`; there is no set of values to define
that fold on, so that it exists is shown a character at a time, `BlocksFoldExists`). The depth of the
stack is the number of loops open in the text (`Level`), which has never been negative, and each
frame names the bracket at which its depth was last reached from below (`Nested`, `OpenSince`):
without the last, that the loop reported as unterminated is the innermost one would not follow. Once
an error is set, it is one that the whole text deserves (`Deserved`), though the rest has not been
read.

`BFDriver_proofs` proves of the command, for every set of source files and whatever parsing,
optimising and the reports yield:

* `DriverTypeOK`, `DriverNothingMisused`, `DriverNothingLeaks`, `DriverCodeIsReady`: that nothing
  is used, released or acquired out of turn, that nothing is held at the end, and that the code
  is complete and executable where it is called. These rest on the invariant `Careful`: which modes
  come to which place of the code (`ModeFits`), which resource is held where (`HoldsRight`) and how
  far the buffer is (`BufferFits`). `NothingMisused` says nothing of what is held, so it is not
  inductive: that a release fits needs to know it, at each place and in each mode.
* `DriverExitTellsFailure`, which rests on `Honest`: what has been said, printed and failed by
  each place. It needs `Careful`, for the modes.

One lemma per action again (`...Careful`, `...Honest`); the theorems combine them.

Only model-checked:

* What compares a run with the meaning of its program (`MeansWhatItSays`, `MeaningKept`), and the
  blocks written out again with the text (`BuiltFromSource`): the reference machine, the effect of a
  block in `MCOptimizer` and `Written` and `Cancelled` in `MCParser` are RECURSIVE operators, used by
  TLC's modules only.
* `ConvertibleLoopsAreConverted` and `EveryNodeIsReported`, of the optimiser and the reports.
* That generated code, on either machine, does what the program says (`MeansWhatItSays`), and on
  aarch64 what happens after a comparison that came out wrong (`arm_bound` shows one).
* `NativeMemorySafe` says nothing of ifs with a multiply tail; the one such program that `native`
  runs works by accident.
* Liveness (`Terminates`, `Returns`, `Optimizes`, `Answers`), which is out of the prover's reach.

## Not modelled

* Instruction encodings and label patching: a jump in the models goes where it should. In particular
  the 19-bit displacement of aarch64 branches (`src/bfjit_backend_aarch64.c:476`).
* The C library: what stdio buffers (`putchar_unlocked`'s result is ignored by the code), and the
  memory a callee allocates and frees itself.
* The order and wording of the printed reports, and their first twelve or twenty entries.
* The depth of the native C stack, and a signed overflow of a move of more than 2^31 cells.
* `bf_fold_offset_cell_ops` and the two node kinds only it makes, `bf_runtime_execute` and the
  guard-scope functions, which nothing calls.

## Plan

Done, in this order: `BFIR`, `BFJitPlan`, `BFProfile`, `BFRuntime` and its proofs; `BFSource`,
`BFReference`, `BFContract`; `BFPasses`, `BFOptimizer`; `BFParser`; `BFX86`, `BFNative`; `BFScan`
and its proofs; `BFCodeGen` and `BFEmitter`, taken out of `BFX86`, with the code buffer; `BFArm`,
`BFArmNative`; `BFStats`, `BFDriver` and its proofs; `BFParser_proofs`; `BFLoops`, taken out of
`BFPasses`, and `BFOptimized`; `BFFolds_proofs`, and the profile and the ifs in `BFRuntime_proofs`;
`BFNative_proofs`; `BFEmitter_proofs`, taken out of `BFNative_proofs`, and `BFArm_proofs`;
`BFOptimizer_proofs`, for which the passes became folds and recursive functions; the scans of
`BFScan` put together with those of `BFRuntime`; the optimiser's steps put together with
`OptimizeBlock`, and the parser's with its text and with `ParseSource`.

Next:

1. The pending offset as the profile records it against the one the emitter defers
   (`src/bfjit_runtime.c:723`, `src/bfjit_backend_shared.c:512`).
2. That the blocks, written out again, are the text (`BuiltFromSource`) as a theorem, with
   `Written` and `Cancelled` as functions.
