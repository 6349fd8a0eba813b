------------------------------ MODULE BFRuntime ------------------------------
(***************************************************************************)
(* The profiled IR interpreter, bf_runtime_execute_profiled                *)
(* (bfjit_runtime.c).  The C call stack of bf_runtime_execute_block is the *)
(* sequence frames; the last element is the running invocation.  A step is *)
(* one node, or one of the bookkeeping steps around a node: starting a     *)
(* segment, testing a loop, returning from a block.                        *)
(*                                                                         *)
(* Abstracted: the tape has at most INT_MAX cells (main allocates 30000),  *)
(* so the final pointer > INT_MAX test never fires.                        *)
(***************************************************************************)
EXTENDS BFProfile, BFTape

CONSTANTS
  Programs,      \* root blocks the interpreter is started on
  Inputs,        \* what stdin may hold: sequences of bytes
  AllocMayFail   \* BOOLEAN: the profile tables' allocations may fail

ASSUME ProgramsAssumption == Programs \subseteq Seq(Node)
ASSUME InputsAssumption   == Inputs \subseteq Seq(Cell)

VARIABLES
  pointer,        \* the local size_t pointer; the caller's array is tape
  input,          \* what is left of stdin
  io,             \* history: the bytes read and written, in order
  frames,         \* invocations of bf_runtime_execute_block
  result,         \* whether the run has returned, and the value returned
  touched,        \* history: the cells the last step read or wrote
  unrecorded,     \* history: a profile record has failed
  profile

vars == <<tape, pointer, input, io, frames, result, touched, unrecorded, profile>>

Invocation(block) ==
  [block   |-> block,
   index   |-> 1,
   last    |-> 0,        \* end of the running segment, 0 outside one
   testing |-> FALSE,    \* at a LOOP whose while is being evaluated
   pending |-> 0]        \* jit_pending_offset

Start(program, stdin) ==
  /\ tape = [i \in Index |-> 0]
  /\ pointer = 0
  /\ input = stdin
  /\ io = <<>>
  /\ frames = <<Invocation(program)>>
  /\ result = [status |-> "running", value |-> 0]
  /\ touched = {}
  /\ unrecorded = FALSE
  /\ profile = EmptyProfile

Init == \E program \in Programs, stdin \in Inputs : Start(program, stdin)
-----------------------------------------------------------------------------
Top  == frames[Len(frames)]
Here == Top.block[Top.index]

Running   == result.status = "running"
AtNode    == Running /\ Top.index <= Len(Top.block)
InSegment == Top.index <= Top.last

\* The node whose body this invocation runs (context_node), by its position.
Context == [i \in 1 .. Len(frames) - 1 |-> frames[i].index]

SetTop(frame)  == frames' = [frames EXCEPT ![Len(frames)] = frame]
Past(frame)    == [frame EXCEPT !.index = @ + 1, !.testing = FALSE]
InTape(i)      == i \in Index
Return(status, value) == result' = [status |-> status, value |-> value]
KeepGoing      == UNCHANGED <<result, unrecorded>>
NoTape         == UNCHANGED <<tape, pointer, input, io>>

\* A negative return, passed up through every invocation unchanged.
Fail(code) ==
  /\ Return("failed", -code)
  /\ NoTape /\ UNCHANGED frames
-----------------------------------------------------------------------------
(* Straight-line segments: bf_runtime_execute_simple_segment.              *)

\* Mutant: run_end is one node too far.
SegmentLastAfter(block, from) ==
  1 + Greatest({k \in from .. Len(block) : \A j \in from .. k : IsSegmentNode(block[j])})

\* run_end: the last node of the run of segment nodes at this index.
SegmentLast(block, from) ==
  Greatest({k \in from .. Len(block) : \A j \in from .. k : IsSegmentNode(block[j])})

Segment == SubSeq(Top.block, Top.index, SegmentLast(Top.block, Top.index))

AtSegmentStart == AtNode /\ ~InSegment /\ IsSegmentNode(Here)

\* An entry of the table is found, or its context's signature can be built.
Recordable == \/ SegmentKnown(profile, Segment, Context)
              \/ Len(frames) = 1
              \/ SignatureFits(Top.block)

BeginSegment ==
  /\ AtSegmentStart
  /\ Recordable
  /\ SetTop([Top EXCEPT !.last = SegmentLast(Top.block, Top.index)])
  /\ profile' = RecordSegment(profile, Segment, Context)
  /\ touched' = {}
  /\ NoTape /\ KeepGoing

(***************************************************************************)
(* The segment could not be recorded: -1, before any of its nodes runs.    *)
(* The segment's own text is allocated before any counter is updated, its  *)
(* context's signature after.                                              *)
(***************************************************************************)
SegmentRecordFails ==
  /\ AtSegmentStart
  /\ \/ /\ AllocMayFail
        /\ UNCHANGED profile
     \/ /\ ~Recordable \/ (AllocMayFail /\ ~SegmentKnown(profile, Segment, Context))
        /\ profile' = CountSegment(profile, Segment)
  /\ unrecorded' = TRUE
  /\ touched' = {}
  /\ Fail(1)

\* The pointer moves at once: a move off the tape ends the run with -1.
AddPtr ==
  /\ AtNode /\ InSegment /\ Here.kind = "ADD_PTR"
  /\ profile' = RecordNode(profile, Here)
  /\ touched' = {}
  /\ UNCHANGED unrecorded
  /\ \/ /\ InTape(pointer + Here.arg)
        /\ pointer' = pointer + Here.arg
        /\ SetTop([Past(Top) EXCEPT !.pending = @ + Here.arg])
        /\ UNCHANGED <<tape, input, io, result>>
     \/ /\ ~InTape(pointer + Here.arg)
        /\ Fail(1)

\* Mutants: the sum is stored without its conversion to a byte, or saturates.
StoredWide(n, old) ==
  CASE n.kind = "ADD_DATA"  -> old + n.arg
    [] n.kind = "SET_ZERO"  -> 0
    [] n.kind = "SET_CONST" -> n.arg

StoredSaturated(n, old) ==
  CASE n.kind = "ADD_DATA"  -> IF old + n.arg \in Cell THEN old + n.arg ELSE old
    [] n.kind = "SET_ZERO"  -> 0
    [] n.kind = "SET_CONST" -> Byte(n.arg)

\* ADD_DATA, SET_ZERO and SET_CONST.
StoredByte(n, old) ==
  CASE n.kind = "ADD_DATA"  -> Byte(old + n.arg)
    [] n.kind = "SET_ZERO"  -> 0
    [] n.kind = "SET_CONST" -> Byte(n.arg)

StoreCell ==
  /\ AtNode /\ InSegment /\ Here.kind # "ADD_PTR"
  /\ profile' = RecordNode(profile, Here)
  /\ tape' = [tape EXCEPT ![pointer] = StoredByte(Here, @)]
  /\ touched' = {pointer}
  /\ SetTop(Past(Top))
  /\ UNCHANGED <<pointer, input, io>> /\ KeepGoing
-----------------------------------------------------------------------------
(* The other nodes, one case of the switch each.                           *)

(***************************************************************************)
(* What happens before the switch.  The interpreter drops the offset it    *)
(* thinks the JIT defers at every node but INPUT, OUTPUT and a loop or if  *)
(* the JIT emits at that offset; a SCAN's offset is recorded first.        *)
(***************************************************************************)
Arrived ==
  [Top EXCEPT !.pending = IF \/ Here.kind \in {"INPUT", "OUTPUT"}
                             \/ ControlAtOffset(Here, @)
                          THEN @ ELSE 0]

ArrivalProfile ==
  RecordNode(IF Here.kind = "SCAN"
             THEN RecordScanContext(profile, Top.pending, Here.arg) ELSE profile, Here)

Input ==
  /\ AtNode /\ Here.kind = "INPUT"
  /\ LET byte == IF input = <<>> THEN EofByte ELSE Head(input)
     IN  /\ tape' = [tape EXCEPT ![pointer] = byte]
         /\ io' = Append(io, <<"read", byte>>)
  /\ input' = IF input = <<>> THEN input ELSE Tail(input)
  /\ touched' = {pointer}
  /\ profile' = ArrivalProfile
  /\ SetTop(Past(Arrived))
  /\ UNCHANGED pointer /\ KeepGoing

Output ==
  /\ AtNode /\ Here.kind = "OUTPUT"
  /\ io' = Append(io, <<"write", tape[pointer]>>)
  /\ touched' = {pointer}
  /\ profile' = ArrivalProfile
  /\ SetTop(Past(Arrived))
  /\ UNCHANGED <<tape, pointer, input>> /\ KeepGoing

ArriveAtLoop ==
  /\ AtNode /\ Here.kind = "LOOP" /\ ~Top.testing
  /\ profile' = ArrivalProfile
  /\ SetTop([Arrived EXCEPT !.testing = TRUE])
  /\ touched' = {}
  /\ NoTape /\ KeepGoing

\* while (tape[*pointer] != 0): run the body once more, or go on.
TestLoop ==
  /\ AtNode /\ Here.kind = "LOOP" /\ Top.testing
  /\ frames' = IF tape[pointer] # 0 THEN Append(frames, Invocation(Here.body))
               ELSE [frames EXCEPT ![Len(frames)] = Past(Top)]
  /\ touched' = {pointer}
  /\ NoTape /\ KeepGoing /\ UNCHANGED profile

\* Mutant: the body is run without a look at the cell.
EnterIf ==
  /\ AtNode /\ Here.kind = "IF"
  /\ frames' = Append([frames EXCEPT ![Len(frames)] = Arrived], Invocation(Here.body))
  /\ touched' = {pointer}
  /\ profile' = ArrivalProfile
  /\ NoTape /\ KeepGoing

\* A body runs at most once; the invocation is left at the IF until it returns.
TestIf ==
  /\ AtNode /\ Here.kind = "IF"
  /\ frames' = IF tape[pointer] # 0
               THEN Append([frames EXCEPT ![Len(frames)] = Arrived], Invocation(Here.body))
               ELSE [frames EXCEPT ![Len(frames)] = Past(Arrived)]
  /\ touched' = {pointer}
  /\ profile' = ArrivalProfile
  /\ NoTape /\ KeepGoing

(***************************************************************************)
(* bf_runtime_execute_scan: the first zero cell on the stride, by memchr   *)
(* for step 1, by bf_runtime_scan_index_step4 for step 4 and by            *)
(* bf_runtime_scan_index otherwise (BFScan: they act as this one step).    *)
(***************************************************************************)
Stride(step)    == StrideOn(pointer, step, TapeSize)
ZerosOn(step)   == {i \in Stride(step) : tape[i] = 0}
FirstZero(step) == FirstOf(ZerosOn(step), step)

Scan ==
  /\ AtNode /\ Here.kind = "SCAN"
  /\ LET step == Here.arg
         stops == step # 0 /\ ZerosOn(step) # {}
     IN  /\ touched' = {i \in Stride(step) : /\ step # 0
                                             /\ stops => Between(i, pointer, FirstZero(step))}
         /\ \/ /\ stops
               /\ pointer' = FirstZero(step)
               /\ profile' = RecordDistance(ArrivalProfile, step, pointer, pointer')
               /\ SetTop(Past(Arrived))
               /\ UNCHANGED <<tape, input, io, result>>
            \/ /\ ~stops
               /\ profile' = ArrivalProfile
               /\ Fail(IF step = 1 THEN 2 ELSE 3)
  /\ UNCHANGED unrecorded

\* The scan's context could not be recorded: -1, before the node is counted.
\* (The table really grows when it is full, after 0, 8, 16, 32 ... entries.)
ScanRecordFails ==
  /\ AllocMayFail
  /\ AtNode /\ Here.kind = "SCAN"
  /\ <<Top.pending, Here.arg>> \notin DOMAIN profile.contexts
  /\ profile' = CountScanContext(profile, Top.pending)
  /\ unrecorded' = TRUE
  /\ touched' = {}
  /\ Fail(1)

\* Mutant: only the upper end of the tape is checked.
RangeErrorAbove(offsets, below, above) ==
  IF ~InTape(pointer + Greatest(offsets \union {0})) THEN above ELSE 0

(***************************************************************************)
(* bf_runtime_check_offset_range over a set of offsets from the pointer:   *)
(* the error code for an extreme that leaves the tape, 0 when none does.   *)
(***************************************************************************)
RangeError(offsets, below, above) ==
  LET least == Least(offsets \union {0})
      most  == Greatest(offsets \union {0})
  IN  IF ~InTape(pointer + least) THEN below
      ELSE IF ~InTape(pointer + most) THEN above ELSE 0

Targets(n) == {pointer + d : d \in TermOffsets(n)}

\* bf_runtime_execute_multi_zero: all cells are zeroed or none is.
MultiZero ==
  /\ AtNode /\ Here.kind = "MULTI_ZERO"
  /\ LET error == RangeError(TermOffsets(Here) \union {Here.arg}, 8, 9)
     IN  \/ /\ error = 0
            /\ tape' = [i \in Index |-> IF i \in Targets(Here) THEN 0 ELSE tape[i]]
            /\ pointer' = pointer + Here.arg
            /\ touched' = Targets(Here)
            /\ SetTop(Past(Arrived))
            /\ UNCHANGED <<input, io, result>>
         \/ /\ error # 0
            /\ touched' = {}
            /\ Fail(error)
  /\ profile' = ArrivalProfile
  /\ UNCHANGED unrecorded

\* The multiply loop's closed form: every other cell gains factor times the
\* counter, which ends at zero.  (The terms' offsets are distinct and not 0.)
FactorAt(n, d) == LET i == CHOOSE i \in DOMAIN n.terms : n.terms[i].offset = d
                  IN  n.terms[i].factor

Multiplied(n) ==
  [i \in Index |->
     IF i = pointer THEN 0
     ELSE IF i - pointer \in TermOffsets(n)
          THEN Byte(tape[i] + tape[pointer] * FactorAt(n, i - pointer)) ELSE tape[i]]

\* bf_runtime_execute_multiply_loop: nothing, not even the range check, when
\* the counter is zero.
MultiplyLoop ==
  /\ AtNode /\ Here.kind \in MultiplyKinds
  /\ LET error == IF tape[pointer] = 0 THEN 0 ELSE RangeError(TermOffsets(Here), 4, 5)
     IN  \/ /\ error = 0
            /\ tape' = IF tape[pointer] = 0 THEN tape ELSE Multiplied(Here)
            /\ touched' = {pointer} \union (IF tape[pointer] = 0 THEN {} ELSE Targets(Here))
            /\ SetTop(Past(Arrived))
            /\ UNCHANGED <<pointer, input, io, result>>
         \/ /\ error # 0
            /\ touched' = {pointer}
            /\ Fail(error)
  /\ profile' = ArrivalProfile
  /\ UNCHANGED unrecorded
-----------------------------------------------------------------------------
\* The stack without its running invocation: the caller tests its LOOP again,
\* or moves past its IF.
CallerResumes ==
  LET below  == Len(frames) - 1
      caller == frames[below]
  IN  [SubSeq(frames, 1, below) EXCEPT
         ![below] = IF caller.block[caller.index].kind = "IF" THEN Past(caller) ELSE caller]

\* The end of a block: back to the loop or if that ran it, or out of
\* bf_runtime_execute_profiled with the final pointer.
BlockEnds ==
  /\ Running /\ Top.index > Len(Top.block)
  /\ \/ /\ Len(frames) > 1
        /\ frames' = CallerResumes
        /\ UNCHANGED result
     \/ /\ Len(frames) = 1
        /\ Return("done", pointer)
        /\ UNCHANGED frames
  /\ touched' = {}
  /\ NoTape /\ UNCHANGED <<unrecorded, profile>>

\* The caller has the result: nothing more happens.
Returned == ~Running /\ UNCHANGED vars

Step ==
  \/ BeginSegment \/ SegmentRecordFails \/ AddPtr \/ StoreCell
  \/ Input \/ Output
  \/ ArriveAtLoop \/ TestLoop \/ TestIf
  \/ Scan \/ ScanRecordFails \/ MultiZero \/ MultiplyLoop
  \/ BlockEnds

Next == Step \/ Returned

Spec == Init /\ [][Next]_vars

\* The interpreter runs on one thread that nothing blocks.
FairSpec == Spec /\ WF_vars(Step)
-----------------------------------------------------------------------------
(* Properties.                                                             *)

Frame == [block   : Seq(Node),
          index   : Nat \ {0},
          last    : Nat,
          testing : BOOLEAN,
          pending : Int]

Event == {"read", "write"} \X Cell

\* Every variable of the interpreter stays in its range (the profile's are
\* related by ProfileAddsUp).
TypeOK ==
  /\ tape \in [Index -> Cell]
  /\ pointer \in Index
  /\ input \in Seq(Cell)
  /\ io \in Seq(Event)
  /\ result \in [status : {"running", "done", "failed"}, value : Int]
  /\ unrecorded \in BOOLEAN

\* The invocations are where the C call stack can be: there is a running one,
\* none is past its block's end, a caller is still at the LOOP or IF whose body
\* the next one runs, and what is left of a segment is made of segment nodes.
FrameOK(f) ==
  /\ f.index <= Len(f.block) + 1
  /\ f.last <= Len(f.block)
  /\ \A k \in f.index .. f.last : IsSegmentNode(f.block[k])

WaitsFor(caller, callee) ==
  /\ caller.index <= Len(caller.block)
  /\ caller.block[caller.index].kind \in ControlKinds
  /\ callee.block = caller.block[caller.index].body

StackOK(stack) ==
  /\ stack \in Seq(Frame)
  /\ stack # <<>>
  /\ \A i \in DOMAIN stack : FrameOK(stack[i])
  /\ \A i \in 1 .. Len(stack) - 1 : WaitsFor(stack[i], stack[i + 1])

CallStackOK == StackOK(frames)

\* Memory safety: no node, whatever the optimiser made of the program, reads or
\* writes a cell off the tape (bf_runtime_add_offset, _check_offset_range).
OnlyTheTapeIsTouched == touched \subseteq Index

\* bf_mark_known_nonnull_multiply_in_ifs is right: a NONNULL_MULTIPLY_LOOP,
\* whose counter the backends do not test, is only reached with a nonzero one.
NonnullCounterIsNonzero ==
  AtNode /\ Here.kind = "NONNULL_MULTIPLY_LOOP" => tape[pointer] # 0

\* bf_try_convert_loop_to_if is right: when the body of an IF has run, the cell
\* under the pointer is zero, so the loop it was would not have run it again.
IfBodiesRunOnce ==
  (Running /\ Top.index > Len(Top.block) /\ Len(frames) > 1)
    => LET caller == frames[Len(frames) - 1]
       IN  caller.block[caller.index].kind = "IF" => tape[pointer] = 0

\* The profile adds up while the program runs: each node executed was counted
\* once, under one kind, each scan under one class and one context, and the
\* nodes of the segments recorded are those executed plus the rest of this one.
SumOf(f) == FoldFunction(+, 0, f)

ProfileAddsUp ==
  LET ahead == IF InSegment THEN Top.last - Top.index + 1 ELSE 0
      inSegments == profile.counts["ADD_PTR"] + profile.counts["ADD_DATA"]
                    + profile.counts["SET_ZERO"] + profile.counts["SET_CONST"]
  IN  result.status # "failed" =>
        /\ profile.total = SumOf(profile.counts)
        /\ profile.counts["SCAN"] = SumOf(profile.scans)
        /\ profile.counts["SCAN"] = SumOf(profile.contexts)
        /\ profile.segmentRuns = SumOf(profile.segments)
        /\ profile.segmentNodes = inSegments + ahead
=============================================================================
