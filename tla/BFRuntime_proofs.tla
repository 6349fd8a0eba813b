--------------------------- MODULE BFRuntime_proofs ---------------------------
(***************************************************************************)
(* Proofs about the interpreter, for every tape size, every program and    *)
(* every input: it is memory safe (BFRuntime); the profile it fills adds   *)
(* up (BFProfile); what the optimiser proves of an IF and of a             *)
(* NONNULL_MULTIPLY_LOOP is so, on the programs it leaves (BFOptimized);   *)
(* and a scan, one step here, is what its loop does (BFScan).              *)
(***************************************************************************)
EXTENDS BFOptimized, BFScan, BFFolds_proofs, SequenceTheorems
-----------------------------------------------------------------------------
(* The call stack.                                                         *)

LEMMA TopIsFrame ==
  ASSUME StackOK(frames)
  PROVE  /\ Len(frames) \in Nat \ {0}
         /\ Top \in Frame
         /\ FrameOK(Top)
         /\ Top.block \in Seq(Node)
         /\ Top.index \in Nat \ {0}
         /\ Top.last \in Nat
         /\ Top.testing \in BOOLEAN
         /\ Top.pending \in Int
<1>1. Len(frames) \in Nat \ {0}
  BY DEF StackOK
<1>2. Top \in Frame /\ FrameOK(Top)
  BY <1>1 DEF StackOK, Top
<1> QED  BY <1>1, <1>2 DEF Frame

LEMMA HereIsNode ==
  ASSUME StackOK(frames), AtNode
  PROVE  /\ Here \in Node
         /\ Here = Top.block[Top.index]
         /\ Top.index \in 1 .. Len(Top.block)
         /\ Here.kind \in Kinds
         /\ Here.arg \in Int
         /\ Here.body \in Seq(Node)
         /\ Here.terms \in Seq(Terms)
<1>1. Top.index \in 1 .. Len(Top.block)
  BY TopIsFrame DEF AtNode
<1>2. Here \in Node /\ Here = Top.block[Top.index]
  BY <1>1, TopIsFrame DEF Here
<1> QED  BY <1>1, <1>2, NodeAssumption

\* The top invocation is replaced by one that is as well formed.
LEMMA SetTopStack ==
  ASSUME NEW stack, StackOK(stack), NEW f \in Frame, FrameOK(f),
         f.block = stack[Len(stack)].block
  PROVE  StackOK([stack EXCEPT ![Len(stack)] = f])
<1> DEFINE next == [stack EXCEPT ![Len(stack)] = f]
<1>1. Len(stack) \in Nat \ {0} /\ stack \in Seq(Frame)
  BY DEF StackOK
<1>2. next \in Seq(Frame) /\ Len(next) = Len(stack) /\ next # <<>>
  BY <1>1
<1>3. \A i \in 1 .. Len(stack) : next[i] = IF i = Len(stack) THEN f ELSE stack[i]
  BY <1>1
<1>4. \A i \in 1 .. Len(stack) : FrameOK(next[i])
  BY <1>1, <1>3 DEF StackOK
<1>5. \A i \in 1 .. Len(stack) - 1 : WaitsFor(next[i], next[i + 1])
  <2> TAKE i \in 1 .. Len(stack) - 1
  <2>1. next[i] = stack[i] /\ next[i + 1].block = stack[i + 1].block
    BY <1>1, <1>3
  <2>2. WaitsFor(stack[i], stack[i + 1])
    BY <1>1 DEF StackOK
  <2> QED  BY <2>1, <2>2 DEF WaitsFor
<1> HIDE DEF next
<1>6. StackOK(next)
  BY <1>1, <1>2, <1>4, <1>5 DEF StackOK
<1> QED  BY <1>6 DEF next

\* The invocation moves on to its next node.
LEMMA PastFrame ==
  ASSUME NEW f \in Frame, FrameOK(f), f.index <= Len(f.block)
  PROVE  Past(f) \in Frame /\ FrameOK(Past(f)) /\ Past(f).block = f.block
<1>1. /\ f.block \in Seq(Node) /\ f.index \in Nat \ {0} /\ f.last \in Nat
      /\ f.testing \in BOOLEAN /\ f.pending \in Int
  BY DEF Frame
<1>2. /\ Past(f).index = f.index + 1
      /\ Past(f).block = f.block
      /\ Past(f).last = f.last
  BY DEF Past, Frame
<1>3. Past(f) \in Frame
  <2> DEFINE g == [f EXCEPT !.index = f.index + 1]
  <2>1. g \in Frame  BY <1>1 DEF Frame
  <2>2. Past(f) = [g EXCEPT !.testing = FALSE]  BY DEF Past
  <2> HIDE DEF g
  <2> QED  BY <2>1, <2>2 DEF Frame
<1>4. FrameOK(Past(f))
  BY <1>1, <1>2 DEF FrameOK
<1> QED  BY <1>2, <1>3, <1>4

\* A body is entered: its invocation goes on top of its node's.
LEMMA PushStack ==
  ASSUME NEW stack, StackOK(stack), NEW body \in Seq(Node),
         WaitsFor(stack[Len(stack)], Invocation(body))
  PROVE  StackOK(Append(stack, Invocation(body)))
<1> DEFINE next == Append(stack, Invocation(body))
<1>1. Len(stack) \in Nat \ {0} /\ stack \in Seq(Frame)
  BY DEF StackOK
<1>2. Invocation(body) \in Frame
  BY DEF Invocation, Frame
<1>3. FrameOK(Invocation(body))
  BY DEF Invocation, FrameOK
<1>4. next \in Seq(Frame) /\ Len(next) = Len(stack) + 1 /\ next # <<>>
  BY <1>1, <1>2
<1>5. /\ \A i \in 1 .. Len(stack) : next[i] = stack[i]
      /\ next[Len(stack) + 1] = Invocation(body)
  BY <1>1, <1>2
<1>6. \A i \in 1 .. Len(stack) + 1 : FrameOK(next[i])
  BY <1>1, <1>3, <1>5 DEF StackOK
<1>7. \A i \in 1 .. Len(stack) : WaitsFor(next[i], next[i + 1])
  <2> TAKE i \in 1 .. Len(stack)
  <2>1. CASE i = Len(stack)
    BY <1>1, <1>5, <2>1
  <2>2. CASE i \in 1 .. Len(stack) - 1
    <3>1. next[i] = stack[i] /\ next[i + 1] = stack[i + 1]
      BY <1>1, <1>5, <2>2
    <3> QED  BY <1>1, <2>2, <3>1 DEF StackOK
  <2> QED  BY <1>1, <2>1, <2>2
<1> HIDE DEF next
<1>8. StackOK(next)
  BY <1>1, <1>4, <1>6, <1>7 DEF StackOK
<1> QED  BY <1>8 DEF next

\* A body has run: the invocation below is on top again.
LEMMA PopStack ==
  ASSUME NEW stack, StackOK(stack), Len(stack) > 1
  PROVE  LET below == Len(stack) - 1
         IN  /\ StackOK(SubSeq(stack, 1, below))
             /\ Len(SubSeq(stack, 1, below)) = below
             /\ SubSeq(stack, 1, below)[below] = stack[below]
             /\ stack[below] \in Frame
             /\ FrameOK(stack[below])
             /\ WaitsFor(stack[below], stack[below + 1])
             /\ stack[below].index <= Len(stack[below].block)
<1> DEFINE below == Len(stack) - 1
           next == SubSeq(stack, 1, below)
<1>1. Len(stack) \in Nat \ {0} /\ stack \in Seq(Frame) /\ below \in Nat \ {0}
  BY DEF StackOK
<1>2. /\ next \in Seq(Frame)
      /\ Len(next) = below
      /\ \A i \in 1 .. below : next[i] = stack[i]
  <2>1. 1 \in Int /\ below \in Int /\ \A i \in 1 .. below : stack[i] \in Frame
    BY <1>1
  <2> HIDE DEF below
  <2>2. next \in Seq(Frame)
    BY <2>1, SubSeqProperties, Zenon
  <2>3. Len(next) = IF 1 <= below THEN below - 1 + 1 ELSE 0
    BY <1>1, <2>1, SubSeqProperties
  <2> QED  BY <1>1, <2>1, <2>2, <2>3, SubSeqProperties
<1>3. next # <<>> /\ \A i \in 1 .. below : next[i] = stack[i]
  BY <1>1, <1>2
<1>4. \A i \in 1 .. below : FrameOK(next[i])
  BY <1>1, <1>3 DEF StackOK
<1>5. \A i \in 1 .. below - 1 : WaitsFor(next[i], next[i + 1])
  <2> TAKE i \in 1 .. below - 1
  <2>1. next[i] = stack[i] /\ next[i + 1] = stack[i + 1]
    BY <1>1, <1>3
  <2> QED  BY <1>1, <2>1 DEF StackOK
<1>6. stack[below] \in Frame /\ FrameOK(stack[below]) /\ WaitsFor(stack[below], stack[below + 1])
  BY <1>1 DEF StackOK
<1>7. StackOK(next)
  <2> HIDE DEF next
  <2> QED  BY <1>1, <1>2, <1>4, <1>5 DEF StackOK
<1> QED  BY <1>1, <1>2, <1>3, <1>6, <1>7 DEF WaitsFor
-----------------------------------------------------------------------------
(* The frames the actions put on top of the stack.                         *)

\* Only the shadow offset or the loop's position in its while changes.
LEMMA SamePlace ==
  ASSUME NEW f \in Frame, FrameOK(f), NEW g \in Frame,
         g.block = f.block, g.index = f.index, g.last = f.last
  PROVE  FrameOK(g)
  BY DEF FrameOK

LEMMA ArrivedFrame ==
  ASSUME StackOK(frames), AtNode
  PROVE  /\ Arrived \in Frame /\ FrameOK(Arrived)
         /\ Arrived.block = Top.block
         /\ Arrived.index = Top.index
         /\ Past(Arrived) \in Frame /\ FrameOK(Past(Arrived))
         /\ Past(Arrived).block = Top.block
<1>1. Top \in Frame /\ FrameOK(Top) /\ Top.pending \in Int /\ Top.index <= Len(Top.block)
  BY TopIsFrame DEF AtNode
<1>2. PICK p \in Int : Arrived = [Top EXCEPT !.pending = p]
  BY <1>1 DEF Arrived
<1>3. Arrived \in Frame
  BY <1>1, <1>2 DEF Frame
<1>4. Arrived.block = Top.block /\ Arrived.index = Top.index /\ Arrived.last = Top.last
  BY <1>1, <1>2 DEF Frame
<1>5. FrameOK(Arrived)
  BY <1>1, <1>3, <1>4, SamePlace
<1>6. Past(Arrived) \in Frame /\ FrameOK(Past(Arrived)) /\ Past(Arrived).block = Arrived.block
  BY <1>1, <1>3, <1>4, <1>5, PastFrame
<1> QED  BY <1>3, <1>4, <1>5, <1>6

\* A segment's last node is in the block, and everything up to it belongs to it.
LEMMA SegmentLastIsLast ==
  ASSUME NEW block \in Seq(Node), NEW i \in 1 .. Len(block), IsSegmentNode(block[i])
  PROVE  /\ SegmentLast(block, i) \in i .. Len(block)
         /\ \A j \in i .. SegmentLast(block, i) : IsSegmentNode(block[j])
<1> DEFINE S == {k \in i .. Len(block) : \A j \in i .. k : IsSegmentNode(block[j])}
<1>1. S \subseteq Int /\ i \in S
  BY DEF IsSegmentNode
<1>2. \A k \in S : k <= Len(block)
  OBVIOUS
<1>3. Len(block) \in Int
  OBVIOUS
<1>4. Greatest(S) \in S
  <2> HIDE DEF S
  <2> QED  BY <1>1, <1>2, <1>3, GreatestOfBounded
<1> QED  BY <1>4 DEF SegmentLast
-----------------------------------------------------------------------------
(* Offsets and ranges.                                                     *)

\* bf_runtime_check_offset_range is sound: without an error, no offset of the
\* set leads off the tape.
LEMMA RangeErrorSafe ==
  ASSUME NEW D, D \subseteq Int, pointer \in Index,
         NEW b \in Nat, \A d \in D : -b <= d /\ d <= b,
         NEW below, NEW above, below # 0, above # 0,
         RangeError(D, below, above) = 0
  PROVE  \A d \in D : pointer + d \in Index
<1> DEFINE Z == D \union {0}
<1>1. Z \subseteq Int /\ Z # {} /\ \A d \in Z : -b <= d /\ d <= b
  OBVIOUS
<1>2. Least(Z) \in Z /\ \A d \in Z : Least(Z) <= d
  <2> HIDE DEF Z
  <2>1. -b \in Int  OBVIOUS
  <2> QED  BY <1>1, <2>1, LeastOfBounded
<1>3. Greatest(Z) \in Z /\ \A d \in Z : d <= Greatest(Z)
  <2> HIDE DEF Z
  <2>1. b \in Int  OBVIOUS
  <2> QED  BY <1>1, <2>1, GreatestOfBounded
<1>4. pointer + Least(Z) \in Index /\ pointer + Greatest(Z) \in Index
  BY DEF RangeError, InTape
<1>5. \A d \in Z : pointer + d \in Index
  <2> HIDE DEF Z
  <2> TAKE d \in Z
  <2>1. d \in Int /\ Least(Z) \in Int /\ Greatest(Z) \in Int /\ Least(Z) <= d /\ d <= Greatest(Z)
    BY <1>1, <1>2, <1>3
  <2> QED  BY <1>4, <2>1, TapeAssumption DEF Index
<1> QED  BY <1>5

\* A scan that stops does so on the tape, at a zero cell of its stride.
LEMMA FirstZeroIsOnStride ==
  ASSUME NEW stride \in Int, ZerosOn(stride) # {}
  PROVE  FirstZero(stride) \in ZerosOn(stride) /\ FirstZero(stride) \in Index
<1>1. /\ ZerosOn(stride) \subseteq Index
      /\ ZerosOn(stride) \subseteq Int
      /\ \A i \in ZerosOn(stride) : 0 <= i /\ i <= TapeSize - 1
      /\ 0 \in Int /\ TapeSize - 1 \in Int
  BY TapeAssumption DEF ZerosOn, Stride, StrideOn, Index
<1>2. Least(ZerosOn(stride)) \in ZerosOn(stride) /\ Greatest(ZerosOn(stride)) \in ZerosOn(stride)
  BY <1>1, LeastOfBounded, GreatestOfBounded
<1> QED  BY <1>1, <1>2 DEF FirstZero, FirstOf
-----------------------------------------------------------------------------
(***************************************************************************)
(* The inductive invariant.  That no cell off the tape is touched follows  *)
(* from the pointer's range, which depends on where the call stack is: the *)
(* running node must be one of its block for its argument to be a number.  *)
(***************************************************************************)
Inv == TypeOK /\ CallStackOK /\ OnlyTheTapeIsTouched

\* A step that fails leaves the memory and the stack as they are.
LEMMA FailKeepsInv ==
  ASSUME Inv, NEW code \in Int, Fail(code), touched' \subseteq Index, unrecorded' \in BOOLEAN
  PROVE  Inv'
<1>1. result' \in [status : {"running", "done", "failed"}, value : Int]
  BY DEF Fail, Return
<1>2. TypeOK'
  BY <1>1 DEF Inv, TypeOK, Fail, NoTape, Index, Event
<1>3. CallStackOK'
  BY DEF Inv, CallStackOK, StackOK, Fail, FrameOK, Frame
<1>4. OnlyTheTapeIsTouched'
  BY DEF OnlyTheTapeIsTouched, Index
<1> QED  BY <1>2, <1>3, <1>4 DEF Inv

\* A step that runs on leaves a well-formed stack.
LEMMA StepKeepsInv ==
  ASSUME Inv, StackOK(frames'), tape' \in [Index -> Cell], pointer' \in Index,
         input' \in Seq(Cell), io' \in Seq(Event), touched' \subseteq Index,
         UNCHANGED <<result, unrecorded>>
  PROVE  Inv'
<1>1. TypeOK'
  BY DEF Inv, TypeOK, Index, Event
<1>2. CallStackOK'
  BY DEF CallStackOK, StackOK, FrameOK, Frame
<1>3. OnlyTheTapeIsTouched'
  BY DEF OnlyTheTapeIsTouched, Index
<1> QED  BY <1>1, <1>2, <1>3 DEF Inv

LEMMA SegmentKeepsInv ==
  ASSUME Inv, BeginSegment
  PROVE  Inv'
<1> DEFINE last == SegmentLast(Top.block, Top.index)
           f == [Top EXCEPT !.last = last]
<1>1. StackOK(frames) /\ AtNode /\ IsSegmentNode(Here)
  BY DEF Inv, CallStackOK, BeginSegment, AtSegmentStart
<1>2. /\ Top \in Frame /\ FrameOK(Top) /\ Top.block \in Seq(Node)
      /\ Top.index \in 1 .. Len(Top.block) /\ IsSegmentNode(Top.block[Top.index])
  BY <1>1, TopIsFrame, HereIsNode
<1>3. /\ last \in Top.index .. Len(Top.block)
      /\ \A j \in Top.index .. last : IsSegmentNode(Top.block[j])
  BY <1>2, SegmentLastIsLast
<1> HIDE DEF last
<1>4. f \in Frame
  BY <1>2, <1>3 DEF Frame
<1>5. f.block = Top.block /\ f.index = Top.index /\ f.last = last
  BY <1>2 DEF Frame
<1>6. FrameOK(f)
  BY <1>2, <1>3, <1>5 DEF FrameOK
<1>7. frames' = [frames EXCEPT ![Len(frames)] = f]
  BY DEF BeginSegment, SetTop, last
<1> HIDE DEF f
<1>8. StackOK(frames')
  BY <1>1, <1>4, <1>5, <1>6, <1>7, SetTopStack DEF Top
<1> QED  BY <1>8, StepKeepsInv DEF BeginSegment, NoTape, KeepGoing, Inv, TypeOK

LEMMA AddPtrKeepsInv ==
  ASSUME Inv, AddPtr
  PROVE  Inv'
<1>1. StackOK(frames) /\ AtNode
  BY DEF Inv, CallStackOK, AddPtr
<1>2. Here.arg \in Int /\ Top \in Frame /\ FrameOK(Top) /\ Top.index <= Len(Top.block)
  BY <1>1, TopIsFrame, HereIsNode DEF AtNode
<1>3. CASE InTape(pointer + Here.arg)
  <2> DEFINE f == [Past(Top) EXCEPT !.pending = @ + Here.arg]
  <2>1. /\ frames' = [frames EXCEPT ![Len(frames)] = f]
        /\ pointer' \in Index
        /\ UNCHANGED <<tape, input, io, result, unrecorded>>
        /\ touched' = {}
    BY <1>3 DEF AddPtr, SetTop, InTape
  <2>2. Past(Top) \in Frame /\ FrameOK(Past(Top)) /\ Past(Top).block = Top.block
    BY <1>2, PastFrame
  <2>3. f \in Frame /\ f.block = Past(Top).block /\ f.index = Past(Top).index
        /\ f.last = Past(Top).last
    BY <1>2, <2>2 DEF Frame
  <2> HIDE DEF f
  <2>4. FrameOK(f)
    BY <2>2, <2>3, SamePlace
  <2>5. StackOK(frames')
    BY <1>1, <2>1, <2>2, <2>3, <2>4, SetTopStack DEF Top
  <2> QED  BY <2>1, <2>5, StepKeepsInv DEF Inv, TypeOK
<1>4. CASE ~InTape(pointer + Here.arg)
  <2>1. Fail(1) /\ touched' = {} /\ UNCHANGED unrecorded
    BY <1>4 DEF AddPtr
  <2> QED  BY <2>1, FailKeepsInv DEF Inv, TypeOK
<1> QED  BY <1>3, <1>4

LEMMA StoreCellKeepsInv ==
  ASSUME Inv, StoreCell
  PROVE  Inv'
<1>1. StackOK(frames) /\ AtNode /\ InSegment /\ Here.kind # "ADD_PTR"
  BY DEF Inv, CallStackOK, StoreCell
<1>2. /\ Top \in Frame /\ FrameOK(Top) /\ Top.index <= Len(Top.block) /\ Here.arg \in Int
      /\ Top.index \in Nat /\ Top.last \in Nat /\ Here = Top.block[Top.index]
  BY <1>1, TopIsFrame, HereIsNode DEF AtNode
<1>3. Here.kind \in {"ADD_DATA", "SET_ZERO", "SET_CONST"}
  BY <1>1, <1>2 DEF FrameOK, InSegment, IsSegmentNode
<1>4. pointer \in Index /\ tape \in [Index -> Cell] /\ tape[pointer] \in Int
  BY CellCountAssumption DEF Inv, TypeOK, Cell
<1>5. StoredByte(Here, tape[pointer]) \in Cell
  <2>1. 0 \in Cell  BY CellCountAssumption DEF Cell
  <2>2. Byte(tape[pointer] + Here.arg) \in Cell /\ Byte(Here.arg) \in Cell
    BY <1>2, <1>4, ByteIsCell
  <2> QED  BY <1>2, <1>3, <1>4, <2>1, <2>2 DEF StoredByte
<1>6. tape' \in [Index -> Cell]
  BY <1>4, <1>5 DEF StoreCell
<1>7. StackOK(frames')
  BY <1>1, <1>2, PastFrame, SetTopStack DEF StoreCell, SetTop, Top
<1> QED
  BY <1>4, <1>6, <1>7, StepKeepsInv DEF StoreCell, KeepGoing, Inv, TypeOK

\* The invocation has run its node and moves past it.
LEMMA PastNodeStack ==
  ASSUME StackOK(frames), AtNode, SetTop(Past(Arrived))
  PROVE  StackOK(frames')
<1>1. Past(Arrived) \in Frame /\ FrameOK(Past(Arrived)) /\ Past(Arrived).block = Top.block
  BY ArrivedFrame
<1>2. frames' = [frames EXCEPT ![Len(frames)] = Past(Arrived)]
  BY DEF SetTop
<1> QED  BY <1>1, <1>2, SetTopStack DEF Top

LEMMA InputKeepsInv ==
  ASSUME Inv, Input
  PROVE  Inv'
<1> DEFINE byte == IF input = <<>> THEN EofByte ELSE Head(input)
<1>1. StackOK(frames) /\ AtNode /\ pointer \in Index /\ tape \in [Index -> Cell]
      /\ input \in Seq(Cell) /\ io \in Seq(Event)
  BY DEF Inv, CallStackOK, Input, TypeOK
<1>2. byte \in Cell
  <2>1. EofByte \in Cell  BY ByteIsCell DEF EofByte
  <2> QED  BY <1>1, <2>1
<1>3. /\ tape' = [tape EXCEPT ![pointer] = byte]
      /\ io' = Append(io, <<"read", byte>>)
      /\ input' = IF input = <<>> THEN input ELSE Tail(input)
      /\ touched' = {pointer} /\ pointer' = pointer
      /\ SetTop(Past(Arrived)) /\ KeepGoing
  BY DEF Input
<1> HIDE DEF byte
<1>4. tape' \in [Index -> Cell] /\ io' \in Seq(Event) /\ input' \in Seq(Cell)
  <2>1. <<"read", byte>> \in Event  BY <1>2 DEF Event
  <2>2. input' \in Seq(Cell)  BY <1>1, <1>3
  <2> QED  BY <1>1, <1>2, <1>3, <2>1, <2>2
<1>5. StackOK(frames')
  BY <1>1, <1>3, PastNodeStack
<1> QED  BY <1>1, <1>3, <1>4, <1>5, StepKeepsInv DEF KeepGoing

LEMMA OutputKeepsInv ==
  ASSUME Inv, Output
  PROVE  Inv'
<1>1. StackOK(frames) /\ AtNode /\ pointer \in Index /\ tape \in [Index -> Cell]
      /\ input \in Seq(Cell) /\ io \in Seq(Event)
  BY DEF Inv, CallStackOK, Output, TypeOK
<1>2. /\ io' = Append(io, <<"write", tape[pointer]>>)
      /\ touched' = {pointer} /\ UNCHANGED <<tape, pointer, input>>
      /\ SetTop(Past(Arrived)) /\ KeepGoing
  BY DEF Output
<1>3. io' \in Seq(Event)
  <2>1. <<"write", tape[pointer]>> \in Event  BY <1>1 DEF Event
  <2> QED  BY <1>1, <1>2, <2>1
<1>4. StackOK(frames')
  BY <1>1, <1>2, PastNodeStack
<1> QED  BY <1>1, <1>2, <1>3, <1>4, StepKeepsInv DEF KeepGoing

LEMMA ArriveAtLoopKeepsInv ==
  ASSUME Inv, ArriveAtLoop
  PROVE  Inv'
<1> DEFINE f == [Arrived EXCEPT !.testing = TRUE]
<1>1. StackOK(frames) /\ AtNode
  BY DEF Inv, CallStackOK, ArriveAtLoop
<1>2. Arrived \in Frame /\ FrameOK(Arrived) /\ Arrived.block = Top.block
  BY <1>1, ArrivedFrame
<1>3. f \in Frame /\ f.block = Arrived.block /\ f.index = Arrived.index /\ f.last = Arrived.last
  BY <1>2 DEF Frame
<1>4. frames' = [frames EXCEPT ![Len(frames)] = f]
  BY DEF ArriveAtLoop, SetTop
<1> HIDE DEF f
<1>5. FrameOK(f)
  BY <1>2, <1>3, SamePlace
<1>6. StackOK(frames')
  BY <1>1, <1>2, <1>3, <1>4, <1>5, SetTopStack DEF Top
<1> QED  BY <1>6, StepKeepsInv DEF ArriveAtLoop, KeepGoing, NoTape, Inv, TypeOK

LEMMA TestLoopKeepsInv ==
  ASSUME Inv, TestLoop
  PROVE  Inv'
<1>1. StackOK(frames) /\ AtNode
  BY DEF Inv, CallStackOK, TestLoop
<1>2. /\ Top \in Frame /\ FrameOK(Top) /\ Top.index <= Len(Top.block)
      /\ Here.body \in Seq(Node)
  BY <1>1, TopIsFrame, HereIsNode DEF AtNode
<1>3. StackOK(frames')
  <2>1. StackOK(Append(frames, Invocation(Here.body)))
    <3>1. WaitsFor(Top, Invocation(Here.body))
      BY <1>2 DEF TestLoop, WaitsFor, Invocation, Here, ControlKinds
    <3> QED  BY <1>1, <1>2, <3>1, PushStack DEF Top
  <2>2. StackOK([frames EXCEPT ![Len(frames)] = Past(Top)])
    BY <1>1, <1>2, PastFrame, SetTopStack DEF Top
  <2> QED  BY <2>1, <2>2 DEF TestLoop
<1> QED  BY <1>3, StepKeepsInv DEF TestLoop, KeepGoing, NoTape, Inv, TypeOK

LEMMA TestIfKeepsInv ==
  ASSUME Inv, TestIf
  PROVE  Inv'
<1> DEFINE stack == [frames EXCEPT ![Len(frames)] = Arrived]
<1>1. StackOK(frames) /\ AtNode /\ Len(frames) \in Nat \ {0}
  BY TopIsFrame DEF Inv, CallStackOK, TestIf
<1>2. /\ Arrived \in Frame /\ FrameOK(Arrived)
      /\ Arrived.index <= Len(Arrived.block)
      /\ Past(Arrived) \in Frame /\ FrameOK(Past(Arrived))
      /\ Arrived.block = Top.block /\ Past(Arrived).block = Top.block
      /\ Arrived.index = Top.index
      /\ Here.body \in Seq(Node)
  BY <1>1, ArrivedFrame, HereIsNode DEF AtNode
<1>3. StackOK(stack)
  BY <1>1, <1>2, SetTopStack DEF Top
<1>4. Len(stack) = Len(frames) /\ stack[Len(stack)] = Arrived
  BY <1>1 DEF StackOK
<1>5. StackOK(frames')
  <2>1. StackOK(Append(stack, Invocation(Here.body)))
    <3>1. WaitsFor(Arrived, Invocation(Here.body))
      BY <1>2 DEF TestIf, WaitsFor, Invocation, Here, ControlKinds
    <3> HIDE DEF stack
    <3> QED  BY <1>2, <1>3, <1>4, <3>1, PushStack
  <2>2. StackOK([frames EXCEPT ![Len(frames)] = Past(Arrived)])
    BY <1>1, <1>2, SetTopStack DEF Top
  <2> QED  BY <2>1, <2>2 DEF TestIf
<1> QED  BY <1>5, StepKeepsInv DEF TestIf, KeepGoing, NoTape, Inv, TypeOK

LEMMA ScanKeepsInv ==
  ASSUME Inv, Scan
  PROVE  Inv'
<1> DEFINE stride == Here.arg
           stops == stride # 0 /\ ZerosOn(stride) # {}
<1>1. StackOK(frames) /\ AtNode
  BY DEF Inv, CallStackOK, Scan
<1>2. stride \in Int
  BY <1>1, HereIsNode
<1>3. touched' \subseteq Index
  BY DEF Scan, Stride, StrideOn, Index
<1>4. CASE stops
  <2>1. /\ pointer' = FirstZero(stride)
        /\ SetTop(Past(Arrived))
        /\ UNCHANGED <<tape, input, io, result, unrecorded>>
    BY <1>4 DEF Scan
  <2>2. pointer' \in Index
    BY <1>2, <1>4, <2>1, FirstZeroIsOnStride
  <2>3. StackOK(frames')
    BY <1>1, <2>1, PastNodeStack
  <2> QED  BY <1>3, <2>1, <2>2, <2>3, StepKeepsInv DEF Inv, TypeOK
<1>5. CASE ~stops
  <2>1. PICK code \in Int : Fail(code)
    BY <1>5 DEF Scan
  <2>2. unrecorded' \in BOOLEAN
    BY DEF Scan, Inv, TypeOK
  <2> QED  BY <1>3, <2>1, <2>2, FailKeepsInv
<1> QED  BY <1>4, <1>5

LEMMA MultiZeroKeepsInv ==
  ASSUME Inv, MultiZero
  PROVE  Inv'
<1> DEFINE D == TermOffsets(Here) \union {Here.arg}
           error == RangeError(D, 8, 9)
<1>1. StackOK(frames) /\ AtNode /\ pointer \in Index /\ tape \in [Index -> Cell]
  BY DEF Inv, CallStackOK, MultiZero, TypeOK
<1>2. Here \in Node /\ Here.arg \in Int
  BY <1>1, HereIsNode
<1>3. CASE error = 0
  <2>1. PICK b \in Nat : D \subseteq Int /\ \A d \in D : -b <= d /\ d <= b
    <3>1. TermOffsets(Here) \subseteq Int
      BY <1>2, TermOffsetsBounded
    <3>2. PICK c \in Nat : \A d \in TermOffsets(Here) : -c <= d /\ d <= c
      BY <1>2, TermOffsetsBounded
    <3>3. PICK b \in Nat : c <= b /\ -b <= Here.arg /\ Here.arg <= b
      <4>1. CASE Here.arg >= 0
        <5>1. c + Here.arg \in Nat  BY <1>2, <4>1
        <5> QED  BY <1>2, <4>1, <5>1
      <4>2. CASE Here.arg < 0
        <5>1. c - Here.arg \in Nat  BY <1>2, <4>2
        <5> QED  BY <1>2, <4>2, <5>1
      <4> QED  BY <1>2, <4>1, <4>2
    <3>4. \A d \in D : -b <= d /\ d <= b
      <4> TAKE d \in D
      <4>1. CASE d = Here.arg  BY <3>3, <4>1
      <4>2. CASE d \in TermOffsets(Here)
        <5>1. d \in Int /\ -c <= d /\ d <= c  BY <3>1, <3>2, <4>2
        <5> QED  BY <3>3, <5>1
      <4> QED  BY <4>1, <4>2
    <3>5. D \subseteq Int  BY <1>2, <3>1
    <3> HIDE DEF D
    <3> QED  BY <3>4, <3>5
  <2>2. \A d \in D : pointer + d \in Index
    <3> HIDE DEF D
    <3>1. RangeError(D, 8, 9) = 0 /\ 8 # 0 /\ 9 # 0
      BY <1>3
    <3> HIDE DEF error
    <3> QED  BY <1>1, <2>1, <3>1, RangeErrorSafe
  <2>3. /\ tape' = [i \in Index |-> IF i \in Targets(Here) THEN 0 ELSE tape[i]]
        /\ pointer' = pointer + Here.arg
        /\ touched' = Targets(Here)
        /\ SetTop(Past(Arrived))
        /\ UNCHANGED <<input, io, result, unrecorded>>
    BY <1>3 DEF MultiZero
  <2>4. tape' \in [Index -> Cell]
    <3>1. 0 \in Cell  BY CellCountAssumption DEF Cell
    <3> QED  BY <1>1, <2>3, <3>1
  <2>5. pointer' \in Index /\ touched' \subseteq Index
    BY <2>2, <2>3 DEF Targets
  <2>6. StackOK(frames')
    BY <1>1, <2>3, PastNodeStack
  <2> QED  BY <2>3, <2>4, <2>5, <2>6, StepKeepsInv DEF Inv, TypeOK
<1>4. CASE error # 0
  <2>1. Fail(error) /\ touched' = {} /\ unrecorded' = unrecorded /\ error \in Int
    BY <1>4 DEF MultiZero, RangeError
  <2> HIDE DEF error
  <2> QED  BY <2>1, FailKeepsInv DEF Inv, TypeOK
<1> QED  BY <1>3, <1>4

\* The closed form of a multiply loop stores bytes.
LEMMA MultipliedIsTape ==
  ASSUME NEW n \in Node, tape \in [Index -> Cell], pointer \in Index
  PROVE  Multiplied(n) \in [Index -> Cell]
<1>1. Cell \subseteq Int /\ 0 \in Cell /\ Index \subseteq Int
  BY CellCountAssumption, TapeAssumption DEF Cell, Index
<1>2. ASSUME NEW i \in Index, i - pointer \in TermOffsets(n)
      PROVE  Byte(tape[i] + tape[pointer] * FactorAt(n, i - pointer)) \in Cell
  <2>1. PICK k \in DOMAIN n.terms : n.terms[k].offset = i - pointer
    BY <1>2 DEF TermOffsets
  <2>2. FactorAt(n, i - pointer) \in Int
    BY <2>1, TermOffsetsBounded DEF FactorAt
  <2>3. tape[i] \in Int /\ tape[pointer] \in Int
    BY <1>1
  <2>4. tape[i] + tape[pointer] * FactorAt(n, i - pointer) \in Int
    BY <2>2, <2>3
  <2> QED  BY <2>4, ByteIsCell
<1> QED  BY <1>1, <1>2 DEF Multiplied

LEMMA MultiplyLoopKeepsInv ==
  ASSUME Inv, MultiplyLoop
  PROVE  Inv'
<1> DEFINE error == IF tape[pointer] = 0 THEN 0 ELSE RangeError(TermOffsets(Here), 4, 5)
<1>1. StackOK(frames) /\ AtNode /\ pointer \in Index /\ tape \in [Index -> Cell]
  BY DEF Inv, CallStackOK, MultiplyLoop, TypeOK
<1>2. Here \in Node
  BY <1>1, HereIsNode
<1>3. CASE error = 0
  <2>1. /\ tape' = IF tape[pointer] = 0 THEN tape ELSE Multiplied(Here)
        /\ touched' = {pointer} \union (IF tape[pointer] = 0 THEN {} ELSE Targets(Here))
        /\ SetTop(Past(Arrived))
        /\ UNCHANGED <<pointer, input, io, result, unrecorded>>
    BY <1>3 DEF MultiplyLoop
  <2>2. tape' \in [Index -> Cell]
    BY <1>1, <1>2, <2>1, MultipliedIsTape
  <2>3. touched' \subseteq Index
    <3>1. CASE tape[pointer] = 0  BY <1>1, <2>1, <3>1
    <3>2. CASE tape[pointer] # 0
      <4>1. RangeError(TermOffsets(Here), 4, 5) = 0
        BY <1>3, <3>2
      <4>2. TermOffsets(Here) \subseteq Int
        BY <1>2, TermOffsetsBounded
      <4>3. PICK b \in Nat : \A d \in TermOffsets(Here) : -b <= d /\ d <= b
        BY <1>2, TermOffsetsBounded
      <4>4. \A d \in TermOffsets(Here) : pointer + d \in Index
        BY <1>1, <4>1, <4>2, <4>3, RangeErrorSafe
      <4> QED  BY <1>1, <2>1, <4>4 DEF Targets
    <3> QED  BY <3>1, <3>2
  <2>4. StackOK(frames')
    BY <1>1, <2>1, PastNodeStack
  <2> QED  BY <1>1, <2>1, <2>2, <2>3, <2>4, StepKeepsInv DEF Inv, TypeOK
<1>4. CASE error # 0
  <2>1. Fail(error) /\ touched' = {pointer} /\ unrecorded' = unrecorded /\ error \in Int
    BY <1>4 DEF MultiplyLoop, RangeError
  <2> HIDE DEF error
  <2> QED  BY <1>1, <2>1, FailKeepsInv DEF Inv, TypeOK
<1> QED  BY <1>3, <1>4

LEMMA BlockEndsKeepsInv ==
  ASSUME Inv, BlockEnds
  PROVE  Inv'
<1> DEFINE below == Len(frames) - 1
           stack == SubSeq(frames, 1, below)
<1>1. StackOK(frames) /\ Len(frames) \in Nat \ {0} /\ pointer \in Index
  BY TopIsFrame DEF Inv, CallStackOK, TypeOK
<1>2. CASE Len(frames) > 1
  <2>0. Len(frames) = 1 => FALSE
    BY <1>1, <1>2 DEF StackOK
  <2>1. /\ StackOK(stack) /\ Len(stack) = below /\ stack[below] = frames[below]
        /\ frames[below] \in Frame /\ FrameOK(frames[below])
        /\ frames[below].index <= Len(frames[below].block)
    BY <1>1, <1>2, PopStack
  <2>2. /\ Past(frames[below]) \in Frame /\ FrameOK(Past(frames[below]))
        /\ Past(frames[below]).block = frames[below].block
    BY <2>1, PastFrame
  <2> HIDE DEF stack
  <2>3. \A f \in {Past(frames[below]), frames[below]} : StackOK([stack EXCEPT ![below] = f])
    BY <2>1, <2>2, SetTopStack
  <2>4. PICK f \in {Past(frames[below]), frames[below]} : frames' = [stack EXCEPT ![below] = f]
    <3> DEFINE node == frames[below].block[frames[below].index]
    <3>1. frames' = CallerResumes
      BY <2>0 DEF BlockEnds
    <3>2. CASE node.kind = "IF"
      <4>1. frames' = [stack EXCEPT ![below] = Past(frames[below])]
        BY <3>1, <3>2 DEF CallerResumes, stack
      <4> QED  BY <4>1
    <3>3. CASE node.kind # "IF"
      <4>1. frames' = [stack EXCEPT ![below] = frames[below]]
        BY <3>1, <3>3 DEF CallerResumes, stack
      <4> QED  BY <4>1
    <3> QED  BY <3>2, <3>3
  <2>5. StackOK(frames')
    BY <2>3, <2>4
  <2>6. UNCHANGED <<tape, pointer, input, io, result, unrecorded>> /\ touched' = {}
    BY <2>0 DEF BlockEnds, NoTape
  <2> QED  BY <2>5, <2>6, StepKeepsInv DEF Inv, TypeOK
<1>3. CASE Len(frames) = 1
  <2>1. /\ result' = [status |-> "done", value |-> pointer]
        /\ UNCHANGED <<frames, tape, pointer, input, io, unrecorded>> /\ touched' = {}
    BY <1>3 DEF BlockEnds, Return, NoTape
  <2>2. pointer \in Int
    BY <1>1, TapeAssumption DEF Index
  <2>3. TypeOK'
    BY <2>1, <2>2 DEF Inv, TypeOK, Index, Event
  <2>4. CallStackOK'
    BY <2>1 DEF Inv, CallStackOK, StackOK, FrameOK, Frame
  <2>5. OnlyTheTapeIsTouched'
    BY <2>1 DEF OnlyTheTapeIsTouched
  <2> QED  BY <2>3, <2>4, <2>5 DEF Inv
<1> QED  BY <1>2, <1>3 DEF BlockEnds
-----------------------------------------------------------------------------
LEMMA InitInv == Init => Inv
<1> SUFFICES ASSUME Init PROVE Inv
  OBVIOUS
<1>1. PICK program \in Programs, stdin \in Inputs : Start(program, stdin)
  BY DEF Init
<1>2. program \in Seq(Node) /\ stdin \in Seq(Cell)
  BY ProgramsAssumption, InputsAssumption
<1>3. TypeOK
  <2>1. 0 \in Cell /\ 0 \in Index
    BY CellCountAssumption, TapeAssumption DEF Cell, Index
  <2> QED  BY <1>1, <1>2, <2>1 DEF TypeOK, Start
<1>4. CallStackOK
  <2>1. Invocation(program) \in Frame /\ FrameOK(Invocation(program))
    BY <1>2 DEF Invocation, Frame, FrameOK
  <2> QED  BY <1>1, <2>1 DEF CallStackOK, StackOK, Start
<1>5. OnlyTheTapeIsTouched
  BY <1>1 DEF OnlyTheTapeIsTouched, Start
<1> QED  BY <1>3, <1>4, <1>5 DEF Inv

LEMMA NextKeepsInv == Inv /\ [Next]_vars => Inv'
<1> SUFFICES ASSUME Inv, [Next]_vars PROVE Inv'
  OBVIOUS
<1>1. CASE BeginSegment  BY <1>1, SegmentKeepsInv
<1>2. CASE SegmentRecordFails
  <2>1. Fail(1) /\ touched' = {} /\ unrecorded' = TRUE
    BY <1>2 DEF SegmentRecordFails
  <2> QED  BY <2>1, FailKeepsInv
<1>3. CASE AddPtr  BY <1>3, AddPtrKeepsInv
<1>4. CASE StoreCell  BY <1>4, StoreCellKeepsInv
<1>5. CASE Input  BY <1>5, InputKeepsInv
<1>6. CASE Output  BY <1>6, OutputKeepsInv
<1>7. CASE ArriveAtLoop  BY <1>7, ArriveAtLoopKeepsInv
<1>8. CASE TestLoop  BY <1>8, TestLoopKeepsInv
<1>9. CASE TestIf  BY <1>9, TestIfKeepsInv
<1>10. CASE Scan  BY <1>10, ScanKeepsInv
<1>11. CASE ScanRecordFails
  <2>1. Fail(1) /\ touched' = {} /\ unrecorded' = TRUE
    BY <1>11 DEF ScanRecordFails
  <2> QED  BY <2>1, FailKeepsInv
<1>12. CASE MultiZero  BY <1>12, MultiZeroKeepsInv
<1>13. CASE MultiplyLoop  BY <1>13, MultiplyLoopKeepsInv
<1>14. CASE BlockEnds  BY <1>14, BlockEndsKeepsInv
<1>15. CASE UNCHANGED vars
  BY <1>15 DEF vars, Inv, TypeOK, CallStackOK, StackOK, FrameOK, Frame,
               OnlyTheTapeIsTouched, Index, Event
<1> QED
  BY <1>1, <1>2, <1>3, <1>4, <1>5, <1>6, <1>7, <1>8, <1>9, <1>10, <1>11, <1>12,
     <1>13, <1>14, <1>15 DEF Next, Step, Returned

\* Every variable keeps its range: cells stay bytes and the pointer stays on
\* the tape, whatever bf_runtime_execute_profiled is given to run.
THEOREM RuntimeTypeOK == Spec => []TypeOK
<1>1. Inv => TypeOK  BY DEF Inv
<1> QED  BY <1>1, InitInv, NextKeepsInv, PTL DEF Spec

\* Memory safety of bf_runtime_execute_profiled: no node of any program reads
\* or writes off the tape.
THEOREM RuntimeMemorySafe == Spec => []OnlyTheTapeIsTouched
<1>1. Inv => OnlyTheTapeIsTouched  BY DEF Inv
<1> QED  BY <1>1, InitInv, NextKeepsInv, PTL DEF Spec

\* The call stack of bf_runtime_execute_block is always one the code can have.
THEOREM RuntimeCallStackOK == Spec => []CallStackOK
<1>1. Inv => CallStackOK  BY DEF Inv
<1> QED  BY <1>1, InitInv, NextKeepsInv, PTL DEF Spec
-----------------------------------------------------------------------------
(***************************************************************************)
(* The execution profile adds up.                                          *)
(***************************************************************************)

\* The profile's fields the sums are over; its tables have finitely many keys.
Profiles(K, L) ==
  [total : Int, counts : [Kinds -> Int], scans : [StepClasses -> Int],
   distance : [StepClasses -> Int], terms : Int,
   segmentRuns : Int, segmentNodes : Int, segmentMax : Int, segments : [K -> Int],
   pendingScans : Int, pendingAbs : Int, pendingMax : Int, contexts : [L -> Int]]

ProfileOK(p) == \E K, L : /\ IsFiniteSet(K) /\ IsFiniteSet(L)
                          /\ p \in Profiles(K, L)

\* What q says of the executions, compared to p.
Counts(p, q, nodes, scans, contexts, runs, length) ==
  /\ q.total = p.total + nodes
  /\ Total(q.counts) = Total(p.counts) + nodes
  /\ Total(q.scans) = Total(p.scans) + scans
  /\ Total(q.contexts) = Total(p.contexts) + contexts
  /\ Total(q.segments) = Total(p.segments) + runs
  /\ q.segmentRuns = p.segmentRuns + runs
  /\ q.segmentNodes = p.segmentNodes + length
-----------------------------------------------------------------------------
(* Tables.                                                                 *)

\* One more execution is counted under a kind or a class.
LEMMA TotalOfBumped ==
  ASSUME NEW S, IsFiniteSet(S), NEW f \in [S -> Int], NEW k \in S
  PROVE  /\ Bumped(f, k) \in [S -> Int]
         /\ Total(Bumped(f, k)) = Total(f) + 1
<1> DEFINE g == Bumped(f, k)
<1>1. /\ g \in [S -> Int] /\ DOMAIN f = S
      /\ DOMAIN g = DOMAIN f \union {k} /\ g[k] = f[k] + 1
      /\ \A x \in DOMAIN f : x # k => g[x] = f[x]
      /\ f[k] \in Int
  BY DEF Bumped
<1>2. Total(g) = Total(f) + g[k] - (IF k \in DOMAIN f THEN f[k] ELSE 0)
  <2> HIDE DEF g
  <2>1. g[k] \in Int  BY <1>1
  <2> QED  BY <1>1, <2>1, TotalChange
<1>3. Total(f) \in Int
  BY <1>1, TotalType
<1> QED  BY <1>1, <1>2, <1>3

\* An entry is found and counted, or appended: the table's total grows by one.
LEMMA TotalOfTable ==
  ASSUME NEW K, IsFiniteSet(K), NEW t \in [K -> Int], NEW k
  PROVE  /\ IsFiniteSet(K \union {k})
         /\ Counted(t, k) \in [K \union {k} -> Int]
         /\ Total(Counted(t, k)) = Total(t) + 1
<1> DEFINE g == Counted(t, k)
<1>1. /\ DOMAIN t = K /\ DOMAIN g = DOMAIN t \union {k}
      /\ \A x \in DOMAIN t : x # k => g[x] = t[x]
      /\ g[k] = (IF k \in DOMAIN t THEN t[k] ELSE 0) + 1
      /\ g \in [K \union {k} -> Int]
  BY DEF Counted
<1>2. (IF k \in DOMAIN t THEN t[k] ELSE 0) \in Int /\ g[k] \in Int
  BY <1>1
<1> HIDE DEF g
<1>3. Total(g) = Total(t) + g[k] - (IF k \in DOMAIN t THEN t[k] ELSE 0)
  BY <1>1, <1>2, TotalChange
<1>4. Total(t) \in Int
  BY <1>1, TotalType
<1>5. Total(g) = Total(t) + 1
  BY <1>1, <1>2, <1>3, <1>4
<1>6. IsFiniteSet(K \union {k})
  BY FS_AddElement
<1> QED  BY <1>1, <1>5, <1>6 DEF g
-----------------------------------------------------------------------------
(* The functions that record.                                              *)

LEMMA KeySetsFinite == IsFiniteSet(Kinds) /\ IsFiniteSet(StepClasses)
<1>1. \A S, x : IsFiniteSet(S) => IsFiniteSet(S \union {x})
  BY FS_AddElement
<1>2. Kinds = {} \union {"ADD_PTR"} \union {"ADD_DATA"} \union {"INPUT"} \union {"OUTPUT"}
              \union {"LOOP"} \union {"IF"} \union {"SET_ZERO"} \union {"SET_CONST"}
              \union {"MULTI_ZERO"} \union {"SCAN"} \union {"MULTIPLY_LOOP"}
              \union {"NONNULL_MULTIPLY_LOOP"}
  BY DEF Kinds
<1>3. StepClasses = {} \union {"step1"} \union {"step4"} \union {"positive"}
                    \union {"negative"} \union {"zero"}
  BY DEF StepClasses
<1>4. IsFiniteSet({})
  BY FS_EmptySet
<1> QED  BY <1>1, <1>2, <1>3, <1>4, Zenon

LEMMA StepClassIsClass ==
  ASSUME NEW stride \in Int
  PROVE  StepClass(stride) \in StepClasses
  BY DEF StepClass, StepClasses

LEMMA RecordNodeCounts ==
  ASSUME NEW p, ProfileOK(p), NEW n \in Node
  PROVE  LET q == RecordNode(p, n)
         IN  /\ ProfileOK(q)
             /\ q.counts = Bumped(p.counts, n.kind)
             /\ Counts(p, q, 1, IF n.kind = "SCAN" THEN 1 ELSE 0, 0, 0, 0)
<1> DEFINE q == RecordNode(p, n)
<1>1. PICK K, L : IsFiniteSet(K) /\ IsFiniteSet(L) /\ p \in Profiles(K, L)
  BY DEF ProfileOK
<1>2. n.kind \in Kinds /\ n.arg \in Int /\ StepClass(n.arg) \in StepClasses /\ Len(n.terms) \in Int
  BY NodeAssumption, StepClassIsClass
<1>3. /\ q.total = p.total + 1
      /\ q.counts = Bumped(p.counts, n.kind)
      /\ q.scans = IF n.kind = "SCAN" THEN Bumped(p.scans, StepClass(n.arg))
                   ELSE p.scans
      /\ q.contexts = p.contexts /\ q.segments = p.segments
      /\ q.segmentRuns = p.segmentRuns /\ q.segmentNodes = p.segmentNodes
  BY <1>1 DEF Profiles, RecordNode
<1>4. /\ p.counts \in [Kinds -> Int] /\ p.scans \in [StepClasses -> Int]
      /\ p.total \in Int /\ p.terms \in Int
      /\ p.contexts \in [L -> Int] /\ p.segments \in [K -> Int]
      /\ p.segmentRuns \in Int /\ p.segmentNodes \in Int
  BY <1>1 DEF Profiles
<1>5. /\ q.counts \in [Kinds -> Int] /\ Total(q.counts) = Total(p.counts) + 1
      /\ q.scans \in [StepClasses -> Int]
      /\ Total(q.scans) = Total(p.scans) + (IF n.kind = "SCAN" THEN 1 ELSE 0)
  <2>1. /\ Bumped(p.counts, n.kind) \in [Kinds -> Int]
        /\ Total(Bumped(p.counts, n.kind)) = Total(p.counts) + 1
        /\ Bumped(p.scans, StepClass(n.arg)) \in [StepClasses -> Int]
        /\ Total(Bumped(p.scans, StepClass(n.arg))) = Total(p.scans) + 1
        /\ Total(p.scans) \in Int
    <3>1. DOMAIN p.scans = StepClasses /\ \A x \in StepClasses : p.scans[x] \in Int
      BY <1>4
    <3> QED  BY <1>2, <1>4, <3>1, KeySetsFinite, TotalOfBumped, TotalType
  <2> HIDE DEF q
  <2> QED  BY <1>3, <1>4, <2>1
<1>6. q \in Profiles(K, L)
  <2> DEFINE terms == IF n.kind \in MultiplyKinds THEN p.terms + Len(n.terms) ELSE p.terms
  <2>1. terms \in Int  BY <1>2, <1>4
  <2>2. q = [p EXCEPT !.total = p.total + 1, !.counts = q.counts, !.scans = q.scans,
                      !.terms = terms]
    BY <1>3 DEF RecordNode
  <2>3. p.total + 1 \in Int  BY <1>4
  <2> HIDE DEF terms, q
  <2> QED  BY <1>1, <1>5, <2>1, <2>2, <2>3 DEF Profiles
<1>7. Counts(p, q, 1, IF n.kind = "SCAN" THEN 1 ELSE 0, 0, 0, 0)
  <2>1. Total(p.contexts) \in Int /\ Total(p.segments) \in Int
    <3>1. /\ DOMAIN p.contexts = L /\ \A x \in L : p.contexts[x] \in Int
          /\ DOMAIN p.segments = K /\ \A x \in K : p.segments[x] \in Int
      BY <1>4
    <3> QED  BY <1>1, <3>1, TotalType
  <2> HIDE DEF q
  <2> QED  BY <1>3, <1>4, <1>5, <2>1 DEF Counts
<1>8. ProfileOK(q)
  <2> HIDE DEF q
  <2> QED  BY <1>1, <1>6 DEF ProfileOK
<1> QED  BY <1>3, <1>7, <1>8

LEMMA RecordSegmentCounts ==
  ASSUME NEW p, ProfileOK(p), NEW nodes \in Seq(Node), NEW context
  PROVE  LET q == RecordSegment(p, nodes, context)
         IN  /\ ProfileOK(q)
             /\ q.counts = p.counts
             /\ Counts(p, q, 0, 0, 0, 1, Len(nodes))
<1> DEFINE q == RecordSegment(p, nodes, context)
           key == SegmentKey(nodes, context)
<1>1. PICK K, L : IsFiniteSet(K) /\ IsFiniteSet(L) /\ p \in Profiles(K, L)
  BY DEF ProfileOK
<1>2. /\ p.segments \in [K -> Int] /\ p.contexts \in [L -> Int]
      /\ p.counts \in [Kinds -> Int] /\ p.scans \in [StepClasses -> Int]
      /\ p.segmentRuns \in Int /\ p.segmentNodes \in Int /\ p.segmentMax \in Int
      /\ p.total \in Int /\ Len(nodes) \in Int
  BY <1>1 DEF Profiles
<1>3. /\ IsFiniteSet(K \union {key})
      /\ Counted(p.segments, key) \in [K \union {key} -> Int]
      /\ Total(Counted(p.segments, key)) = Total(p.segments) + 1
  BY <1>1, <1>2, TotalOfTable
<1> HIDE DEF key
<1>4. q = [p EXCEPT !.segmentRuns = p.segmentRuns + 1,
                    !.segmentNodes = p.segmentNodes + Len(nodes),
                    !.segmentMax = Larger(p.segmentMax, Len(nodes)),
                    !.segments = Counted(p.segments, key)]
  BY <1>1 DEF Profiles, RecordSegment, CountSegment, key
<1>5. /\ Larger(p.segmentMax, Len(nodes)) \in Int
      /\ p.segmentRuns + 1 \in Int /\ p.segmentNodes + Len(nodes) \in Int
  BY <1>2 DEF Larger
<1> HIDE DEF q
<1>6. q \in Profiles(K \union {key}, L)
  BY <1>1, <1>3, <1>4, <1>5 DEF Profiles
<1>7. /\ q.total = p.total /\ q.counts = p.counts /\ q.scans = p.scans
      /\ q.contexts = p.contexts /\ q.segments = Counted(p.segments, key)
      /\ q.segmentRuns = p.segmentRuns + 1
      /\ q.segmentNodes = p.segmentNodes + Len(nodes)
  BY <1>1, <1>4 DEF Profiles
<1>8. Total(p.counts) \in Int /\ Total(p.scans) \in Int /\ Total(p.contexts) \in Int
  <2>1. /\ DOMAIN p.contexts = L /\ \A x \in L : p.contexts[x] \in Int
        /\ DOMAIN p.counts = Kinds /\ \A x \in Kinds : p.counts[x] \in Int
        /\ DOMAIN p.scans = StepClasses /\ \A x \in StepClasses : p.scans[x] \in Int
    BY <1>2
  <2> QED  BY <1>1, <2>1, TotalType, KeySetsFinite
<1>9. Counts(p, q, 0, 0, 0, 1, Len(nodes))
  BY <1>2, <1>3, <1>7, <1>8 DEF Counts
<1>10. ProfileOK(q)
  BY <1>1, <1>3, <1>6 DEF ProfileOK
<1> QED  BY <1>7, <1>9, <1>10 DEF q

LEMMA RecordScanContextCounts ==
  ASSUME NEW p, ProfileOK(p), NEW pending \in Int, NEW stride \in Int
  PROVE  LET q == RecordScanContext(p, pending, stride)
         IN  /\ ProfileOK(q)
             /\ q.counts = p.counts
             /\ Counts(p, q, 0, 0, 1, 0, 0)
<1> DEFINE c == CountScanContext(p, pending)
           q == RecordScanContext(p, pending, stride)
           key == <<pending, stride>>
<1>1. PICK K, L : IsFiniteSet(K) /\ IsFiniteSet(L) /\ p \in Profiles(K, L)
  BY DEF ProfileOK
<1>2. /\ p.segments \in [K -> Int] /\ p.contexts \in [L -> Int]
      /\ p.counts \in [Kinds -> Int] /\ p.scans \in [StepClasses -> Int]
      /\ p.segmentRuns \in Int /\ p.segmentNodes \in Int
      /\ p.pendingScans \in Int /\ p.pendingAbs \in Int /\ p.pendingMax \in Int
      /\ p.total \in Int
  BY <1>1 DEF Profiles
<1>3. /\ IsFiniteSet(L \union {key})
      /\ Counted(p.contexts, key) \in [L \union {key} -> Int]
      /\ Total(Counted(p.contexts, key)) = Total(p.contexts) + 1
  <2> HIDE DEF key
  <2> QED  BY <1>1, <1>2, TotalOfTable
<1>4. /\ c \in Profiles(K, L)
      /\ c.total = p.total /\ c.counts = p.counts /\ c.scans = p.scans
      /\ c.contexts = p.contexts /\ c.segments = p.segments
      /\ c.segmentRuns = p.segmentRuns /\ c.segmentNodes = p.segmentNodes
  <2>1. Abs(pending) \in Int  BY DEF Abs
  <2>2. /\ p.pendingScans + 1 \in Int /\ p.pendingAbs + Abs(pending) \in Int
        /\ Larger(p.pendingMax, Abs(pending)) \in Int
    BY <1>2, <2>1 DEF Larger
  <2> QED  BY <1>1, <2>2 DEF Profiles, CountScanContext
<1> HIDE DEF key, c
<1>5. q = [c EXCEPT !.contexts = Counted(c.contexts, key)]
  BY DEF RecordScanContext, c, key
<1> HIDE DEF q
<1>6. q \in Profiles(K, L \union {key})
  BY <1>3, <1>4, <1>5 DEF Profiles
<1>7. /\ q.total = p.total /\ q.counts = p.counts /\ q.scans = p.scans
      /\ q.contexts = Counted(p.contexts, key) /\ q.segments = p.segments
      /\ q.segmentRuns = p.segmentRuns /\ q.segmentNodes = p.segmentNodes
  BY <1>4, <1>5 DEF Profiles
<1>8. Total(p.counts) \in Int /\ Total(p.scans) \in Int /\ Total(p.segments) \in Int
  <2>1. /\ DOMAIN p.segments = K /\ \A x \in K : p.segments[x] \in Int
        /\ DOMAIN p.counts = Kinds /\ \A x \in Kinds : p.counts[x] \in Int
        /\ DOMAIN p.scans = StepClasses /\ \A x \in StepClasses : p.scans[x] \in Int
    BY <1>2
  <2> QED  BY <1>1, <2>1, TotalType, KeySetsFinite
<1>9. Counts(p, q, 0, 0, 1, 0, 0)
  BY <1>2, <1>3, <1>7, <1>8 DEF Counts
<1>10. ProfileOK(q)
  BY <1>1, <1>3, <1>6 DEF ProfileOK
<1> QED  BY <1>7, <1>9, <1>10 DEF q

\* The distance a scan went is in no sum.
LEMMA RecordDistanceCounts ==
  ASSUME NEW p, ProfileOK(p), NEW stride \in Int, NEW from \in Int, NEW to \in Int
  PROVE  LET q == RecordDistance(p, stride, from, to)
         IN  /\ ProfileOK(q)
             /\ q.total = p.total /\ q.counts = p.counts /\ q.scans = p.scans
             /\ q.contexts = p.contexts /\ q.segments = p.segments
             /\ q.segmentRuns = p.segmentRuns /\ q.segmentNodes = p.segmentNodes
<1> DEFINE q == RecordDistance(p, stride, from, to)
<1>1. PICK K, L : IsFiniteSet(K) /\ IsFiniteSet(L) /\ p \in Profiles(K, L)
  BY DEF ProfileOK
<1>2. StepClass(stride) \in StepClasses
  BY StepClassIsClass
<1>3. Abs(to - from) \in Int
  BY DEF Abs
<1>4. p.distance \in [StepClasses -> Int]
  BY <1>1 DEF Profiles
<1> DEFINE d ==
             [p.distance EXCEPT ![StepClass(stride)] =
                p.distance[StepClass(stride)] + Abs(to - from)]
<1>5. d \in [StepClasses -> Int]
  BY <1>2, <1>3, <1>4
<1>6. q = [p EXCEPT !.distance = d]
  BY <1>1 DEF RecordDistance, Profiles
<1> HIDE DEF q, d
<1>7. q \in Profiles(K, L)
  BY <1>1, <1>5, <1>6 DEF Profiles
<1>8. ProfileOK(q)
  BY <1>1, <1>7 DEF ProfileOK
<1>9. /\ q.total = p.total /\ q.counts = p.counts /\ q.scans = p.scans
      /\ q.contexts = p.contexts /\ q.segments = p.segments
      /\ q.segmentRuns = p.segmentRuns /\ q.segmentNodes = p.segmentNodes
  BY <1>1, <1>6 DEF Profiles
<1> QED  BY <1>8, <1>9 DEF q
-----------------------------------------------------------------------------
(***************************************************************************)
(* What the recorded executions add up to.  The nodes of a segment are     *)
(* counted when it begins and again, one at a time, as they run: those     *)
(* still ahead make the difference.                                        *)
(***************************************************************************)
SegmentNodesRun(counts) ==
  counts["ADD_PTR"] + counts["ADD_DATA"] + counts["SET_ZERO"] + counts["SET_CONST"]

Sums(p, ahead) ==
  /\ p.total = Total(p.counts)
  /\ p.counts["SCAN"] = Total(p.scans)
  /\ p.counts["SCAN"] = Total(p.contexts)
  /\ p.segmentRuns = Total(p.segments)
  /\ p.segmentNodes = SegmentNodesRun(p.counts) + ahead

Ahead(f) == IF f.index <= f.last THEN f.last - f.index + 1 ELSE 0

LEMMA TotalsAreIntegers ==
  ASSUME NEW p, ProfileOK(p)
  PROVE  /\ p.total \in Int /\ p.segmentRuns \in Int /\ p.segmentNodes \in Int
         /\ p.counts \in [Kinds -> Int]
         /\ Total(p.counts) \in Int /\ Total(p.scans) \in Int
         /\ Total(p.contexts) \in Int /\ Total(p.segments) \in Int
<1>1. PICK K, L : IsFiniteSet(K) /\ IsFiniteSet(L) /\ p \in Profiles(K, L)
  BY DEF ProfileOK
<1>2. /\ DOMAIN p.contexts = L /\ \A x \in L : p.contexts[x] \in Int
      /\ DOMAIN p.segments = K /\ \A x \in K : p.segments[x] \in Int
      /\ DOMAIN p.counts = Kinds /\ \A x \in Kinds : p.counts[x] \in Int
      /\ DOMAIN p.scans = StepClasses /\ \A x \in StepClasses : p.scans[x] \in Int
      /\ p.total \in Int /\ p.segmentRuns \in Int /\ p.segmentNodes \in Int
      /\ p.counts \in [Kinds -> Int]
  BY <1>1 DEF Profiles
<1> QED  BY <1>1, <1>2, TotalType, KeySetsFinite

LEMMA BumpedCounts ==
  ASSUME NEW counts \in [Kinds -> Int], NEW n \in Node
  PROVE  LET after == Bumped(counts, n.kind)
         IN  /\ after["SCAN"] = counts["SCAN"] + (IF n.kind = "SCAN" THEN 1 ELSE 0)
             /\ SegmentNodesRun(counts) \in Int
             /\ SegmentNodesRun(after) =
                  SegmentNodesRun(counts) + (IF IsSegmentNode(n) THEN 1 ELSE 0)
<1>1. n.kind \in Kinds
  BY NodeAssumption
<1>2. /\ counts["ADD_PTR"] \in Int /\ counts["ADD_DATA"] \in Int
      /\ counts["SET_ZERO"] \in Int /\ counts["SET_CONST"] \in Int /\ counts["SCAN"] \in Int
  BY DEF Kinds
<1> DEFINE after == Bumped(counts, n.kind)
<1>3. \A k \in {"ADD_PTR", "ADD_DATA", "SET_ZERO", "SET_CONST", "SCAN"} :
        after[k] = IF k = n.kind THEN counts[k] + 1 ELSE counts[k]
  BY <1>1 DEF Bumped, Kinds
<1> HIDE DEF after
<1>4. /\ after["ADD_PTR"] = IF "ADD_PTR" = n.kind THEN counts["ADD_PTR"] + 1 ELSE counts["ADD_PTR"]
      /\ after["ADD_DATA"] =
           IF "ADD_DATA" = n.kind THEN counts["ADD_DATA"] + 1 ELSE counts["ADD_DATA"]
      /\ after["SET_ZERO"] =
           IF "SET_ZERO" = n.kind THEN counts["SET_ZERO"] + 1 ELSE counts["SET_ZERO"]
      /\ after["SET_CONST"] =
           IF "SET_CONST" = n.kind THEN counts["SET_CONST"] + 1 ELSE counts["SET_CONST"]
      /\ after["SCAN"] = IF "SCAN" = n.kind THEN counts["SCAN"] + 1 ELSE counts["SCAN"]
  BY <1>3
<1>5. SegmentNodesRun(after) =
        SegmentNodesRun(counts) + (IF IsSegmentNode(n) THEN 1 ELSE 0)
  BY <1>2, <1>4 DEF SegmentNodesRun, IsSegmentNode
<1> QED  BY <1>2, <1>4, <1>5 DEF SegmentNodesRun, after

\* A node that is no scan is counted; one of a segment is no longer ahead.
LEMMA NodeKeepsSums ==
  ASSUME NEW p, ProfileOK(p), NEW n \in Node, n.kind # "SCAN", NEW a \in Int, Sums(p, a)
  PROVE  /\ ProfileOK(RecordNode(p, n))
         /\ IsSegmentNode(n) => Sums(RecordNode(p, n), a - 1)
         /\ ~ IsSegmentNode(n) => Sums(RecordNode(p, n), a)
<1> DEFINE q == RecordNode(p, n)
<1>1. /\ ProfileOK(q) /\ q.counts = Bumped(p.counts, n.kind)
      /\ Counts(p, q, 1, 0, 0, 0, 0)
  <2>1. /\ ProfileOK(q) /\ q.counts = Bumped(p.counts, n.kind)
        /\ Counts(p, q, 1, IF n.kind = "SCAN" THEN 1 ELSE 0, 0, 0, 0)
    BY RecordNodeCounts
  <2> HIDE DEF q
  <2> QED  BY <2>1 DEF Counts
<1>2. /\ q.counts["SCAN"] = p.counts["SCAN"]
      /\ SegmentNodesRun(p.counts) \in Int
      /\ SegmentNodesRun(q.counts) =
           SegmentNodesRun(p.counts) + (IF IsSegmentNode(n) THEN 1 ELSE 0)
  <2>1. p.counts["SCAN"] \in Int
    BY TotalsAreIntegers DEF Kinds
  <2> QED  BY <1>1, <2>1, TotalsAreIntegers, BumpedCounts
<1> HIDE DEF q
<1> DEFINE b == IF IsSegmentNode(n) THEN a - 1 ELSE a
<1>3. Sums(q, b)
  <2>1. /\ p.total \in Int /\ p.segmentRuns \in Int /\ p.segmentNodes \in Int
        /\ Total(p.counts) \in Int /\ Total(p.scans) \in Int
        /\ Total(p.contexts) \in Int /\ Total(p.segments) \in Int
    BY TotalsAreIntegers
  <2>2. q.segmentNodes = SegmentNodesRun(q.counts) + b
    <3>1. /\ q.segmentNodes = p.segmentNodes
          /\ p.segmentNodes = SegmentNodesRun(p.counts) + a
      BY <1>1, <2>1 DEF Sums, Counts
    <3>2. CASE IsSegmentNode(n)  BY <1>2, <3>1, <3>2
    <3>3. CASE ~ IsSegmentNode(n)  BY <1>2, <3>1, <3>3
    <3> QED  BY <3>2, <3>3
  <2>3. q.total = Total(q.counts)
    BY <1>1, <2>1 DEF Sums, Counts
  <2>4. q.counts["SCAN"] = Total(q.scans) /\ q.counts["SCAN"] = Total(q.contexts)
    <3>1. p.counts["SCAN"] = Total(p.scans) /\ p.counts["SCAN"] = Total(p.contexts)
      BY DEF Sums
    <3>2. Total(q.scans) = Total(p.scans) /\ Total(q.contexts) = Total(p.contexts)
      BY <1>1, <2>1 DEF Counts
    <3>3. q.counts["SCAN"] = p.counts["SCAN"]
      BY <1>2
    <3> QED  BY <3>1, <3>2, <3>3
  <2>5. q.segmentRuns = Total(q.segments)
    BY <1>1, <2>1 DEF Sums, Counts
  <2> HIDE DEF b
  <2> QED  BY <2>2, <2>3, <2>4, <2>5 DEF Sums
<1>4. (IsSegmentNode(n) => b = a - 1) /\ (~ IsSegmentNode(n) => b = a)
  OBVIOUS
<1> HIDE DEF b
<1> QED  BY <1>1, <1>3, <1>4 DEF q

\* A scan is counted under its context, its class and its kind.
LEMMA ScanKeepsSums ==
  ASSUME NEW p, ProfileOK(p), NEW n \in Node, n.kind = "SCAN", NEW pending \in Int,
         NEW a \in Int, Sums(p, a)
  PROVE  LET q == RecordNode(RecordScanContext(p, pending, n.arg), n)
         IN  ProfileOK(q) /\ Sums(q, a)
<1> DEFINE c == RecordScanContext(p, pending, n.arg)
           q == RecordNode(c, n)
<1>1. ProfileOK(c) /\ c.counts = p.counts /\ Counts(p, c, 0, 0, 1, 0, 0)
  <2>1. n.arg \in Int  BY NodeAssumption
  <2> QED  BY <2>1, RecordScanContextCounts
<1> HIDE DEF c
<1>2. /\ ProfileOK(q) /\ q.counts = Bumped(c.counts, n.kind)
      /\ Counts(c, q, 1, 1, 0, 0, 0)
  <2>1. /\ ProfileOK(q) /\ q.counts = Bumped(c.counts, n.kind)
        /\ Counts(c, q, 1, IF n.kind = "SCAN" THEN 1 ELSE 0, 0, 0, 0)
    BY <1>1, RecordNodeCounts
  <2> HIDE DEF q
  <2> QED  BY <2>1 DEF Counts
<1>3. /\ q.counts["SCAN"] = c.counts["SCAN"] + 1
      /\ SegmentNodesRun(c.counts) \in Int
      /\ SegmentNodesRun(q.counts) = SegmentNodesRun(c.counts)
  <2>1. ~ IsSegmentNode(n)  BY DEF IsSegmentNode
  <2> HIDE DEF q
  <2> QED  BY <1>1, <1>2, <2>1, TotalsAreIntegers, BumpedCounts
<1> HIDE DEF q
<1>4. Sums(q, a)
  <2>1. /\ p.total \in Int /\ p.segmentRuns \in Int /\ p.segmentNodes \in Int
        /\ Total(p.counts) \in Int /\ Total(p.scans) \in Int
        /\ Total(p.contexts) \in Int /\ Total(p.segments) \in Int
    BY TotalsAreIntegers
  <2>2. Counts(p, q, 1, 1, 1, 0, 0)
    BY <1>1, <1>2, <2>1 DEF Counts
  <2> QED  BY <1>1, <1>2, <1>3, <2>1, <2>2 DEF Sums, Counts
<1> QED  BY <1>2, <1>4 DEF q, c

\* A segment begins: all of it is ahead.
LEMMA SegmentKeepsSums ==
  ASSUME NEW p, ProfileOK(p), NEW nodes \in Seq(Node), NEW context, Sums(p, 0)
  PROVE  LET q == RecordSegment(p, nodes, context)
         IN  ProfileOK(q) /\ Sums(q, Len(nodes))
<1> DEFINE q == RecordSegment(p, nodes, context)
<1>1. ProfileOK(q) /\ q.counts = p.counts /\ Counts(p, q, 0, 0, 0, 1, Len(nodes))
  BY RecordSegmentCounts
<1>2. SegmentNodesRun(p.counts) \in Int
  <2>1. p.counts \in [Kinds -> Int]  BY TotalsAreIntegers
  <2> QED  BY <2>1 DEF SegmentNodesRun, Kinds
<1> HIDE DEF q
<1>3. Sums(q, Len(nodes))
  <2>1. Len(nodes) \in Int  OBVIOUS
  <2>2. /\ p.total \in Int /\ p.segmentRuns \in Int /\ p.segmentNodes \in Int
        /\ Total(p.counts) \in Int /\ Total(p.scans) \in Int
        /\ Total(p.contexts) \in Int /\ Total(p.segments) \in Int
    BY TotalsAreIntegers
  <2>3. q.segmentNodes = SegmentNodesRun(q.counts) + Len(nodes)
    BY <1>1, <1>2, <2>1, <2>2 DEF Sums, Counts
  <2>4. q.counts["SCAN"] = Total(q.scans) /\ q.counts["SCAN"] = Total(q.contexts)
    <3>1. p.counts["SCAN"] = Total(p.scans) /\ p.counts["SCAN"] = Total(p.contexts)
      BY DEF Sums
    <3>2. Total(q.scans) = Total(p.scans) /\ Total(q.contexts) = Total(p.contexts)
      BY <1>1, <2>2 DEF Counts
    <3> QED  BY <1>1, <3>1, <3>2
  <2>5. q.total = Total(q.counts) /\ q.segmentRuns = Total(q.segments)
    BY <1>1, <2>2 DEF Sums, Counts
  <2> QED  BY <2>3, <2>4, <2>5 DEF Sums
<1> QED  BY <1>1, <1>3 DEF q
-----------------------------------------------------------------------------
(***************************************************************************)
(* The inductive invariant: until a run fails, the profile's tables hold   *)
(* numbers and the numbers add up.  Nothing is ahead at a node that is in  *)
(* no segment, at a block's end and at a LOOP or IF whose body is running, *)
(* which is what the call stack's shape (CallStackOK) says of the ends of  *)
(* the segments.                                                           *)
(***************************************************************************)
ProfileInv ==
  result.status # "failed" => ProfileOK(profile) /\ Sums(profile, Ahead(Top))

LEMMA RunningSums ==
  ASSUME ProfileInv, Running
  PROVE  ProfileOK(profile) /\ Sums(profile, Ahead(Top))
  BY DEF ProfileInv, Running

LEMMA FailedSums ==
  ASSUME NEW code, Fail(code)
  PROVE  ProfileInv'
  BY DEF ProfileInv, Fail, Return

\* The invocation on top after a step.
LEMMA TopOfSet ==
  ASSUME StackOK(frames), NEW f, frames' = [frames EXCEPT ![Len(frames)] = f]
  PROVE  Top' = f
<1>1. Len(frames) \in Nat \ {0} /\ frames \in Seq(Frame)
  BY DEF StackOK
<1>2. Len(frames') = Len(frames) /\ frames'[Len(frames)] = f
  BY <1>1
<1> QED  BY <1>2 DEF Top

LEMMA TopOfAppend ==
  ASSUME NEW stack, NEW S, stack \in Seq(S), NEW f, frames' = Append(stack, f)
  PROVE  Top' = f
<1>1. /\ Len(Append(stack, f)) = Len(stack) + 1
      /\ Append(stack, f)[Len(stack) + 1] = f
  <2>1. stack \in Seq(S \union {f}) /\ f \in S \union {f}
    <3>1. S \subseteq S \union {f}  OBVIOUS
    <3> QED  BY <3>1
  <2> QED  BY <2>1, AppendProperties
<1> QED  BY <1>1 DEF Top

\* Nothing is ahead of an invocation at a node that is in no segment.
LEMMA NothingAhead ==
  ASSUME NEW f \in Frame, FrameOK(f), f.index <= Len(f.block),
         ~ IsSegmentNode(f.block[f.index])
  PROVE  /\ f.last < f.index
         /\ \A g \in Frame : g.index \in {f.index, f.index + 1} /\ g.last = f.last
                               => Ahead(g) = 0
<1>1. f.index \in Nat /\ f.last \in Nat
  BY DEF Frame
<1>2. f.last < f.index
  <2> SUFFICES ASSUME f.index <= f.last PROVE FALSE
    BY <1>1
  <2>1. f.index \in f.index .. f.last  BY <1>1
  <2> QED  BY <2>1 DEF FrameOK
<1> QED  BY <1>1, <1>2 DEF Ahead, Frame

LEMMA ArrivedIsTop ==
  ASSUME StackOK(frames)
  PROVE  \E p \in Int : Arrived = [Top EXCEPT !.pending = p]
<1>1. Top.pending \in Int
  BY TopIsFrame
<1> QED  BY <1>1 DEF Arrived

\* The profile a node outside segments leaves, and the invocations it may
\* leave: nothing is ahead of them.
LEMMA ArrivalKeepsSums ==
  ASSUME Inv, ProfileInv, AtNode, ~ IsSegmentNode(Here)
  PROVE  /\ Ahead(Top) = 0
         /\ ProfileOK(ArrivalProfile) /\ Sums(ArrivalProfile, 0)
         /\ Ahead(Arrived) = 0
         /\ Ahead([Arrived EXCEPT !.testing = TRUE]) = 0
         /\ Ahead(Past(Arrived)) = 0
         /\ Ahead(Past(Top)) = 0
<1>1. StackOK(frames) /\ Running
  BY DEF Inv, CallStackOK, AtNode
<1>2. /\ Top \in Frame /\ FrameOK(Top) /\ Top.index <= Len(Top.block)
      /\ Top.index \in Nat \ {0} /\ Top.last \in Nat /\ Top.pending \in Int
      /\ Here \in Node /\ Here = Top.block[Top.index]
  BY <1>1, TopIsFrame, HereIsNode DEF AtNode
<1>3. Top.last < Top.index
  BY <1>2, NothingAhead
<1>4. Ahead(Top) = 0
  BY <1>2, <1>3 DEF Ahead
<1>5. PICK p \in Int : Arrived = [Top EXCEPT !.pending = p]
  BY <1>1, ArrivedIsTop
<1>6. Arrived.index = Top.index /\ Arrived.last = Top.last
  BY <1>2, <1>5 DEF Frame
<1>7. Ahead(Arrived) = 0
  BY <1>2, <1>3, <1>6 DEF Ahead
<1>8. Ahead([Arrived EXCEPT !.testing = TRUE]) = 0
  <2> DEFINE f == [Arrived EXCEPT !.testing = TRUE]
  <2>1. f.index = Top.index /\ f.last = Top.last
    BY <1>2, <1>5 DEF Frame
  <2> HIDE DEF f
  <2>2. Ahead(f) = 0  BY <1>2, <1>3, <2>1 DEF Ahead
  <2> QED  BY <2>2 DEF f
<1>9. Ahead(Past(Arrived)) = 0
  <2>1. Past(Arrived).index = Top.index + 1 /\ Past(Arrived).last = Top.last
    BY <1>2, <1>5 DEF Past, Frame
  <2> QED  BY <1>2, <1>3, <2>1 DEF Ahead
<1>10. Ahead(Past(Top)) = 0
  <2>1. Past(Top).index = Top.index + 1 /\ Past(Top).last = Top.last
    BY <1>2 DEF Past, Frame
  <2> QED  BY <1>2, <1>3, <2>1 DEF Ahead
<1>11. ProfileOK(profile) /\ Sums(profile, 0)
  BY <1>1, <1>4, RunningSums
<1>12. ProfileOK(ArrivalProfile) /\ Sums(ArrivalProfile, 0)
  <2>1. CASE Here.kind = "SCAN"
    <3>1. ArrivalProfile = RecordNode(RecordScanContext(profile, Top.pending, Here.arg), Here)
      BY <2>1 DEF ArrivalProfile
    <3> QED  BY <1>2, <1>11, <2>1, <3>1, ScanKeepsSums
  <2>2. CASE Here.kind # "SCAN"
    <3>1. ArrivalProfile = RecordNode(profile, Here)
      BY <2>2 DEF ArrivalProfile
    <3> QED  BY <1>2, <1>11, <2>2, <3>1, NodeKeepsSums
  <2> QED  BY <2>1, <2>2
<1> QED  BY <1>4, <1>7, <1>8, <1>9, <1>10, <1>12
-----------------------------------------------------------------------------
(* Each step keeps it.                                                     *)

LEMMA BeginSegmentKeepsSums ==
  ASSUME Inv, ProfileInv, BeginSegment
  PROVE  ProfileInv'
<1> DEFINE last == SegmentLast(Top.block, Top.index)
           f == [Top EXCEPT !.last = last]
<1>1. StackOK(frames) /\ AtNode /\ Running /\ ~ InSegment /\ IsSegmentNode(Here)
  BY DEF Inv, CallStackOK, BeginSegment, AtSegmentStart, AtNode
<1>2. /\ Top \in Frame /\ Top.block \in Seq(Node)
      /\ Top.index \in 1 .. Len(Top.block) /\ IsSegmentNode(Top.block[Top.index])
  BY <1>1, TopIsFrame, HereIsNode
<1>3. last \in Top.index .. Len(Top.block)
  BY <1>2, SegmentLastIsLast
<1>4. Segment \in Seq(Node) /\ Len(Segment) = last - Top.index + 1
  <2>1. /\ Segment = SubSeq(Top.block, Top.index, last)
        /\ Top.index \in Int /\ last \in Int /\ Top.index <= last
        /\ \A i \in Top.index .. last : Top.block[i] \in Node
    BY <1>2, <1>3 DEF Segment
  <2> HIDE DEF last
  <2>2. Segment \in Seq(Node)
    BY <2>1, SubSeqProperties, Zenon
  <2>3. Len(Segment) = IF Top.index <= last THEN last - Top.index + 1 ELSE 0
    BY <1>2, <2>1, SubSeqProperties
  <2> QED  BY <2>1, <2>2, <2>3
<1>5. Ahead(Top) = 0 /\ ProfileOK(profile) /\ Sums(profile, Ahead(Top))
  BY <1>1, RunningSums DEF Ahead, InSegment
<1>6. profile' = RecordSegment(profile, Segment, Context)
  BY DEF BeginSegment
<1>7. ProfileOK(profile') /\ Sums(profile', Len(Segment))
  BY <1>4, <1>5, <1>6, SegmentKeepsSums
<1>8. Top' = f
  BY <1>1, TopOfSet DEF BeginSegment, SetTop
<1>9. f.index = Top.index /\ f.last = last
  BY <1>2 DEF Frame
<1>10. Ahead(f) = Len(Segment)
  <2> HIDE DEF f, last
  <2> QED  BY <1>2, <1>3, <1>4, <1>9 DEF Ahead
<1>11. Ahead(Top') = Len(Segment)
  BY <1>8, <1>10
<1> QED  BY <1>7, <1>11 DEF ProfileInv

\* A node of a segment runs: one node fewer is ahead.
LEMMA SegmentNodeSums ==
  ASSUME Inv, ProfileInv, AtNode, InSegment,
         profile' = RecordNode(profile, Here),
         NEW f \in Frame, f.index = Top.index + 1, f.last = Top.last, SetTop(f)
  PROVE  ProfileInv'
<1>1. StackOK(frames) /\ Running
  BY DEF Inv, CallStackOK, AtNode
<1>2. /\ Top \in Frame /\ FrameOK(Top) /\ Here \in Node /\ Here = Top.block[Top.index]
      /\ Top.index \in Nat \ {0} /\ Top.last \in Nat
  BY <1>1, TopIsFrame, HereIsNode
<1>3. IsSegmentNode(Here)
  <2>1. Top.index \in Top.index .. Top.last  BY <1>2 DEF InSegment
  <2> QED  BY <1>2, <2>1 DEF FrameOK
<1>4. ProfileOK(profile) /\ Sums(profile, Ahead(Top))
  BY <1>1, RunningSums
<1>5. Ahead(Top) \in Int /\ Ahead(f) = Ahead(Top) - 1
  BY <1>2 DEF Ahead, InSegment
<1>6. ProfileOK(profile') /\ Sums(profile', Ahead(Top) - 1)
  <2>1. Here.kind # "SCAN"  BY <1>3 DEF IsSegmentNode
  <2> QED  BY <1>2, <1>3, <1>4, <1>5, <2>1, NodeKeepsSums
<1>7. Top' = f
  BY <1>1, TopOfSet DEF SetTop
<1> QED  BY <1>5, <1>6, <1>7 DEF ProfileInv

LEMMA AddPtrKeepsSums ==
  ASSUME Inv, ProfileInv, AddPtr
  PROVE  ProfileInv'
<1>1. StackOK(frames) /\ AtNode /\ InSegment /\ profile' = RecordNode(profile, Here)
  BY DEF Inv, CallStackOK, AddPtr
<1>2. CASE InTape(pointer + Here.arg)
  <2> DEFINE f == [Past(Top) EXCEPT !.pending = @ + Here.arg]
  <2>1. /\ Top \in Frame /\ FrameOK(Top) /\ Top.index <= Len(Top.block)
        /\ Top.index \in Nat \ {0} /\ Here.arg \in Int
    BY <1>1, TopIsFrame, HereIsNode DEF AtNode
  <2>2. Past(Top) \in Frame /\ Past(Top).index = Top.index + 1 /\ Past(Top).last = Top.last
    BY <2>1, PastFrame DEF Past, Frame
  <2>3. Past(Top).pending + Here.arg \in Int
    BY <2>1, <2>2 DEF Frame
  <2>4. f \in Frame /\ f.index = Top.index + 1 /\ f.last = Top.last
    BY <2>2, <2>3 DEF Frame
  <2>5. SetTop(f)
    BY <1>2 DEF AddPtr, Fail, Return
  <2> HIDE DEF f
  <2> QED  BY <1>1, <2>4, <2>5, SegmentNodeSums
<1>3. CASE ~ InTape(pointer + Here.arg)
  BY <1>3, FailedSums DEF AddPtr
<1> QED  BY <1>2, <1>3

LEMMA StoreCellKeepsSums ==
  ASSUME Inv, ProfileInv, StoreCell
  PROVE  ProfileInv'
<1>1. StackOK(frames) /\ AtNode /\ InSegment /\ profile' = RecordNode(profile, Here)
      /\ SetTop(Past(Top))
  BY DEF Inv, CallStackOK, StoreCell
<1>2. Top \in Frame /\ FrameOK(Top) /\ Top.index <= Len(Top.block) /\ Top.index \in Nat \ {0}
  BY <1>1, TopIsFrame DEF AtNode
<1>3. Past(Top) \in Frame /\ Past(Top).index = Top.index + 1 /\ Past(Top).last = Top.last
  BY <1>2, PastFrame DEF Past, Frame
<1> QED  BY <1>1, <1>3, SegmentNodeSums

\* A node outside segments runs and the invocation moves on.
LEMMA PlainNodeSums ==
  ASSUME Inv, ProfileInv, AtNode, ~ IsSegmentNode(Here),
         profile' = ArrivalProfile, SetTop(Past(Arrived))
  PROVE  ProfileInv'
<1>1. Top' = Past(Arrived)
  BY TopOfSet DEF Inv, CallStackOK, SetTop
<1> QED  BY <1>1, ArrivalKeepsSums DEF ProfileInv

LEMMA ArriveAtLoopKeepsSums ==
  ASSUME Inv, ProfileInv, ArriveAtLoop
  PROVE  ProfileInv'
<1>1. AtNode /\ ~ IsSegmentNode(Here) /\ profile' = ArrivalProfile
  BY DEF ArriveAtLoop, IsSegmentNode
<1>2. Top' = [Arrived EXCEPT !.testing = TRUE]
  BY TopOfSet DEF Inv, CallStackOK, ArriveAtLoop, SetTop
<1> QED  BY <1>1, <1>2, ArrivalKeepsSums DEF ProfileInv

\* Nothing is ahead at the start of a body.
LEMMA InvocationAhead ==
  ASSUME NEW body, NEW stack, NEW S, stack \in Seq(S), frames' = Append(stack, Invocation(body))
  PROVE  Ahead(Top') = 0
<1>1. Top' = Invocation(body)
  BY TopOfAppend
<1>2. Ahead(Invocation(body)) = 0
  BY DEF Ahead, Invocation
<1> QED  BY <1>1, <1>2

LEMMA TestLoopKeepsSums ==
  ASSUME Inv, ProfileInv, TestLoop
  PROVE  ProfileInv'
<1>1. /\ StackOK(frames) /\ AtNode /\ Running /\ ~ IsSegmentNode(Here)
      /\ profile' = profile /\ result' = result
  BY DEF Inv, CallStackOK, TestLoop, IsSegmentNode, KeepGoing, AtNode
<1>2. ProfileOK(profile) /\ Sums(profile, 0) /\ Ahead(Past(Top)) = 0
  BY <1>1, RunningSums, ArrivalKeepsSums
<1>3. Ahead(Top') = 0
  <2>1. CASE frames' = Append(frames, Invocation(Here.body))
    <3>1. frames \in Seq(Frame)  BY <1>1 DEF StackOK
    <3> QED  BY <2>1, <3>1, InvocationAhead
  <2>2. CASE frames' = [frames EXCEPT ![Len(frames)] = Past(Top)]
    BY <1>1, <1>2, <2>2, TopOfSet
  <2> QED  BY <2>1, <2>2 DEF TestLoop
<1> QED  BY <1>1, <1>2, <1>3 DEF ProfileInv

LEMMA TestIfKeepsSums ==
  ASSUME Inv, ProfileInv, TestIf
  PROVE  ProfileInv'
<1>1. /\ StackOK(frames) /\ AtNode /\ ~ IsSegmentNode(Here)
      /\ profile' = ArrivalProfile
  BY DEF Inv, CallStackOK, TestIf, IsSegmentNode
<1>2. Ahead(Top') = 0
  <2> DEFINE stack == [frames EXCEPT ![Len(frames)] = Arrived]
  <2>1. CASE frames' = Append(stack, Invocation(Here.body))
    <3>1. Arrived \in Frame /\ FrameOK(Arrived) /\ Arrived.block = Top.block
      BY <1>1, ArrivedFrame
    <3>2. StackOK(stack)
      BY <1>1, <3>1, SetTopStack DEF Top
    <3>3. stack \in Seq(Frame)
      <4> HIDE DEF stack
      <4> QED  BY <3>2 DEF StackOK
    <3> HIDE DEF stack
    <3> QED  BY <2>1, <3>3, InvocationAhead
  <2>2. CASE frames' = [frames EXCEPT ![Len(frames)] = Past(Arrived)]
    <3>1. Top' = Past(Arrived)  BY <1>1, <2>2, TopOfSet
    <3> QED  BY <1>1, <3>1, ArrivalKeepsSums
  <2> QED  BY <2>1, <2>2 DEF TestIf
<1> QED  BY <1>1, <1>2, ArrivalKeepsSums DEF ProfileInv

\* Where a scan stops, its distance is recorded last.
LEMMA ScanStepKeepsSums ==
  ASSUME Inv, ProfileInv, Scan
  PROVE  ProfileInv'
<1> DEFINE stride == Here.arg
           stops == stride # 0 /\ ZerosOn(stride) # {}
<1>1. StackOK(frames) /\ AtNode /\ ~ IsSegmentNode(Here) /\ pointer \in Index
  BY DEF Inv, CallStackOK, TypeOK, Scan, IsSegmentNode
<1>2. stride \in Int
  BY <1>1, HereIsNode
<1>3. CASE stops
  <2>1. /\ pointer' = FirstZero(stride) /\ SetTop(Past(Arrived))
        /\ profile' = RecordDistance(ArrivalProfile, stride, pointer, pointer')
    BY <1>3 DEF Scan, Fail, Return
  <2>2. pointer' \in Int /\ pointer \in Int
    BY <1>1, <1>2, <1>3, <2>1, FirstZeroIsOnStride, TapeAssumption DEF Index
  <2>3. ProfileOK(ArrivalProfile) /\ Sums(ArrivalProfile, 0) /\ Ahead(Past(Arrived)) = 0
    BY <1>1, ArrivalKeepsSums
  <2>4. ProfileOK(profile') /\ Sums(profile', 0)
    <3> DEFINE p == ArrivalProfile
               q == RecordDistance(p, stride, pointer, pointer')
    <3> HIDE DEF p, stride
    <3>1. ProfileOK(p) /\ Sums(p, 0)
      BY <2>3 DEF p
    <3>2. /\ ProfileOK(q)
          /\ q.total = p.total /\ q.counts = p.counts /\ q.scans = p.scans
          /\ q.contexts = p.contexts /\ q.segments = p.segments
          /\ q.segmentRuns = p.segmentRuns /\ q.segmentNodes = p.segmentNodes
      BY <1>2, <2>2, <3>1, RecordDistanceCounts
    <3>3. profile' = q
      BY <2>1 DEF p
    <3> HIDE DEF q
    <3>4. Sums(q, 0)
      BY <3>1, <3>2 DEF Sums
    <3> QED  BY <3>2, <3>3, <3>4
  <2>5. Top' = Past(Arrived)
    BY <1>1, <2>1, TopOfSet DEF SetTop
  <2> QED  BY <2>3, <2>4, <2>5 DEF ProfileInv
<1>4. CASE ~ stops
  <2>1. PICK code : Fail(code)
    BY <1>4 DEF Scan
  <2> QED  BY <2>1, FailedSums
<1> QED  BY <1>3, <1>4

\* A block ends: nothing is ahead of it, nor of the caller at its LOOP or IF.
LEMMA BlockEndsKeepsSums ==
  ASSUME Inv, ProfileInv, BlockEnds
  PROVE  ProfileInv'
<1> DEFINE below == Len(frames) - 1
           stack == SubSeq(frames, 1, below)
           caller == frames[below]
<1>1. /\ StackOK(frames) /\ Len(frames) \in Nat \ {0} /\ Running
      /\ Top \in Frame /\ FrameOK(Top) /\ Top.index > Len(Top.block)
      /\ Top.index \in Nat /\ Top.last \in Nat /\ Len(Top.block) \in Nat
      /\ profile' = profile
  BY TopIsFrame DEF Inv, CallStackOK, BlockEnds
<1>2. Ahead(Top) = 0
  BY <1>1 DEF Ahead, FrameOK
<1>3. ProfileOK(profile) /\ Sums(profile, 0)
  BY <1>1, <1>2, RunningSums
<1>4. Ahead(Top') = 0
  <2>1. CASE Len(frames) > 1
    <3>0. Len(frames) = 1 => FALSE
      BY <1>1, <2>1
    <3>1. frames' = CallerResumes
      BY <3>0 DEF BlockEnds
    <3>2. /\ StackOK(stack) /\ Len(stack) = below /\ stack[below] = caller
          /\ caller \in Frame /\ FrameOK(caller) /\ WaitsFor(caller, frames[below + 1])
      BY <1>1, <2>1, PopStack
    <3> HIDE DEF stack, caller
    <3>3. ~ IsSegmentNode(caller.block[caller.index]) /\ caller.index <= Len(caller.block)
      BY <3>2 DEF WaitsFor, IsSegmentNode, ControlKinds
    <3>4. Ahead(caller) = 0 /\ Ahead(Past(caller)) = 0
      <4>1. caller.last < caller.index /\ caller.index \in Nat /\ caller.last \in Nat
        BY <3>2, <3>3, NothingAhead DEF Frame
      <4>2. Past(caller).index = caller.index + 1 /\ Past(caller).last = caller.last
        BY <3>2 DEF Past, Frame
      <4> QED  BY <4>1, <4>2 DEF Ahead
    <3>5. PICK f \in {caller, Past(caller)} : frames' = [stack EXCEPT ![below] = f]
      BY <3>1 DEF CallerResumes, stack, caller
    <3>6. Top' = f
      <4>1. stack \in Seq(Frame) /\ below \in Nat \ {0}
        BY <1>1, <2>1, <3>2 DEF StackOK
      <4>2. Len(frames') = below /\ frames'[below] = f
        BY <3>2, <3>5, <4>1
      <4> QED  BY <4>2 DEF Top
    <3> QED  BY <3>4, <3>5, <3>6
  <2>2. CASE Len(frames) = 1
    <3>0. ~ (Len(frames) > 1)
      BY <2>2
    <3>1. frames' = frames
      BY <3>0 DEF BlockEnds
    <3>2. Top' = Top
      BY <3>1 DEF Top
    <3> QED  BY <1>2, <3>2
  <2> QED  BY <2>1, <2>2 DEF BlockEnds
<1> QED  BY <1>1, <1>3, <1>4 DEF ProfileInv
-----------------------------------------------------------------------------
\* No table has an entry and every counter is zero.
LEMMA InitSums == Init => ProfileInv
<1> SUFFICES ASSUME Init PROVE ProfileOK(EmptyProfile) /\ Sums(EmptyProfile, Ahead(Top))
  BY DEF Init, Start, ProfileInv
<1>1. PICK program \in Programs, stdin \in Inputs : Start(program, stdin)
  BY DEF Init
<1>2. Ahead(Top) = 0
  <2>1. Top = Invocation(program)
    BY <1>1 DEF Start, Top
  <2> QED  BY <2>1 DEF Ahead, Invocation
<1>3. /\ DOMAIN NoEntries = {} /\ IsFiniteSet({})
      /\ NoEntries \in [{} -> Int]
  BY FS_EmptySet DEF NoEntries
<1>4. ProfileOK(EmptyProfile)
  <2>1. EmptyProfile \in Profiles({}, {})
    BY <1>3 DEF EmptyProfile, Profiles
  <2> QED  BY <1>3, <2>1 DEF ProfileOK
<1>5. /\ Total(EmptyProfile.counts) = 0 /\ Total(EmptyProfile.scans) = 0
      /\ Total(EmptyProfile.contexts) = 0 /\ Total(EmptyProfile.segments) = 0
  <2>1. /\ DOMAIN EmptyProfile.counts = Kinds
        /\ \A k \in Kinds : EmptyProfile.counts[k] = 0
        /\ DOMAIN EmptyProfile.scans = StepClasses
        /\ \A c \in StepClasses : EmptyProfile.scans[c] = 0
        /\ EmptyProfile.contexts = NoEntries /\ EmptyProfile.segments = NoEntries
    BY DEF EmptyProfile
  <2> QED  BY <1>3, <2>1, KeySetsFinite, TotalOfZeros
<1>6. /\ EmptyProfile.total = 0 /\ EmptyProfile.counts["SCAN"] = 0
      /\ EmptyProfile.segmentRuns = 0 /\ EmptyProfile.segmentNodes = 0
      /\ SegmentNodesRun(EmptyProfile.counts) = 0
  BY DEF EmptyProfile, SegmentNodesRun, Kinds
<1>7. Sums(EmptyProfile, 0)
  BY <1>5, <1>6 DEF Sums
<1> QED  BY <1>2, <1>4, <1>7

LEMMA NextKeepsSums == Inv /\ ProfileInv /\ [Next]_vars => ProfileInv'
<1> SUFFICES ASSUME Inv, ProfileInv, [Next]_vars PROVE ProfileInv'
  OBVIOUS
<1>1. CASE BeginSegment  BY <1>1, BeginSegmentKeepsSums
<1>2. CASE SegmentRecordFails  BY <1>2, FailedSums DEF SegmentRecordFails
<1>3. CASE AddPtr  BY <1>3, AddPtrKeepsSums
<1>4. CASE StoreCell  BY <1>4, StoreCellKeepsSums
<1>5. CASE Input  BY <1>5, PlainNodeSums DEF Input, IsSegmentNode
<1>6. CASE Output  BY <1>6, PlainNodeSums DEF Output, IsSegmentNode
<1>7. CASE ArriveAtLoop  BY <1>7, ArriveAtLoopKeepsSums
<1>8. CASE TestLoop  BY <1>8, TestLoopKeepsSums
<1>9. CASE TestIf  BY <1>9, TestIfKeepsSums
<1>10. CASE Scan  BY <1>10, ScanStepKeepsSums
<1>11. CASE ScanRecordFails  BY <1>11, FailedSums DEF ScanRecordFails
<1>12. CASE MultiZero
  <2>1. AtNode /\ ~ IsSegmentNode(Here) /\ profile' = ArrivalProfile
    BY <1>12 DEF MultiZero, IsSegmentNode
  <2>2. SetTop(Past(Arrived)) \/ \E code : Fail(code)
    BY <1>12 DEF MultiZero
  <2> QED  BY <2>1, <2>2, PlainNodeSums, FailedSums
<1>13. CASE MultiplyLoop
  <2>1. AtNode /\ ~ IsSegmentNode(Here) /\ profile' = ArrivalProfile
    BY <1>13 DEF MultiplyLoop, IsSegmentNode, MultiplyKinds
  <2>2. SetTop(Past(Arrived)) \/ \E code : Fail(code)
    BY <1>13 DEF MultiplyLoop
  <2> QED  BY <2>1, <2>2, PlainNodeSums, FailedSums
<1>14. CASE BlockEnds  BY <1>14, BlockEndsKeepsSums
<1>15. CASE UNCHANGED vars
  <2>1. profile' = profile /\ frames' = frames /\ result' = result
    BY <1>15 DEF vars
  <2>2. Top' = Top
    BY <2>1 DEF Top
  <2> QED  BY <2>1, <2>2 DEF ProfileInv
<1> QED
  BY <1>1, <1>2, <1>3, <1>4, <1>5, <1>6, <1>7, <1>8, <1>9, <1>10, <1>11, <1>12,
     <1>13, <1>14, <1>15 DEF Next, Step, Returned

\* The sums of ProfileAddsUp are those of the invariant.
LEMMA ProfileInvAddsUp == ProfileInv => ProfileAddsUp
<1> SUFFICES ASSUME ProfileInv, result.status # "failed" PROVE ProfileAddsUp
  BY DEF ProfileAddsUp
<1>1. Sums(profile, Ahead(Top))
  BY DEF ProfileInv
<1>2. Ahead(Top) = IF InSegment THEN Top.last - Top.index + 1 ELSE 0
  BY DEF Ahead, InSegment
<1> QED  BY <1>1, <1>2 DEF ProfileAddsUp, Sums, SegmentNodesRun, SumOf, Total

\* The execution profile adds up, whatever program it is of and wherever the
\* run is: bf_runtime_profile's total is the sum of its counters, its scans are
\* those of its classes and contexts, its segments' nodes are the nodes run.
THEOREM RuntimeProfileAddsUp == Spec => []ProfileAddsUp
<1>1. Init => Inv /\ ProfileInv  BY InitInv, InitSums
<1>2. (Inv /\ ProfileInv) /\ [Next]_vars => (Inv /\ ProfileInv)'
  BY NextKeepsInv, NextKeepsSums
<1> QED  BY <1>1, <1>2, ProfileInvAddsUp, PTL DEF Spec
-----------------------------------------------------------------------------
(***************************************************************************)
(* What the optimiser knows of a block is so when the block runs.          *)
(***************************************************************************)
(* Offsets in a block.                                                     *)

LEMMA MoveIsInteger ==
  ASSUME NEW n \in Node
  PROVE  Move(n) \in Int
  BY NodeAssumption DEF Move

\* The offset of a node is the one before plus what that one moves.
LEMMA OffsetsFollow ==
  ASSUME NEW block \in Seq(Node)
  PROVE  /\ OffsetAt(block, 1) = 0
         /\ \A i \in 1 .. Len(block) + 1 : OffsetAt(block, i) \in Int
         /\ \A i \in 1 .. Len(block) :
              OffsetAt(block, i + 1) = OffsetAt(block, i) + Move(block[i])
<1> DEFINE f(i) == [k \in 1 .. i - 1 |-> Move(block[k])]
<1>1. \A i \in 1 .. Len(block) + 1 :
        /\ DOMAIN f(i) = 1 .. i - 1 /\ IsFiniteSet(DOMAIN f(i))
        /\ \A k \in DOMAIN f(i) : f(i)[k] \in Int
        /\ OffsetAt(block, i) = Total(f(i))
  <2> TAKE i \in 1 .. Len(block) + 1
  <2>1. DOMAIN f(i) = 1 .. i - 1 /\ IsFiniteSet(1 .. i - 1)
    BY FS_Interval
  <2>2. ASSUME NEW k \in 1 .. i - 1 PROVE f(i)[k] \in Int
    <3>1. k \in 1 .. Len(block)  OBVIOUS
    <3> QED  BY <3>1, MoveIsInteger
  <2>3. OffsetAt(block, i) = Total(f(i))
    BY DEF OffsetAt, SumFunction, SumFunctionOnSet, Total, FoldFunction
  <2> QED  BY <2>1, <2>2, <2>3
<1>2. OffsetAt(block, 1) = 0
  <2>1. 1 \in 1 .. Len(block) + 1 /\ DOMAIN f(1) = {}  OBVIOUS
  <2> HIDE DEF f
  <2>2. Total(f(1)) = 0  BY <1>1, <2>1, TotalOfZeros
  <2> QED  BY <1>1, <2>1, <2>2
<1>3. \A i \in 1 .. Len(block) + 1 : OffsetAt(block, i) \in Int
  <2> HIDE DEF f
  <2> QED  BY <1>1, TotalType
<1>4. ASSUME NEW i \in 1 .. Len(block)
      PROVE  OffsetAt(block, i + 1) = OffsetAt(block, i) + Move(block[i])
  <2>1. /\ i \in 1 .. Len(block) + 1 /\ i + 1 \in 1 .. Len(block) + 1
        /\ DOMAIN f(i + 1) = DOMAIN f(i) \union {i} /\ i \notin DOMAIN f(i)
        /\ f(i + 1)[i] = Move(block[i])
        /\ \A k \in DOMAIN f(i) : k # i => f(i + 1)[k] = f(i)[k]
    OBVIOUS
  <2>2. f(i + 1)[i] \in Int  BY <2>1, MoveIsInteger
  <2> HIDE DEF f
  <2>3. Total(f(i + 1)) =
          Total(f(i)) + f(i + 1)[i] - (IF i \in DOMAIN f(i) THEN f(i)[i] ELSE 0)
    <3> DEFINE g == f(i)
               h == f(i + 1)
    <3>1. /\ IsFiniteSet(DOMAIN g) /\ \A x \in DOMAIN g : g[x] \in Int
          /\ DOMAIN h = DOMAIN g \union {i} /\ h[i] \in Int
          /\ \A x \in DOMAIN g : x # i => h[x] = g[x]
      BY <1>1, <2>1, <2>2
    <3> HIDE DEF g, h
    <3>2. Total(h) = Total(g) + h[i] - (IF i \in DOMAIN g THEN g[i] ELSE 0)
      BY <3>1, TotalChange
    <3> QED  BY <3>2 DEF g, h
  <2>4. Total(f(i)) \in Int  BY <1>1, <2>1, TotalType
  <2> QED  BY <1>1, <2>1, <2>2, <2>3, <2>4
<1> QED  BY <1>2, <1>3, <1>4
-----------------------------------------------------------------------------
(* What is known of the origin.                                            *)

\* A body that leaves zero in its origin has no node the optimiser gives up at:
\* it is flat.
LEMMA NeverGivenUp ==
  ASSUME NEW body \in Seq(Node), LeavesOriginZero(body)
  PROVE  /\ \A i \in 0 .. Len(body) : OriginKnown(body)[i] \in OriginStates \ {"given_up"}
         /\ \A i \in 1 .. Len(body) : body[i].kind \notin ControlKinds \union {"SCAN"}
<1> DEFINE N == Len(body)
           known == OriginKnown(body)
           G == {m \in 0 .. N : known[N - m] # "given_up"}
<1>1. N \in Nat /\ known[N] = "zero"
  BY DEF LeavesOriginZero
<1>2. /\ \A i \in 0 .. N : known[i] \in OriginStates
      /\ \A i \in 1 .. N : known[i] = KnownAfter(known[i - 1], body[i], OffsetAt(body, i))
  BY OriginKnownSteps
<1> HIDE DEF known
<1>3. \A i \in 1 .. N : known[i] # "given_up" => known[i - 1] # "given_up"
  BY <1>2 DEF KnownAfter
<1>4. 0 \in G /\ \A m \in 0 .. N - 1 : m \in G => m + 1 \in G
  <2> HIDE DEF N
  <2>1. 0 \in G  BY <1>1
  <2>2. ASSUME NEW m \in 0 .. N - 1, m \in G PROVE m + 1 \in G
    <3>1. N - m \in 1 .. N /\ N - m - 1 = N - (m + 1) /\ m + 1 \in 0 .. N
      BY <1>1
    <3>2. known[N - (m + 1)] # "given_up"
      BY <1>3, <2>2, <3>1
    <3> QED  BY <3>1, <3>2
  <2> QED  BY <2>1, <2>2
<1>5. \A i \in 0 .. N : known[i] # "given_up"
  <2> TAKE i \in 0 .. N
  <2>1. N - i \in 0 .. N /\ N - (N - i) = i /\ N - i \in Nat
        /\ \A m \in 0 .. N - i - 1 : m \in G => m + 1 \in G
    BY <1>1, <1>4
  <2>2. N - i \in G
    <3> HIDE DEF G, N
    <3> QED  BY <1>4, <2>1, InductionTo
  <2> QED  BY <2>1, <2>2
<1>6. \A i \in 1 .. N : body[i].kind \notin ControlKinds \union {"SCAN"}
  <2> SUFFICES ASSUME NEW i \in 1 .. N, body[i].kind \in ControlKinds \union {"SCAN"}
               PROVE  FALSE
    OBVIOUS
  <2>1. KnownAfter(known[i - 1], body[i], OffsetAt(body, i)) = "given_up"
    BY DEF KnownAfter, GivesUpAt
  <2>2. i \in 0 .. N  BY <1>1
  <2> QED  BY <1>2, <1>5, <2>1, <2>2
<1> QED  BY <1>2, <1>5, <1>6 DEF known

\* A cell that a flat body's node may change when it is reached with the
\* pointer at p, and a cell it certainly leaves zero in.
MayChange(n, p, cell) ==
  \/ n.kind \notin {"ADD_PTR", "OUTPUT", "MULTI_ZERO"} /\ cell = p
  \/ n.kind \in MultiplyKinds \union {"MULTI_ZERO"} /\ cell - p \in TermOffsets(n)

LeavesZero(n, p, cell) ==
  \/ n.kind \in MultiplyKinds \union {"SET_ZERO"} /\ cell = p
  \/ n.kind = "SET_CONST" /\ n.arg = 0 /\ cell = p
  \/ n.kind = "MULTI_ZERO" /\ cell - p \in TermOffsets(n)

\* When the optimiser takes the origin for zero after a node, that node leaves
\* zero there, or it was zero before and the node does not change it.
LEMMA ZeroForAReason ==
  ASSUME NEW known \in OriginStates, NEW n \in Node, NEW off \in Int, NEW p \in Int,
         known # "given_up", KnownAfter(known, n, off) = "zero"
  PROVE  \/ LeavesZero(n, p, p - off)
         \/ known = "zero" /\ ~MayChange(n, p, p - off)
<1>1. TermOffsets(n) \subseteq Int /\ n.kind \in Kinds
  BY TermOffsetsBounded, NodeAssumption
<1>2. (p - off = p) <=> (off = 0)
  OBVIOUS
<1>3. Touches(n, off) <=> (p - off) - p \in TermOffsets(n)
  BY <1>1 DEF Touches
<1> DEFINE origin == p - off
<1>4. origin = p <=> off = 0
  BY <1>2
<1>5. Touches(n, off) <=> origin - p \in TermOffsets(n)
  BY <1>3
<1> HIDE DEF origin
<1>6. ~GivesUpAt(n, off)
  BY DEF KnownAfter
<1>7. CASE ZeroesOrigin(n, off)
  <2>1. LeavesZero(n, p, origin)
    BY <1>4, <1>5, <1>7 DEF ZeroesOrigin, LeavesZero
  <2> QED  BY <2>1 DEF origin
<1>8. CASE ~ZeroesOrigin(n, off)
  <2>1. known = "zero" /\ ~(n.kind = "SET_CONST" /\ off = 0)
    BY <1>6, <1>8 DEF KnownAfter
  <2>2. ~MayChange(n, p, origin)
    BY <1>1, <1>4, <1>5, <1>6, <1>8, <2>1
       DEF MayChange, GivesUpAt, ZeroesOrigin, Kinds, ControlKinds, MultiplyKinds
  <2> QED  BY <2>1, <2>2 DEF origin
<1> QED  BY <1>7, <1>8
-----------------------------------------------------------------------------
(***************************************************************************)
(* The inductive invariant.  In the body of an if, the pointer is as far   *)
(* from the cell that was tested, the origin, as the optimiser computed;   *)
(* before the first node that cell is not zero, and it is zero where the   *)
(* optimiser took it for zero.                                             *)
(***************************************************************************)
InIf(stack) ==
  /\ Len(stack) > 1
  /\ LET caller == stack[Len(stack) - 1] IN caller.block[caller.index].kind = "IF"

BodyOK(f, p, t) ==
  LET origin == p - OffsetAt(f.block, f.index)
  IN  /\ origin \in Index
      /\ f.index = 1 => t[p] # 0
      /\ OriginKnown(f.block)[f.index - 1] = "zero" => t[origin] = 0

IfsOK(stack, p, t) ==
  /\ stack[1].block \in Programs
  /\ InIf(stack) => BodyOK(stack[Len(stack)], p, t)

IfInv == Running => IfsOK(frames, pointer, tape)

\* The body of an if that is being run is one the optimiser saw to leave zero.
LEMMA IfBody ==
  ASSUME OptimizedPrograms, NEW stack, StackOK(stack), InIf(stack)
  PROVE  /\ stack[Len(stack)].block \in Seq(Node)
         /\ LeavesOriginZero(stack[Len(stack)].block)
<1> DEFINE below == Len(stack) - 1
           node == stack[below].block[stack[below].index]
<1>1. /\ Len(stack) = below + 1 /\ stack[below] \in Frame
      /\ WaitsFor(stack[below], stack[below + 1])
  <2>1. Len(stack) > 1 /\ Len(stack) \in Nat  BY DEF InIf, StackOK
  <2> QED  BY <2>1, PopStack
<1>2. node \in Node /\ stack[below + 1].block = node.body
  BY <1>1 DEF WaitsFor, Frame
<1>3. node.kind = "IF"
  BY DEF InIf
<1> HIDE DEF node, below
<1> QED  BY <1>1, <1>2, <1>3, NodeAssumption DEF OptimizedPrograms, IfIsJustified

\* No node of it is a loop, an if or a scan.
LEMMA BodyIsFlat ==
  ASSUME OptimizedPrograms, StackOK(frames), AtNode, InIf(frames)
  PROVE  /\ Here.kind \notin ControlKinds \union {"SCAN"}
         /\ \A i \in 0 .. Len(Top.block) : OriginKnown(Top.block)[i] \in OriginStates \ {"given_up"}
<1>1. Top.block \in Seq(Node) /\ LeavesOriginZero(Top.block)
  BY IfBody DEF Top
<1>2. Here = Top.block[Top.index] /\ Top.index \in 1 .. Len(Top.block)
  BY HereIsNode
<1> QED  BY <1>1, <1>2, NeverGivenUp

\* Replacing the running invocation by one of the same block leaves the
\* invocations below, and what they run, as they are.
LEMMA TopReplaced ==
  ASSUME NEW stack, StackOK(stack), NEW f, f.block = stack[Len(stack)].block,
         stack[1].block \in Programs
  PROVE  LET next == [stack EXCEPT ![Len(stack)] = f]
         IN  /\ Len(next) = Len(stack)
             /\ next[Len(next)] = f
             /\ next[1].block \in Programs
             /\ InIf(next) <=> InIf(stack)
<1> DEFINE next == [stack EXCEPT ![Len(stack)] = f]
<1>1. Len(stack) \in Nat \ {0} /\ stack \in Seq(Frame)
  BY DEF StackOK
<1>2. /\ Len(next) = Len(stack) /\ next[Len(stack)] = f
      /\ \A i \in 1 .. Len(stack) - 1 : next[i] = stack[i]
  BY <1>1
<1> HIDE DEF next
<1>3. next[1].block \in Programs
  <2>1. CASE Len(stack) = 1  BY <1>2, <2>1
  <2>2. CASE Len(stack) # 1
    <3>1. Len(stack) \in Nat \ {0}  BY <1>1
    <3>2. \A k \in Nat \ {0} : k # 1 => 1 \in 1 .. k - 1  OBVIOUS
    <3>3. 1 \in 1 .. Len(stack) - 1  BY <2>2, <3>1, <3>2
    <3> QED  BY <1>2, <3>3
  <2> QED  BY <2>1, <2>2
<1>4. InIf(next) <=> InIf(stack)
  <2>1. CASE Len(stack) > 1
    <3>1. Len(stack) - 1 \in 1 .. Len(stack) - 1  BY <1>1, <2>1
    <3>2. next[Len(next) - 1] = stack[Len(stack) - 1]  BY <1>2, <3>1
    <3> QED  BY <1>2, <3>2 DEF InIf
  <2>2. CASE ~(Len(stack) > 1)
    BY <1>2, <2>2 DEF InIf
  <2> QED  BY <2>1, <2>2
<1> QED  BY <1>2, <1>3, <1>4 DEF next

LEMMA RunningReplaced ==
  ASSUME StackOK(frames), NEW f, f.block = Top.block, frames[1].block \in Programs,
         frames' = [frames EXCEPT ![Len(frames)] = f]
  PROVE  /\ Len(frames') = Len(frames) /\ frames'[Len(frames')] = f
         /\ frames'[1].block \in Programs /\ (InIf(frames') <=> InIf(frames))
  BY TopReplaced DEF Top

\* The invocation stays at its node and no cell changes.
LEMMA StaysKeepsIfInv ==
  ASSUME Inv, IfInv, Running, NEW f, f.block = Top.block, f.index = Top.index,
         frames' = [frames EXCEPT ![Len(frames)] = f], UNCHANGED <<tape, pointer>>
  PROVE  IfInv'
<1>1. IfsOK(frames, pointer, tape) /\ StackOK(frames)
  BY DEF IfInv, Inv, CallStackOK
<1>2. /\ Len(frames') = Len(frames) /\ frames'[Len(frames')] = f
      /\ frames'[1].block \in Programs /\ (InIf(frames') <=> InIf(frames))
  BY <1>1, RunningReplaced DEF IfsOK
<1>3. IfsOK(frames', pointer', tape')
  BY <1>1, <1>2 DEF IfsOK, BodyOK, Top
<1> QED  BY <1>3 DEF IfInv, IfsOK, BodyOK, InIf, Index

\* A node that moves the pointer as the optimiser reckons and changes no cell
\* but those it may, and it is past.
LEMMA NodeKeepsIfInv ==
  ASSUME OptimizedPrograms, Inv, IfInv, AtNode, NEW f, f.block = Top.block, f.index = Top.index + 1,
         frames' = [frames EXCEPT ![Len(frames)] = f],
         pointer' = pointer + Move(Here),
         \A cell \in Index : ~MayChange(Here, pointer, cell) => tape'[cell] = tape[cell],
         \A cell \in Index : LeavesZero(Here, pointer, cell) => tape'[cell] = 0
  PROVE  IfInv'
<1>1. IfsOK(frames, pointer, tape) /\ StackOK(frames) /\ pointer \in Index
  BY DEF IfInv, Inv, CallStackOK, AtNode, TypeOK
<1>2. /\ Len(frames') = Len(frames) /\ frames'[Len(frames')] = f
      /\ frames'[1].block \in Programs /\ (InIf(frames') <=> InIf(frames))
  <2>1. frames[1].block \in Programs
    BY <1>1 DEF IfsOK
  <2> QED  BY <1>1, <2>1, RunningReplaced
<1>3. ASSUME InIf(frames) PROVE BodyOK(f, pointer', tape')
  <2> DEFINE off == OffsetAt(Top.block, Top.index)
             origin == pointer - off
             known == OriginKnown(Top.block)
  <2>1. /\ Top.block \in Seq(Node) /\ Top.index \in 1 .. Len(Top.block)
        /\ Here \in Node /\ Here = Top.block[Top.index]
    BY <1>1, TopIsFrame, HereIsNode
  <2>2. /\ off \in Int /\ Move(Here) \in Int
        /\ OffsetAt(Top.block, Top.index + 1) = off + Move(Here)
    BY <2>1, OffsetsFollow, MoveIsInteger
  <2>3. origin \in Index /\ (known[Top.index - 1] = "zero" => tape[origin] = 0)
    BY <1>1, <1>3 DEF IfsOK, BodyOK, Top
  <2>4. pointer \in Int  BY <1>1, TapeAssumption DEF Index
  <2>5. pointer' - OffsetAt(Top.block, Top.index + 1) = origin
    BY <2>2, <2>4
  <2>6. Top.index - 1 \in 0 .. Len(Top.block) /\ Top.index + 1 # 1 /\ Top.index + 1 - 1 = Top.index
    BY <2>1
  <2>7. /\ known[Top.index - 1] \in OriginStates \ {"given_up"}
        /\ known[Top.index] = KnownAfter(known[Top.index - 1], Here, off)
    BY <1>1, <1>3, <2>1, <2>6, BodyIsFlat, OriginKnownSteps
  <2>8. ASSUME known[Top.index] = "zero" PROVE tape'[origin] = 0
    <3>1. \/ LeavesZero(Here, pointer, origin)
          \/ known[Top.index - 1] = "zero" /\ ~MayChange(Here, pointer, origin)
      <4> HIDE DEF off, known
      <4> QED  BY <2>1, <2>2, <2>4, <2>7, <2>8, ZeroForAReason
    <3> QED  BY <2>3, <3>1
  <2> HIDE DEF off, origin, known
  <2>9. pointer' - OffsetAt(f.block, f.index) \in Index
    BY <2>3, <2>5
  <2>10. OriginKnown(f.block)[f.index - 1] = "zero" =>
           tape'[pointer' - OffsetAt(f.block, f.index)] = 0
    <3>1. OriginKnown(f.block) = known /\ f.index - 1 = Top.index
      <4>1. OriginKnown(f.block) = known  BY DEF known
      <4>2. Top.index \in Int  BY <2>1
      <4>3. f.index - 1 = Top.index  BY <4>2
      <4> QED  BY <4>1, <4>3
    <3>2. pointer' - OffsetAt(f.block, f.index) = origin
      BY <2>5
    <3> QED  BY <2>8, <3>1, <3>2
  <2> QED  BY <2>6, <2>9, <2>10 DEF BodyOK
<1>4. IfsOK(frames', pointer', tape')
  BY <1>2, <1>3 DEF IfsOK
<1> QED  BY <1>4 DEF IfInv, IfsOK, BodyOK, InIf, Index

\* A body is entered with a nonzero cell under the pointer.
LEMMA EnterKeepsIfInv ==
  ASSUME Inv, IfInv, AtNode, tape[pointer] # 0, NEW g,
         g.block = Top.block, g.index = Top.index,
         frames' = Append([frames EXCEPT ![Len(frames)] = g], Invocation(Here.body)),
         UNCHANGED <<tape, pointer>>
  PROVE  IfInv'
<1> DEFINE stack == [frames EXCEPT ![Len(frames)] = g]
<1>1. /\ IfsOK(frames, pointer, tape) /\ StackOK(frames)
      /\ pointer \in Index /\ pointer \in Int
  BY TapeAssumption DEF IfInv, Inv, CallStackOK, AtNode, TypeOK, Index
<1>2. Here.body \in Seq(Node)
  BY <1>1, HereIsNode
<1>3. Len(frames) \in Nat \ {0} /\ frames \in Seq(Frame)
  BY <1>1 DEF StackOK
<1>4. Len(stack) = Len(frames) /\ stack[1].block \in Programs
  <2>1. frames[1].block \in Programs /\ g.block = frames[Len(frames)].block
    BY <1>1 DEF IfsOK, Top
  <2> QED  BY <1>1, <2>1, TopReplaced
<1>5. /\ Len(frames') = Len(frames) + 1
      /\ frames'[Len(frames) + 1] = Invocation(Here.body)
      /\ frames'[1] = stack[1]
  <2>1. stack \in Seq({frames[i] : i \in 1 .. Len(frames)} \union {g})
    BY <1>3
  <2> HIDE DEF stack
  <2>2. frames' = Append(stack, Invocation(Here.body))
    BY DEF stack
  <2>3. Len(stack) \in Nat \ {0}  BY <1>3, <1>4
  <2> QED  BY <1>4, <2>1, <2>2, <2>3
<1>6. BodyOK(Invocation(Here.body), pointer, tape)
  <2>1. OffsetAt(Here.body, 1) = 0 /\ OriginKnown(Here.body)[0] = "unknown"
    BY <1>2, OffsetsFollow, OriginKnownSteps
  <2>2. Invocation(Here.body).block = Here.body /\ Invocation(Here.body).index = 1
    BY DEF Invocation
  <2>3. pointer - 0 = pointer /\ 1 - 1 = 0  BY <1>1
  <2> QED  BY <1>1, <2>1, <2>2, <2>3 DEF BodyOK
<1> HIDE DEF stack
<1>7. IfsOK(frames', pointer', tape')
  BY <1>4, <1>5, <1>6 DEF IfsOK
<1> QED  BY <1>7 DEF IfInv, IfsOK, BodyOK, InIf, Index

\* A body has run: the block of its caller holds a loop or an if, so it is not
\* the body of an if.
LEMMA BlockEndsKeepsIfInv ==
  ASSUME OptimizedPrograms, Inv, IfInv, BlockEnds
  PROVE  IfInv'
<1> DEFINE below == Len(frames) - 1
           stack == SubSeq(frames, 1, below)
           caller == frames[below]
<1>1. IfsOK(frames, pointer, tape) /\ StackOK(frames) /\ Len(frames) \in Nat \ {0}
  BY DEF IfInv, Inv, CallStackOK, BlockEnds, StackOK
<1>2. CASE Len(frames) = 1
  <2>1. ~Running'
    BY <1>2 DEF BlockEnds, Running, Return
  <2> QED  BY <2>1 DEF IfInv, Running
<1>3. CASE Len(frames) > 1
  <2>1. /\ StackOK(stack) /\ Len(stack) = below /\ stack[below] = caller
        /\ caller \in Frame /\ WaitsFor(caller, frames[below + 1])
        /\ below \in Nat \ {0}
    BY <1>1, <1>3, PopStack
  <2>2. stack[1] = frames[1]
    <3>1. 1 \in 1 .. below /\ frames \in Seq(Frame) /\ below <= Len(frames)
      BY <1>1, <2>1 DEF StackOK
    <3> QED  BY <3>1
  <2>3. caller.block \in Seq(Node) /\ caller.index \in 1 .. Len(caller.block)
    BY <2>1 DEF WaitsFor, Frame
  <2> HIDE DEF stack
  <2>4. ~InIf(stack)
    <3> SUFFICES ASSUME InIf(stack) PROVE FALSE
      OBVIOUS
    <3>1. LeavesOriginZero(caller.block)
      BY <2>1, IfBody
    <3>2. caller.block[caller.index].kind \notin ControlKinds
      BY <2>3, <3>1, NeverGivenUp
    <3> QED  BY <2>1, <3>2 DEF WaitsFor
  <2>5. PICK f : f.block = caller.block /\ frames' = [stack EXCEPT ![below] = f]
    <3>1. frames' = CallerResumes
      <4>1. Len(frames) \in Nat  BY <1>1
      <4>2. \A k \in Nat : k > 1 => k # 1  OBVIOUS
      <4>3. Len(frames) # 1  BY <1>3, <4>1, <4>2
      <4> QED  BY <4>3 DEF BlockEnds
    <3>2. Past(caller).block = caller.block
      <4>1. FrameOK(caller) /\ caller.index <= Len(caller.block)
        BY <1>1, <1>3, PopStack
      <4> HIDE DEF caller
      <4> QED  BY <2>1, <4>1, PastFrame
    <3>3. CASE caller.block[caller.index].kind = "IF"
      <4>1. frames' = [stack EXCEPT ![below] = Past(caller)]
        BY <3>1, <3>3 DEF CallerResumes, stack
      <4> QED  BY <3>2, <4>1
    <3>4. CASE caller.block[caller.index].kind # "IF"
      <4>1. frames' = [stack EXCEPT ![below] = caller]
        BY <3>1, <3>4 DEF CallerResumes, stack
      <4> QED  BY <4>1
    <3> QED  BY <3>3, <3>4
  <2>6. frames'[1].block \in Programs /\ (InIf(frames') <=> InIf(stack))
    <3>1. stack[1].block \in Programs /\ f.block = stack[Len(stack)].block
          /\ frames' = [stack EXCEPT ![Len(stack)] = f]
      BY <1>1, <2>1, <2>2, <2>5 DEF IfsOK
    <3> HIDE DEF caller, below
    <3> QED  BY <2>1, <3>1, TopReplaced
  <2>7. IfsOK(frames', pointer', tape')
    BY <2>4, <2>6 DEF IfsOK
  <2> QED  BY <2>7 DEF IfInv, IfsOK, BodyOK, InIf, Index
<1> QED  BY <1>2, <1>3 DEF BlockEnds
-----------------------------------------------------------------------------
(* Each action keeps it.                                                   *)

LEMMA AddPtrKeepsIfInv ==
  ASSUME OptimizedPrograms, Inv, IfInv, AddPtr
  PROVE  IfInv'
<1>1. StackOK(frames) /\ AtNode /\ Here.kind = "ADD_PTR" /\ Here.arg \in Int
  BY HereIsNode DEF Inv, CallStackOK, AddPtr
<1>2. CASE InTape(pointer + Here.arg)
  <2> DEFINE f == [Past(Top) EXCEPT !.pending = @ + Here.arg]
  <2>1. /\ frames' = [frames EXCEPT ![Len(frames)] = f]
        /\ pointer' = pointer + Here.arg /\ tape' = tape
    BY <1>2 DEF AddPtr, SetTop
  <2>2. f.block = Top.block /\ f.index = Top.index + 1
    <3>1. Top \in Frame  BY <1>1, TopIsFrame
    <3>2. Past(Top).block = Top.block /\ Past(Top).index = Top.index + 1
      BY <3>1 DEF Past, Frame
    <3>3. Past(Top) \in Frame
      BY <1>1, TopIsFrame, PastFrame DEF AtNode
    <3> HIDE DEF Past
    <3> QED  BY <3>2, <3>3 DEF Frame
  <2>3. Move(Here) = Here.arg
    BY <1>1 DEF Move
  <2>4. \A cell \in Index : ~LeavesZero(Here, pointer, cell)
    BY <1>1 DEF LeavesZero, MultiplyKinds
  <2> HIDE DEF f
  <2> QED  BY <1>1, <2>1, <2>2, <2>3, <2>4, NodeKeepsIfInv
<1>3. CASE ~InTape(pointer + Here.arg)
  BY <1>3 DEF AddPtr, Fail, Return, IfInv, Running
<1> QED  BY <1>2, <1>3

\* The invocation past its node, for the nodes outside segments.
LEMMA PastArrived ==
  ASSUME StackOK(frames), AtNode
  PROVE  /\ Past(Arrived).block = Top.block /\ Past(Arrived).index = Top.index + 1
         /\ Past(Top).block = Top.block /\ Past(Top).index = Top.index + 1
<1>1. Arrived \in Frame /\ Arrived.block = Top.block /\ Arrived.index = Top.index
      /\ Top \in Frame
  BY ArrivedFrame, TopIsFrame
<1> QED  BY <1>1 DEF Past, Frame

\* A node that stores into the cell under the pointer alone.
LEMMA OneCellKeepsIfInv ==
  ASSUME OptimizedPrograms, Inv, IfInv, AtNode, NEW v, tape' = [tape EXCEPT ![pointer] = v],
         pointer' = pointer, NEW f, f.block = Top.block, f.index = Top.index + 1,
         frames' = [frames EXCEPT ![Len(frames)] = f],
         Here.kind \in {"ADD_DATA", "SET_ZERO", "SET_CONST", "INPUT"},
         Here.kind = "SET_ZERO" \/ (Here.kind = "SET_CONST" /\ Here.arg = 0) => v = 0
  PROVE  IfInv'
<1>1. tape \in [Index -> Cell] /\ pointer \in Index /\ pointer \in Int
  BY TapeAssumption DEF Inv, TypeOK, Index
<1>2. pointer' = pointer + Move(Here)
  <2>1. Move(Here) = 0  BY DEF Move
  <2> QED  BY <1>1, <2>1
<1>3. ASSUME NEW cell \in Index, ~MayChange(Here, pointer, cell) PROVE tape'[cell] = tape[cell]
  <2>1. cell # pointer  BY <1>3 DEF MayChange
  <2> QED  BY <1>1, <2>1
<1>4. ASSUME NEW cell \in Index, LeavesZero(Here, pointer, cell) PROVE tape'[cell] = 0
  <2>1. cell = pointer /\ v = 0  BY <1>4 DEF LeavesZero, MultiplyKinds
  <2> QED  BY <1>1, <2>1
<1> QED  BY <1>2, <1>3, <1>4, NodeKeepsIfInv

LEMMA StoreCellKeepsIfInv ==
  ASSUME OptimizedPrograms, Inv, IfInv, StoreCell
  PROVE  IfInv'
<1>1. StackOK(frames) /\ AtNode /\ InSegment /\ Here.kind # "ADD_PTR"
  BY DEF Inv, CallStackOK, StoreCell
<1>2. Here.kind \in {"ADD_DATA", "SET_ZERO", "SET_CONST"}
  <2>1. /\ FrameOK(Top) /\ Top.index <= Len(Top.block) /\ Top.index \in Nat
        /\ Top.last \in Nat /\ Here = Top.block[Top.index]
    BY <1>1, TopIsFrame, HereIsNode DEF AtNode
  <2> QED  BY <1>1, <2>1 DEF FrameOK, InSegment, IsSegmentNode
<1>3. Here.kind = "SET_ZERO" \/ (Here.kind = "SET_CONST" /\ Here.arg = 0)
        => StoredByte(Here, tape[pointer]) = 0
  <2>1. Byte(0) = 0  BY CellCountAssumption DEF Byte
  <2>2. CASE Here.kind = "SET_ZERO"
    BY <2>2 DEF StoredByte
  <2>3. CASE Here.kind = "SET_CONST" /\ Here.arg = 0
    <3>1. StoredByte(Here, tape[pointer]) = Byte(Here.arg)  BY <2>3 DEF StoredByte
    <3> QED  BY <2>1, <2>3, <3>1
  <2> QED  BY <2>2, <2>3
<1>4. /\ tape' = [tape EXCEPT ![pointer] = StoredByte(Here, tape[pointer])]
      /\ pointer' = pointer
      /\ frames' = [frames EXCEPT ![Len(frames)] = Past(Top)]
  BY DEF StoreCell, SetTop
<1>5. Past(Top).block = Top.block /\ Past(Top).index = Top.index + 1
  BY <1>1, PastArrived
<1> QED  BY <1>1, <1>2, <1>3, <1>4, <1>5, OneCellKeepsIfInv

LEMMA InputKeepsIfInv ==
  ASSUME OptimizedPrograms, Inv, IfInv, Input
  PROVE  IfInv'
<1>1. StackOK(frames) /\ AtNode /\ Here.kind = "INPUT"
  BY DEF Inv, CallStackOK, Input
<1>2. PICK byte : tape' = [tape EXCEPT ![pointer] = byte]
  BY DEF Input
<1>3. pointer' = pointer /\ frames' = [frames EXCEPT ![Len(frames)] = Past(Arrived)]
  BY DEF Input, SetTop
<1>4. Past(Arrived).block = Top.block /\ Past(Arrived).index = Top.index + 1
  BY <1>1, PastArrived
<1> QED  BY <1>1, <1>2, <1>3, <1>4, OneCellKeepsIfInv

\* A node that has no effect on the memory: an output, a loop or an if that is
\* passed by.
LEMMA NoCellKeepsIfInv ==
  ASSUME OptimizedPrograms, Inv, IfInv, AtNode, UNCHANGED <<tape, pointer>>,
         NEW f, f.block = Top.block, f.index = Top.index + 1,
         frames' = [frames EXCEPT ![Len(frames)] = f],
         Here.kind \in ControlKinds \union {"OUTPUT"}
  PROVE  IfInv'
<1>1. pointer \in Int
  BY TapeAssumption DEF Inv, TypeOK, Index
<1>2. pointer' = pointer + Move(Here)
  <2>1. Move(Here) = 0  BY DEF Move, ControlKinds
  <2> QED  BY <1>1, <2>1
<1>3. \A cell \in Index : ~LeavesZero(Here, pointer, cell)
  BY DEF LeavesZero, ControlKinds, MultiplyKinds
<1> QED  BY <1>2, <1>3, NodeKeepsIfInv

LEMMA OutputKeepsIfInv ==
  ASSUME OptimizedPrograms, Inv, IfInv, Output
  PROVE  IfInv'
<1>1. StackOK(frames) /\ AtNode /\ Here.kind = "OUTPUT"
  BY DEF Inv, CallStackOK, Output
<1>2. UNCHANGED <<tape, pointer>> /\ frames' = [frames EXCEPT ![Len(frames)] = Past(Arrived)]
  BY DEF Output, SetTop
<1>3. Past(Arrived).block = Top.block /\ Past(Arrived).index = Top.index + 1
  BY <1>1, PastArrived
<1> QED  BY <1>1, <1>2, <1>3, NoCellKeepsIfInv

LEMMA ArriveAtLoopKeepsIfInv ==
  ASSUME Inv, IfInv, ArriveAtLoop
  PROVE  IfInv'
<1> DEFINE f == [Arrived EXCEPT !.testing = TRUE]
<1>1. StackOK(frames) /\ AtNode /\ Running
  BY DEF Inv, CallStackOK, ArriveAtLoop, AtNode
<1>2. Arrived \in Frame /\ Arrived.block = Top.block /\ Arrived.index = Top.index
  BY <1>1, ArrivedFrame
<1>3. f.block = Top.block /\ f.index = Top.index
  BY <1>2 DEF Frame
<1>4. UNCHANGED <<tape, pointer>> /\ frames' = [frames EXCEPT ![Len(frames)] = f]
  BY DEF ArriveAtLoop, SetTop, NoTape
<1> HIDE DEF f
<1> QED  BY <1>1, <1>3, <1>4, StaysKeepsIfInv

LEMMA SegmentKeepsIfInv ==
  ASSUME Inv, IfInv, BeginSegment
  PROVE  IfInv'
<1> DEFINE last == SegmentLast(Top.block, Top.index)
           f == [Top EXCEPT !.last = last]
<1>1. StackOK(frames) /\ Running /\ Top \in Frame
  BY TopIsFrame DEF Inv, CallStackOK, BeginSegment, AtSegmentStart, AtNode
<1> HIDE DEF last
<1>2. f.block = Top.block /\ f.index = Top.index
  BY <1>1 DEF Frame
<1>3. UNCHANGED <<tape, pointer>> /\ frames' = [frames EXCEPT ![Len(frames)] = f]
  BY DEF BeginSegment, SetTop, NoTape, last
<1> HIDE DEF f
<1> QED  BY <1>1, <1>2, <1>3, StaysKeepsIfInv

LEMMA TestLoopKeepsIfInv ==
  ASSUME OptimizedPrograms, Inv, IfInv, TestLoop
  PROVE  IfInv'
<1>1. /\ StackOK(frames) /\ AtNode /\ Here.kind \in ControlKinds
      /\ UNCHANGED <<tape, pointer>>
  BY DEF Inv, CallStackOK, TestLoop, NoTape, ControlKinds
<1>2. CASE tape[pointer] # 0
  <2>1. frames' = Append(frames, Invocation(Here.body))
    BY <1>2 DEF TestLoop
  <2>2. frames = [frames EXCEPT ![Len(frames)] = Top]
    BY <1>1 DEF StackOK, Top
  <2> QED  BY <1>1, <1>2, <2>1, <2>2, EnterKeepsIfInv
<1>3. CASE tape[pointer] = 0
  <2>1. frames' = [frames EXCEPT ![Len(frames)] = Past(Top)]
    BY <1>3 DEF TestLoop
  <2>2. Past(Top).block = Top.block /\ Past(Top).index = Top.index + 1
    BY <1>1, PastArrived
  <2> QED  BY <1>1, <2>1, <2>2, NoCellKeepsIfInv
<1> QED  BY <1>2, <1>3

LEMMA TestIfKeepsIfInv ==
  ASSUME OptimizedPrograms, Inv, IfInv, TestIf
  PROVE  IfInv'
<1>1. /\ StackOK(frames) /\ AtNode /\ Here.kind \in ControlKinds
      /\ UNCHANGED <<tape, pointer>>
  BY DEF Inv, CallStackOK, TestIf, NoTape, ControlKinds
<1>2. CASE tape[pointer] # 0
  <2>1. frames' = Append([frames EXCEPT ![Len(frames)] = Arrived], Invocation(Here.body))
    BY <1>2 DEF TestIf
  <2>2. Arrived.block = Top.block /\ Arrived.index = Top.index
    BY <1>1, ArrivedFrame
  <2> QED  BY <1>1, <1>2, <2>1, <2>2, EnterKeepsIfInv
<1>3. CASE tape[pointer] = 0
  <2>1. frames' = [frames EXCEPT ![Len(frames)] = Past(Arrived)]
    BY <1>3 DEF TestIf
  <2>2. Past(Arrived).block = Top.block /\ Past(Arrived).index = Top.index + 1
    BY <1>1, PastArrived
  <2> QED  BY <1>1, <2>1, <2>2, NoCellKeepsIfInv
<1> QED  BY <1>2, <1>3

\* A scan moves the pointer nobody knows how far, but not in the body of an if.
LEMMA ScanKeepsIfInv ==
  ASSUME OptimizedPrograms, Inv, IfInv, Scan
  PROVE  IfInv'
<1> DEFINE stride == Here.arg
           stops == stride # 0 /\ ZerosOn(stride) # {}
<1>1. StackOK(frames) /\ AtNode /\ IfsOK(frames, pointer, tape) /\ Here.kind = "SCAN"
  BY DEF Inv, CallStackOK, Scan, IfInv, AtNode
<1>2. ~InIf(frames)
  BY <1>1, BodyIsFlat
<1>3. CASE stops
  <2>1. frames' = [frames EXCEPT ![Len(frames)] = Past(Arrived)]
    BY <1>3 DEF Scan, SetTop
  <2>2. Past(Arrived).block = Top.block
    BY <1>1, PastArrived
  <2>3. frames'[1].block \in Programs /\ (InIf(frames') <=> InIf(frames))
    BY <1>1, <2>1, <2>2, RunningReplaced DEF IfsOK
  <2>4. IfsOK(frames', pointer', tape')
    BY <1>2, <2>3 DEF IfsOK
  <2> QED  BY <2>4 DEF IfInv, IfsOK, BodyOK, InIf, Index
<1>4. CASE ~stops
  <2>1. ~Running'
    BY <1>4 DEF Scan, Fail, Return, Running
  <2> QED  BY <2>1 DEF IfInv, Running
<1> QED  BY <1>3, <1>4

LEMMA MultiZeroKeepsIfInv ==
  ASSUME OptimizedPrograms, Inv, IfInv, MultiZero
  PROVE  IfInv'
<1> DEFINE error == RangeError(TermOffsets(Here) \union {Here.arg}, 8, 9)
<1>1. /\ StackOK(frames) /\ AtNode /\ Here.kind = "MULTI_ZERO" /\ Here \in Node
      /\ pointer \in Int /\ Index \subseteq Int
  BY HereIsNode, TapeAssumption DEF Inv, CallStackOK, MultiZero, TypeOK, Index
<1>2. CASE error = 0
  <2>1. /\ tape' = [i \in Index |-> IF i \in Targets(Here) THEN 0 ELSE tape[i]]
        /\ pointer' = pointer + Here.arg
        /\ frames' = [frames EXCEPT ![Len(frames)] = Past(Arrived)]
    BY <1>2 DEF MultiZero, SetTop
  <2>2. pointer' = pointer + Move(Here)
    BY <1>1, <2>1 DEF Move
  <2>3. TermOffsets(Here) \subseteq Int
    BY <1>1, TermOffsetsBounded
  <2>4. \A cell \in Index : cell \in Targets(Here) <=> cell - pointer \in TermOffsets(Here)
    BY <1>1, <2>3 DEF Targets
  <2>5. ASSUME NEW cell \in Index, ~MayChange(Here, pointer, cell)
        PROVE  tape'[cell] = tape[cell]
    <3>1. cell - pointer \notin TermOffsets(Here)  BY <1>1, <2>5 DEF MayChange
    <3> QED  BY <2>1, <2>4, <3>1
  <2>6. ASSUME NEW cell \in Index, LeavesZero(Here, pointer, cell) PROVE tape'[cell] = 0
    <3>1. cell - pointer \in TermOffsets(Here)
      BY <1>1, <2>6 DEF LeavesZero, MultiplyKinds
    <3> QED  BY <2>1, <2>4, <3>1
  <2>7. Past(Arrived).block = Top.block /\ Past(Arrived).index = Top.index + 1
    BY <1>1, PastArrived
  <2> QED  BY <1>1, <2>1, <2>2, <2>5, <2>6, <2>7, NodeKeepsIfInv
<1>3. CASE error # 0
  <2>1. ~Running'
    BY <1>3 DEF MultiZero, Fail, Return, Running
  <2> QED  BY <2>1 DEF IfInv, Running
<1> QED  BY <1>2, <1>3

LEMMA MultiplyLoopKeepsIfInv ==
  ASSUME OptimizedPrograms, Inv, IfInv, MultiplyLoop
  PROVE  IfInv'
<1> DEFINE error == IF tape[pointer] = 0 THEN 0 ELSE RangeError(TermOffsets(Here), 4, 5)
<1>1. /\ StackOK(frames) /\ AtNode /\ Here.kind \in MultiplyKinds
      /\ pointer \in Int /\ pointer \in Index
  BY TapeAssumption DEF Inv, CallStackOK, MultiplyLoop, TypeOK, Index
<1>2. CASE error = 0
  <2>1. /\ tape' = IF tape[pointer] = 0 THEN tape ELSE Multiplied(Here)
        /\ pointer' = pointer
        /\ frames' = [frames EXCEPT ![Len(frames)] = Past(Arrived)]
    BY <1>2 DEF MultiplyLoop, SetTop
  <2>2. pointer' = pointer + Move(Here)
    <3>1. Move(Here) = 0  BY <1>1 DEF Move, MultiplyKinds
    <3> QED  BY <1>1, <2>1, <3>1
  <2>3. ASSUME NEW cell \in Index, ~MayChange(Here, pointer, cell)
        PROVE  tape'[cell] = tape[cell]
    <3>1. cell # pointer /\ cell - pointer \notin TermOffsets(Here)
      BY <1>1, <2>3 DEF MayChange, MultiplyKinds
    <3> QED  BY <2>1, <3>1 DEF Multiplied
  <2>4. ASSUME NEW cell \in Index, LeavesZero(Here, pointer, cell) PROVE tape'[cell] = 0
    <3>1. cell = pointer
      BY <1>1, <2>4 DEF LeavesZero, MultiplyKinds
    <3> QED  BY <1>1, <2>1, <3>1 DEF Multiplied
  <2>5. Past(Arrived).block = Top.block /\ Past(Arrived).index = Top.index + 1
    BY <1>1, PastArrived
  <2> QED  BY <1>1, <2>1, <2>2, <2>3, <2>4, <2>5, NodeKeepsIfInv
<1>3. CASE error # 0
  <2>1. ~Running'
    BY <1>3 DEF MultiplyLoop, Fail, Return, Running
  <2> QED  BY <2>1 DEF IfInv, Running
<1> QED  BY <1>2, <1>3
-----------------------------------------------------------------------------
LEMMA InitIfInv == Init => IfInv
<1> SUFFICES ASSUME Init PROVE IfInv
  OBVIOUS
<1>1. PICK program \in Programs : frames = <<Invocation(program)>>
  BY DEF Init, Start
<1>2. frames[1].block \in Programs /\ ~InIf(frames)
  BY <1>1 DEF Invocation, InIf
<1> QED  BY <1>2 DEF IfInv, IfsOK

LEMMA NextKeepsIfInv ==
  ASSUME OptimizedPrograms
  PROVE  Inv /\ IfInv /\ [Next]_vars => IfInv'
<1> SUFFICES ASSUME Inv, IfInv, [Next]_vars PROVE IfInv'
  OBVIOUS
<1>1. CASE BeginSegment  BY <1>1, SegmentKeepsIfInv
<1>2. CASE SegmentRecordFails \/ ScanRecordFails
  BY <1>2 DEF SegmentRecordFails, ScanRecordFails, Fail, Return, IfInv, Running
<1>3. CASE AddPtr  BY <1>3, AddPtrKeepsIfInv
<1>4. CASE StoreCell  BY <1>4, StoreCellKeepsIfInv
<1>5. CASE Input  BY <1>5, InputKeepsIfInv
<1>6. CASE Output  BY <1>6, OutputKeepsIfInv
<1>7. CASE ArriveAtLoop  BY <1>7, ArriveAtLoopKeepsIfInv
<1>8. CASE TestLoop  BY <1>8, TestLoopKeepsIfInv
<1>9. CASE TestIf  BY <1>9, TestIfKeepsIfInv
<1>10. CASE Scan  BY <1>10, ScanKeepsIfInv
<1>11. CASE MultiZero  BY <1>11, MultiZeroKeepsIfInv
<1>12. CASE MultiplyLoop  BY <1>12, MultiplyLoopKeepsIfInv
<1>13. CASE BlockEnds  BY <1>13, BlockEndsKeepsIfInv
<1>14. CASE UNCHANGED vars
  BY <1>14 DEF vars, IfInv, Running, IfsOK, BodyOK, InIf, Index
<1> QED
  BY <1>1, <1>2, <1>3, <1>4, <1>5, <1>6, <1>7, <1>8, <1>9, <1>10, <1>11, <1>12,
     <1>13, <1>14 DEF Next, Step, Returned

LEMMA RunOnceFromInv ==
  ASSUME OptimizedPrograms
  PROVE  Inv /\ IfInv => IfBodiesRunOnce
<1> SUFFICES ASSUME Inv, IfInv, Running, Top.index > Len(Top.block), InIf(frames)
             PROVE  tape[pointer] = 0
  BY DEF IfBodiesRunOnce, InIf
<1>1. StackOK(frames) /\ IfsOK(frames, pointer, tape) /\ pointer \in Int
  BY TapeAssumption DEF Inv, CallStackOK, IfInv, TypeOK, Index
<1>2. Top.block \in Seq(Node) /\ LeavesOriginZero(Top.block)
  BY <1>1, IfBody DEF Top
<1>3. Top.index = Len(Top.block) + 1 /\ Top.index - 1 = Len(Top.block)
  BY <1>1, TopIsFrame DEF FrameOK
<1>4. OriginKnown(Top.block)[Top.index - 1] = "zero" /\ OffsetAt(Top.block, Top.index) = 0
  BY <1>2, <1>3 DEF LeavesOriginZero, BlockDelta
<1>5. BodyOK(Top, pointer, tape)
  BY <1>1 DEF IfsOK, Top
<1>6. tape[pointer - 0] = 0
  BY <1>4, <1>5 DEF BodyOK
<1> QED  BY <1>1, <1>6

LEMMA NonnullFromInv ==
  ASSUME OptimizedPrograms
  PROVE  Inv /\ IfInv => NonnullCounterIsNonzero
<1> SUFFICES ASSUME Inv, IfInv, AtNode, Here.kind = "NONNULL_MULTIPLY_LOOP"
             PROVE  tape[pointer] # 0
  BY DEF NonnullCounterIsNonzero
<1>1. StackOK(frames) /\ IfsOK(frames, pointer, tape)
  BY DEF Inv, CallStackOK, IfInv, AtNode
<1>2. Here = Top.block[Top.index] /\ Top.index \in 1 .. Len(Top.block) /\ Len(frames) \in Nat \ {0}
      /\ Top.block \in Seq(Node)
  BY <1>1, HereIsNode, TopIsFrame
<1>3. CASE Len(frames) = 1
  <2>1. Top.block \in Programs  BY <1>1, <1>3 DEF IfsOK, Top
  <2>2. NoNonnull(Top.block)  BY <2>1 DEF OptimizedPrograms
  <2> QED  BY <1>2, <2>2 DEF NoNonnull
<1>4. CASE Len(frames) > 1
  <2> DEFINE below == Len(frames) - 1
             node == frames[below].block[frames[below].index]
  <2>1. /\ Len(frames) = below + 1 /\ frames[below] \in Frame
        /\ WaitsFor(frames[below], frames[below + 1])
    BY <1>1, <1>2, <1>4, PopStack
  <2>2. node \in Node /\ Top.block = node.body
    BY <2>1 DEF WaitsFor, Frame, Top
  <2>3. node.kind = "IF" /\ Top.index = 1
    <3> HIDE DEF node
    <3>1. NonnullIsFirst(node)  BY <2>2 DEF OptimizedPrograms
    <3> QED  BY <1>2, <2>2, <3>1 DEF NonnullIsFirst
  <2>4. InIf(frames)
    BY <1>4, <2>3 DEF InIf
  <2>5. BodyOK(Top, pointer, tape)
    BY <1>1, <2>4 DEF IfsOK, Top
  <2> QED  BY <2>3, <2>5 DEF BodyOK
<1>5. Len(frames) \in Nat \ {0}
  BY <1>1, TopIsFrame
<1>6. \A k \in Nat \ {0} : k = 1 \/ k > 1
  OBVIOUS
<1> QED  BY <1>3, <1>4, <1>5, <1>6

\* The body of an if leaves zero under the pointer whenever it ends, so the
\* loop bf_try_convert_loop_to_if replaced would not have run it again: in
\* bf_runtime_execute_block, for every tape, input and optimised program.
THEOREM RuntimeIfBodiesRunOnce ==
  ASSUME OptimizedPrograms
  PROVE  Spec => []IfBodiesRunOnce
<1>1. Inv /\ IfInv => IfBodiesRunOnce  BY RunOnceFromInv
<1> QED
  BY <1>1, InitInv, NextKeepsInv, InitIfInv, NextKeepsIfInv, PTL DEF Spec

\* A NONNULL_MULTIPLY_LOOP is only ever reached with a nonzero counter, so the
\* backends need not test it: bf_mark_known_nonnull_multiply_in_ifs is right.
THEOREM RuntimeNonnullCounter ==
  ASSUME OptimizedPrograms
  PROVE  Spec => []NonnullCounterIsNonzero
<1>1. Inv /\ IfInv => NonnullCounterIsNonzero  BY NonnullFromInv
<1> QED
  BY <1>1, InitInv, NextKeepsInv, InitIfInv, NextKeepsIfInv, PTL DEF Spec
-----------------------------------------------------------------------------
(***************************************************************************)
(* How Scan finds its cell: the loops of BFScan, on whatever tape, from    *)
(* any cell and with any step.  They read no cell off the tape, and when   *)
(* they return they have done what Scan does at once.                      *)
(***************************************************************************)
ScanInv == ScanTypeOK /\ PathSoFar /\ ActsAsOneStep
-----------------------------------------------------------------------------
(* The stride as a set of positions.                                       *)

\* The arguments are integers, and the start is on the tape.
LEMMA ArgumentsAreInts ==
  ASSUME ScanTypeOK
  PROVE  /\ step \in Int
         /\ start \in Int /\ 0 <= start /\ start <= TapeSize - 1
         /\ TapeSize \in Int /\ TapeSize >= 1
<1>1. step \in Int
  BY StepsAssumption DEF ScanTypeOK
<1>2. TapeSize \in Int /\ TapeSize >= 1
  BY TapeAssumption
<1>3. start \in Index
  BY DEF ScanTypeOK
<1> QED  BY <1>1, <1>2, <1>3 DEF Index

\* The scan starts on its stride.
LEMMA StartOnStride ==
  ASSUME ScanTypeOK
  PROVE  start \in Path
<1>1. start = start + 0 * step /\ 0 \in 0 .. TapeSize - 1
  BY ArgumentsAreInts
<1> QED  BY <1>1 DEF Path, StrideOn, ScanTypeOK, Index

\* The cells of the stride lie ahead of the start.
LEMMA StrideAhead ==
  ASSUME ScanTypeOK, NEW i \in Path
  PROVE  /\ i \in Index
         /\ IF step > 0 THEN i >= start ELSE i <= start
<1>1. PICK k \in 0 .. TapeSize - 1 : i = start + k * step
  BY DEF Path, StrideOn
<1>2. k \in Nat /\ step \in Int /\ start \in Int
  BY ArgumentsAreInts
<1>3. step > 0 => k * step >= 0
  BY <1>2
<1>4. ~(step > 0) => k * step <= 0
  BY <1>2
<1> QED  BY <1>1, <1>2, <1>3, <1>4 DEF Path, StrideOn, Index

\* Two cells of the stride are at least a step apart.
LEMMA StrideApart ==
  ASSUME ScanTypeOK, step # 0, NEW i \in Path, NEW j \in Path, i # j
  PROVE  IF step > 0 THEN i < j => i + step <= j
         ELSE j < i => j <= i + step
<1>1. PICK a \in 0 .. TapeSize - 1 : i = start + a * step
  BY DEF Path, StrideOn
<1>2. PICK b \in 0 .. TapeSize - 1 : j = start + b * step
  BY DEF Path, StrideOn
<1>3. a \in Int /\ b \in Int /\ step \in Int /\ start \in Int
  BY ArgumentsAreInts
<1>4. i + step = start + (a + 1) * step
  BY <1>1, <1>3
<1>5. CASE step > 0
  <2>1. b >= a + 1 => b * step >= (a + 1) * step
    BY <1>3, <1>5
  <2>2. b <= a => b * step <= a * step
    BY <1>3, <1>5
  <2> QED  BY <1>1, <1>2, <1>3, <1>4, <1>5, <2>1, <2>2
<1>6. CASE step < 0
  <2>1. b >= a + 1 => b * step <= (a + 1) * step
    BY <1>3, <1>6
  <2>2. b <= a => b * step >= a * step
    BY <1>3, <1>6
  <2> QED  BY <1>1, <1>2, <1>3, <1>4, <1>6, <2>1, <2>2
<1> QED  BY <1>3, <1>5, <1>6

\* A step from a cell of the stride that stays on the tape stays on the stride.
LEMMA StrideGoesOn ==
  ASSUME ScanTypeOK, step # 0, NEW i \in Path, i + step \in Index
  PROVE  i + step \in Path
<1>1. PICK k \in 0 .. TapeSize - 1 : i = start + k * step
  BY DEF Path, StrideOn
<1>2. k \in Int /\ step \in Int /\ start \in Index /\ k >= 0
  BY ArgumentsAreInts DEF Index
<1>3. i + step = start + (k + 1) * step
  BY <1>1, <1>2 DEF Index
<1>4. k + 1 <= TapeSize - 1
  <2>1. step > 0 => (k + 1) * step >= k + 1
    BY <1>2
  <2>2. step < 0 => (k + 1) * step <= -(k + 1)
    BY <1>2
  <2>3. i + step \in Index /\ TapeSize \in Int
    BY TapeAssumption
  <2>4. (k + 1) * step \in Int
    BY <1>2
  <2> QED  BY <1>2, <1>3, <2>1, <2>2, <2>3, <2>4 DEF Index
<1> QED  BY <1>2, <1>3, <1>4 DEF Path, StrideOn, Index
-----------------------------------------------------------------------------
(* What a turn leaves behind.                                              *)

\* Moving on by one step leaves exactly the index behind.
LEMMA BehindAfterStep ==
  ASSUME ScanTypeOK, step # 0, index \in Path,
         index' = index + step, UNCHANGED args
  PROVE  Behind' = Behind \union {index}
<1>1. Path' = Path
  BY DEF args, Path
<1>2. ASSUME NEW i \in Path
      PROVE  IF step > 0 THEN i < index + step <=> i < index \/ i = index
             ELSE i > index + step <=> i > index \/ i = index
  <2>1. i \in Int /\ index \in Int /\ step \in Int
    <3>1. i \in Index /\ index \in Index
      BY <1>2, StrideAhead
    <3> QED  BY <3>1, ArgumentsAreInts DEF Index
  <2>2. CASE i = index
    BY <2>1, <2>2
  <2>3. CASE i # index
    BY <2>1, <2>3, StrideApart, <1>2
  <2> QED  BY <2>2, <2>3
<1> QED  BY <1>1, <1>2 DEF Behind, args

\* A scan that stands on a zero cell, all behind it being nonzero, has found
\* the first one.
LEMMA FirstIsHere ==
  ASSUME ScanTypeOK, step # 0, NEW i \in Zeros,
         \A j \in Zeros : IF step > 0 THEN i <= j ELSE j <= i
  PROVE  /\ FirstOf(Zeros, step) = i
         /\ {j \in Path : Between(j, start, i)}
              = {j \in Path : IF step > 0 THEN j <= i ELSE i <= j}
<1>1. \A j \in Path : /\ j \in Int
                        /\ IF step > 0 THEN j >= start ELSE j <= start
  BY StrideAhead DEF Index
<1>2. step \in Int /\ start \in Int /\ i \in Path
  BY ArgumentsAreInts DEF Zeros
<1>3. FirstOf(Zeros, step) = i
  <2>1. \A j \in Zeros : j \in Int
    BY <1>1 DEF Zeros
  <2>2. CASE step > 0
    BY <2>1, <2>2 DEF FirstOf, Least
  <2>3. CASE ~(step > 0)
    BY <2>1, <2>3 DEF FirstOf, Greatest
  <2> QED  BY <2>2, <2>3
<1>4. ASSUME NEW j \in Path
      PROVE  Between(j, start, i) <=> IF step > 0 THEN j <= i ELSE i <= j
  BY <1>1, <1>2 DEF Between
<1> QED  BY <1>3, <1>4

\* A turn of four covers the stride up to its last cell.
LEMMA TurnCovers ==
  ASSUME ScanTypeOK, step = 4, index \in Path, index + 12 \in Index
  PROVE  /\ \A d \in TurnOffsets : index + d \in Path
         /\ \A i \in Path : i < index + 16 => i < index \/ i - index \in TurnOffsets
         /\ index + 16 \in Index => index + 16 \in Path
<1>1. PICK a \in 0 .. TapeSize - 1 : index = start + a * 4
  BY DEF Path, StrideOn
<1>2. /\ a \in Int /\ a >= 0
      /\ start \in Int /\ 0 <= start
      /\ TapeSize \in Int
      /\ index \in Int /\ index + 12 <= TapeSize - 1
  <2>1. index \in Int
    BY DEF ScanTypeOK
  <2> QED  BY <2>1, ArgumentsAreInts DEF Index
<1>3. ASSUME NEW m \in 0 .. 4, index + 4 * m \in Index
      PROVE  index + 4 * m \in Path
  <2>1. /\ index + 4 * m = start + (a + m) * 4
        /\ a + m \in 0 .. TapeSize - 1
    BY <1>1, <1>2, <1>3 DEF Index
  <2> QED  BY <1>3, <2>1 DEF Path, StrideOn, Index
<1>4. /\ index + 4 * 0 \in Path /\ index + 4 * 1 \in Path
      /\ index + 4 * 2 \in Path /\ index + 4 * 3 \in Path
      /\ index + 4 * 4 \in Index => index + 4 * 4 \in Path
  <2>1. /\ index + 4 * 0 \in Index /\ index + 4 * 1 \in Index
        /\ index + 4 * 2 \in Index /\ index + 4 * 3 \in Index
    BY <1>1, <1>2 DEF Index
  <2> QED  BY <1>3, <2>1
<1>5. ASSUME NEW i \in Path, i < index + 16, ~(i < index)
      PROVE  i - index \in TurnOffsets
  <2>1. PICK b \in 0 .. TapeSize - 1 : i = start + b * 4
    BY <1>5 DEF Path, StrideOn
  <2>2. i - index = (b - a) * 4 /\ b - a \in 0 .. 3
    BY <1>1, <1>2, <1>5, <2>1
  <2> QED  BY <2>2 DEF TurnOffsets
<1>6. index + 4 * 0 = index + 0 /\ index + 4 * 1 = index + 4
      /\ index + 4 * 2 = index + 8 /\ index + 4 * 3 = index + 12
      /\ index + 4 * 4 = index + 16
  BY <1>2
<1> QED  BY <1>4, <1>5, <1>6 DEF TurnOffsets
-----------------------------------------------------------------------------
(* The three ways a scan goes on or ends keep the invariant.               *)

\* It ends at a zero cell, having read what lies before it and that cell.
LEMMA HitKeepsInv ==
  ASSUME ScanTypeOK, PathSoFar, at # "returned", step # 0,
         NEW i \in Zeros,
         \A j \in Zeros : IF step > 0 THEN i <= j ELSE j <= i,
         Answer(i),
         reads' = {j \in Path : IF step > 0 THEN j <= i ELSE i <= j}
  PROVE  ScanInv'
<1>1. /\ tape' = tape /\ start' = start /\ step' = step /\ index' = index
      /\ at' = "returned" /\ answer' = i
  BY DEF Answer, args
<1>2. Path' = Path /\ Zeros' = Zeros
  BY <1>1 DEF Path, Zeros
<1>3. Path \subseteq Index /\ i \in Index
  BY StrideAhead DEF Zeros
<1>4. ScanTypeOK'
  <2>1. i \in 0 .. TapeSize
    BY <1>3, ArgumentsAreInts DEF Index
  <2>2. reads' \subseteq Index
    BY <1>3
  <2> QED  BY <1>1, <2>1, <2>2 DEF ScanTypeOK
<1>5. PathSoFar'
  BY <1>1, <1>2 DEF PathSoFar
<1>6. ActsAsOneStep'
  BY <1>1, <1>2, FirstIsHere DEF ActsAsOneStep
<1> QED  BY <1>4, <1>5, <1>6 DEF ScanInv

\* It ends without one, having read the whole stride.
LEMMA MissKeepsInv ==
  ASSUME ScanTypeOK, PathSoFar, step # 0, Answer(TapeSize),
         reads' = Path, Zeros = {}
  PROVE  ScanInv'
<1>1. /\ tape' = tape /\ start' = start /\ step' = step /\ index' = index
      /\ at' = "returned" /\ answer' = TapeSize
  BY DEF Answer, args
<1>2. Path' = Path /\ Zeros' = Zeros
  BY <1>1 DEF Path, Zeros
<1>3. ScanTypeOK'
  <2>1. Path \subseteq Index
    BY StrideAhead
  <2>2. TapeSize \in 0 .. TapeSize
    BY ArgumentsAreInts
  <2> QED  BY <1>1, <2>1, <2>2 DEF ScanTypeOK
<1>4. PathSoFar'
  BY <1>1, <1>2 DEF PathSoFar
<1>5. ActsAsOneStep'
  BY <1>1, <1>2 DEF ActsAsOneStep
<1> QED  BY <1>3, <1>4, <1>5 DEF ScanInv

\* It goes on, with all that is behind the new index read and nonzero.
LEMMA AdvanceKeepsInv ==
  ASSUME ScanTypeOK, PathSoFar, at \in {"turns of four", "cells"}, NEW i \in Int,
         Advance(i),
         i \in Index => i \in Path,
         IF step > 0 THEN i >= start ELSE i <= start,
         reads' = Behind', Behind' \intersect Zeros = {}
  PROVE  ScanInv'
<1>1. /\ tape' = tape /\ start' = start /\ step' = step /\ index' = i
      /\ at' = at /\ answer' = answer
  BY DEF Advance, args
<1>2. Path' = Path /\ Zeros' = Zeros
  BY <1>1 DEF Path, Zeros
<1>3. ScanTypeOK'
  <2>1. Behind' \subseteq Index
    BY <1>2, StrideAhead DEF Behind
  <2> QED  BY <1>1, <2>1 DEF ScanTypeOK, Index
<1>4. PathSoFar'
  BY <1>1, <1>2 DEF PathSoFar
<1>5. ActsAsOneStep'
  BY <1>1 DEF ActsAsOneStep
<1> QED  BY <1>3, <1>4, <1>5 DEF ScanInv
-----------------------------------------------------------------------------
(* One lemma per action.                                                   *)

LEMMA InitHasScanInv ==
  ASSUME ScanInit
  PROVE  ScanInv
<1>1. ScanTypeOK
  <2>1. start \in Int /\ TapeSize \in 0 .. TapeSize
    BY TapeAssumption DEF ScanInit, Index
  <2> QED  BY <2>1 DEF ScanInit, ScanTypeOK
<1>2. index = start /\ at = "called" /\ reads = {} /\ start \in Int
  BY ArgumentsAreInts, <1>1 DEF ScanInit
<1>3. Behind = {}
  <2>1. \A i \in Path : i \in Int /\ IF step > 0 THEN i >= start ELSE i <= start
    BY <1>1, StrideAhead DEF Index
  <2> QED  BY <1>2, <2>1 DEF Behind
<1>4. PathSoFar
  BY <1>1, <1>2, <1>3, StartOnStride DEF PathSoFar
<1> QED  BY <1>1, <1>2, <1>4 DEF ScanInv, ActsAsOneStep

LEMMA CallKeepsInv ==
  ASSUME ScanInv, Call
  PROVE  ScanInv'
<1>1. /\ tape' = tape /\ start' = start /\ step' = step /\ index' = index
      /\ reads' = reads /\ at = "called" /\ ScanTypeOK /\ PathSoFar
  BY DEF Call, Answer, args, ScanInv
<1>2. Path' = Path /\ Zeros' = Zeros /\ Behind' = Behind
  BY <1>1 DEF Path, Zeros, Behind
<1>3. CASE step = 0
  <2>1. at' = "returned" /\ answer' = TapeSize
    BY <1>1, <1>3 DEF Call, Answer
  <2>2. reads = {}
    <3>1. \A i \in Path : i \in Int /\ i <= start
      BY <1>1, <1>3, StrideAhead DEF Index
    <3>2. Behind = {}
      BY <1>1, <1>3, <3>1, ArgumentsAreInts DEF Behind, PathSoFar
    <3> QED  BY <1>1, <3>2 DEF PathSoFar
  <2>3. ScanTypeOK'
    <3>1. TapeSize \in 0 .. TapeSize
      BY <1>1, ArgumentsAreInts
    <3> QED  BY <1>1, <2>1, <3>1 DEF ScanTypeOK
  <2>4. PathSoFar'
    BY <1>1, <1>2, <2>1 DEF PathSoFar
  <2>5. ActsAsOneStep'
    BY <1>1, <1>2, <1>3, <2>1, <2>2 DEF ActsAsOneStep
  <2> QED  BY <2>3, <2>4, <2>5 DEF ScanInv
<1>4. CASE step # 0
  <2>1. /\ at' = IF step = 4 THEN "turns of four" ELSE "cells"
        /\ answer' = answer
    BY <1>1, <1>4 DEF Call, args
  <2>2. ScanTypeOK'
    BY <1>1, <2>1 DEF ScanTypeOK
  <2>3. PathSoFar'
    BY <1>1, <1>2, <1>4, <2>1 DEF PathSoFar
  <2>4. ActsAsOneStep'
    BY <2>1 DEF ActsAsOneStep
  <2> QED  BY <2>2, <2>3, <2>4 DEF ScanInv
<1> QED  BY <1>3, <1>4

LEMMA LeaveTurnsKeepsInv ==
  ASSUME ScanInv, LeaveTurns
  PROVE  ScanInv'
<1>1. /\ tape' = tape /\ start' = start /\ step' = step /\ index' = index
      /\ reads' = reads /\ answer' = answer
      /\ at = "turns of four" /\ at' = "cells" /\ ScanTypeOK /\ PathSoFar
  BY DEF LeaveTurns, args, ScanInv
<1>2. Path' = Path /\ Zeros' = Zeros /\ Behind' = Behind
  BY <1>1 DEF Path, Zeros, Behind
<1>3. ScanTypeOK'
  BY <1>1 DEF ScanTypeOK
<1>4. step # 0
  <2>1. step = 4
    BY <1>1 DEF PathSoFar
  <2> QED  BY <2>1
<1>5. PathSoFar'
  BY <1>1, <1>2, <1>4 DEF PathSoFar
<1> QED  BY <1>1, <1>3, <1>5 DEF ScanInv, ActsAsOneStep

LEMMA CellHitsKeepsInv ==
  ASSUME ScanInv, CellHits
  PROVE  ScanInv'
<1>1. /\ ScanTypeOK /\ PathSoFar /\ at = "cells" /\ at # "returned" /\ step # 0
      /\ index \in Index /\ index \in Path /\ index \in Zeros
      /\ reads = Behind /\ Behind \intersect Zeros = {}
      /\ Answer(index) /\ reads' = reads \union {index}
  BY DEF CellHits, IsHit, ScanInv, PathSoFar, Zeros
<1>2. \A i \in Path : i \in Int
  BY <1>1, StrideAhead DEF Index
<1>3. \A j \in Zeros : IF step > 0 THEN index <= j ELSE j <= index
  BY <1>1, <1>2 DEF Behind, Zeros
<1>4. reads' = {j \in Path : IF step > 0 THEN j <= index ELSE index <= j}
  BY <1>1, <1>2 DEF Behind
<1> QED  BY <1>1, <1>3, <1>4, HitKeepsInv

LEMMA CellPassedKeepsInv ==
  ASSUME ScanInv, CellPassed
  PROVE  ScanInv'
<1>1. /\ ScanTypeOK /\ PathSoFar /\ at = "cells" /\ step # 0
      /\ index \in Index /\ index \in Path /\ index \notin Zeros
      /\ reads = Behind /\ Behind \intersect Zeros = {}
      /\ reads' = reads \union {index}
  BY DEF CellPassed, IsHit, ScanInv, PathSoFar, Zeros
<1>2. step \in Int /\ index \in Int /\ start \in Int /\ TapeSize \in Int
  BY <1>1, ArgumentsAreInts DEF Index
<1>3. CASE LastCell
  <2>1. Answer(TapeSize) /\ step = 4 /\ index + 4 >= TapeSize
    BY <1>3 DEF CellPassed, LastCell
  <2>2. ASSUME NEW i \in Path
        PROVE  i \in Behind \union {index}
    <3>1. i \in Int /\ i <= TapeSize - 1
      BY <1>1, <1>2, <2>2, StrideAhead DEF Index
    <3>2. i # index => i < index
      BY <1>1, <1>2, <2>1, <2>2, <3>1, StrideApart
    <3> QED  BY <2>1, <2>2, <3>1, <3>2 DEF Behind
  <2>3. reads' = Path /\ Zeros = {}
    BY <1>1, <2>2 DEF Behind, Zeros
  <2> QED  BY <1>1, <2>1, <2>3, MissKeepsInv
<1>4. CASE ~LastCell
  <2>1. Advance(index + step)
    BY <1>4 DEF CellPassed
  <2>2. index + step \in Index => index + step \in Path
    BY <1>1, StrideGoesOn
  <2>3. Behind' = Behind \union {index}
    BY <1>1, <2>1, BehindAfterStep DEF Advance
  <2>4. IF step > 0 THEN index + step >= start ELSE index + step <= start
    BY <1>1, <1>2 DEF PathSoFar
  <2>5. reads' = Behind' /\ Behind' \intersect Zeros = {}
    BY <1>1, <2>3
  <2>6. index + step \in Int /\ at \in {"turns of four", "cells"}
    BY <1>1, <1>2
  <2> QED  BY <1>1, <2>1, <2>2, <2>4, <2>5, <2>6, AdvanceKeepsInv
<1> QED  BY <1>3, <1>4

LEMMA RunsOutKeepsInv ==
  ASSUME ScanInv, RunsOut
  PROVE  ScanInv'
<1>1. /\ ScanTypeOK /\ PathSoFar /\ at = "cells" /\ step # 0
      /\ index \notin Index /\ Answer(TapeSize)
      /\ reads = Behind /\ Behind \intersect Zeros = {} /\ reads' = reads
      /\ IF step > 0 THEN index >= start ELSE index <= start
  BY DEF RunsOut, ScanInv, PathSoFar
<1>2. index \in Int
  BY <1>1 DEF ScanTypeOK
<1>3. ASSUME NEW i \in Path
      PROVE  i \in Behind
  <2>1. i \in Int /\ 0 <= i /\ i <= TapeSize - 1
    BY <1>1, <1>3, ArgumentsAreInts, StrideAhead DEF Index
  <2>2. IF step > 0 THEN i < index ELSE i > index
    BY <1>1, <1>2, <2>1, ArgumentsAreInts DEF Index
  <2> QED  BY <1>3, <2>2 DEF Behind
<1>4. reads' = Path /\ Zeros = {}
  BY <1>1, <1>3 DEF Behind, Zeros
<1> QED  BY <1>1, <1>4, MissKeepsInv

LEMMA TurnOfFourKeepsInv ==
  ASSUME ScanInv, TurnOfFour
  PROVE  ScanInv'
<1>1. /\ ScanTypeOK /\ PathSoFar
      /\ at = "turns of four"
      /\ at # "returned"
      /\ TurnFits(index)
  BY DEF TurnOfFour, ScanInv
<1>2. step = 4
  BY <1>1 DEF PathSoFar
<1>3. step # 0 /\ step \in Int /\ step > 0
  BY <1>2
<1>4. /\ reads = Behind /\ Behind \intersect Zeros = {}
      /\ index >= start
  BY <1>1, <1>3 DEF PathSoFar
<1>5. /\ index \in Int /\ start \in Int /\ 0 <= start /\ TapeSize \in Int
      /\ index \in Index /\ index + 12 \in Index
  <2>1. index \in Int
    BY <1>1 DEF ScanTypeOK
  <2>2. start \in Int /\ 0 <= start /\ TapeSize \in Int
    BY <1>1, ArgumentsAreInts
  <2>3. index + 12 < TapeSize
    BY <1>1 DEF TurnFits
  <2> QED  BY <1>4, <2>1, <2>2, <2>3 DEF Index
<1>6. index \in Path
  BY <1>1, <1>5 DEF PathSoFar
<1>7. /\ \A d \in TurnOffsets : index + d \in Path
      /\ \A i \in Path : i < index + 16 => i < index \/ i - index \in TurnOffsets
      /\ index + 16 \in Index => index + 16 \in Path
  BY <1>1, <1>2, <1>5, <1>6, TurnCovers
<1>8. \A i \in Path : i \in Int
  <2>1. Path \subseteq Index
    BY <1>1, StrideAhead
  <2> QED  BY <2>1 DEF Index
<1>9. \A d \in TurnOffsets : d \in Hits <=> index + d \in Zeros
  BY <1>1, <1>7, StrideAhead DEF Hits, IsHit, Zeros
<1>10. TurnOffsets \subseteq 0 .. 12 /\ Hits \subseteq TurnOffsets
  BY DEF TurnOffsets, Hits
<1>11. Behind = {i \in Path : i < index}
  BY <1>3 DEF Behind
<1>12. CASE Hits # {}
  <2> DEFINE h == Least(Hits)
  <2>1. h \in Hits /\ \A d \in Hits : h <= d
    <3>1. PICK d \in Hits : \A e \in Hits : d <= e
      BY <1>12 DEF Hits, TurnOffsets
    <3> QED  BY <3>1 DEF Least
  <2>2. /\ Answer(index + h)
        /\ reads' = reads \union {index + d : d \in {e \in TurnOffsets : e <= h}}
    BY <1>12 DEF TurnOfFour
  <2> HIDE DEF h
  <2>3. h \in TurnOffsets /\ h \in 0 .. 12 /\ index + h \in Zeros
    BY <1>9, <1>10, <2>1
  <2>4. ASSUME NEW j \in Zeros
        PROVE  index + h <= j
    <3>1. j \in Path /\ j \in Int /\ ~(j < index)
      BY <1>4, <1>8, <1>11, <2>4 DEF Zeros
    <3>2. CASE j < index + 16
      <4>1. j - index \in TurnOffsets /\ index + (j - index) = j
        BY <1>5, <1>7, <3>1, <3>2
      <4>2. j - index \in Hits
        BY <1>9, <2>4, <4>1
      <4> QED  BY <1>5, <2>1, <2>3, <3>1, <4>2
    <3>3. CASE ~(j < index + 16)
      BY <1>5, <2>3, <3>1, <3>3
    <3> QED  BY <3>2, <3>3
  <2>5. ASSUME NEW j \in Path
        PROVE  j <= index + h <=>
                 j < index \/ j \in {index + d : d \in {e \in TurnOffsets : e <= h}}
    <3>1. j \in Int
      BY <1>8, <2>5
    <3>2. ASSUME j <= index + h, ~(j < index)
          PROVE  j \in {index + d : d \in {e \in TurnOffsets : e <= h}}
      <4>1. j - index \in TurnOffsets /\ index + (j - index) = j /\ j - index <= h
        BY <1>5, <1>7, <2>3, <2>5, <3>1, <3>2
      <4> QED  BY <4>1
    <3>3. ASSUME NEW d \in TurnOffsets, d <= h, j = index + d
          PROVE  j <= index + h
      BY <1>5, <1>10, <2>3, <3>3
    <3>4. j < index => j <= index + h
      BY <1>5, <2>3, <3>1
    <3> QED  BY <3>2, <3>3, <3>4
  <2>6. reads' = {j \in Path : j <= index + h}
    <3>1. \A d \in {e \in TurnOffsets : e <= h} : index + d \in Path
      BY <1>7
    <3> QED  BY <1>4, <1>11, <2>2, <2>5, <3>1
  <2>7. /\ \A j \in Zeros : IF step > 0 THEN index + h <= j ELSE j <= index + h
        /\ reads' = {j \in Path : IF step > 0 THEN j <= index + h ELSE index + h <= j}
        /\ at # "returned"
    BY <1>1, <1>3, <2>4, <2>6
  <2> QED  BY <1>1, <1>3, <2>2, <2>3, <2>7, HitKeepsInv
<1>13. CASE Hits = {}
  <2>1. /\ Advance(index + 16)
        /\ reads' = reads \union {index + d : d \in TurnOffsets}
    BY <1>13 DEF TurnOfFour
  <2>2. /\ Path' = Path /\ Behind' = {i \in Path : i < index + 16}
    BY <1>3, <2>1 DEF Advance, args, Path, Behind
  <2>3. ASSUME NEW j \in Path
        PROVE  j < index + 16 <=> j < index \/ j \in {index + d : d \in TurnOffsets}
    <3>1. j \in Int
      BY <1>8, <2>3
    <3>2. ASSUME j < index + 16, ~(j < index)
          PROVE  j \in {index + d : d \in TurnOffsets}
      <4>1. j - index \in TurnOffsets /\ index + (j - index) = j
        BY <1>5, <1>7, <2>3, <3>1, <3>2
      <4> QED  BY <4>1
    <3>3. ASSUME NEW d \in TurnOffsets, j = index + d
          PROVE  j < index + 16
      BY <1>5, <1>10, <3>3
    <3>4. j < index => j < index + 16
      BY <1>5, <3>1
    <3> QED  BY <3>2, <3>3, <3>4
  <2>4. reads' = Behind'
    BY <1>4, <1>7, <1>11, <2>1, <2>2, <2>3
  <2>5. Behind' \intersect Zeros = {}
    <3>1. \A d \in TurnOffsets : index + d \notin Zeros
      BY <1>9, <1>13
    <3> QED  BY <1>4, <2>1, <2>4, <3>1
  <2>6. /\ index + 16 \in Int
        /\ IF step > 0 THEN index + 16 >= start ELSE index + 16 <= start
    BY <1>3, <1>4, <1>5
  <2>7. at \in {"turns of four", "cells"}
    BY <1>1
  <2> QED  BY <1>1, <1>7, <2>1, <2>4, <2>5, <2>6, <2>7, AdvanceKeepsInv
<1> QED  BY <1>12, <1>13
-----------------------------------------------------------------------------
(* The theorems.                                                           *)

LEMMA NextKeepsScanInv ==
  ASSUME ScanInv, [ScanNext]_scanVars
  PROVE  ScanInv'
<1>1. CASE Call
  BY <1>1, CallKeepsInv
<1>2. CASE TurnOfFour
  BY <1>2, TurnOfFourKeepsInv
<1>3. CASE LeaveTurns
  BY <1>3, LeaveTurnsKeepsInv
<1>4. CASE CellHits
  BY <1>4, CellHitsKeepsInv
<1>5. CASE CellPassed
  BY <1>5, CellPassedKeepsInv
<1>6. CASE RunsOut
  BY <1>6, RunsOutKeepsInv
<1>7. CASE UNCHANGED scanVars
  <2>1. /\ tape' = tape /\ start' = start /\ step' = step /\ at' = at
        /\ index' = index /\ answer' = answer /\ reads' = reads
    BY <1>7 DEF scanVars
  <2> QED  BY <2>1 DEF ScanInv, ScanTypeOK, PathSoFar, ActsAsOneStep, Path, Zeros, Behind
<1> QED  BY <1>1, <1>2, <1>3, <1>4, <1>5, <1>6, <1>7 DEF ScanNext, ScanStep, ScanReturned

\* Each scan keeps its invariant: what it has read is exactly the part of its
\* stride it has passed, and none of it is zero.
THEOREM ScanInvariant == ScanSpec => []ScanInv
<1> QED  BY InitHasScanInv, NextKeepsScanInv, PTL DEF ScanSpec

\* The turns of four and the single steps of bf_runtime_scan_index_step4 leave no
\* cell of the stride out, and pass none that is zero.
THEOREM ScanPathSoFar == ScanSpec => []PathSoFar
<1>1. ScanInv => PathSoFar
  BY DEF ScanInv
<1> QED  BY <1>1, ScanInvariant, PTL

\* bf_runtime_scan_index and bf_runtime_scan_index_step4 read no cell off the
\* tape, whatever its size, its contents, the start and the step.
THEOREM ScanReadsOnTape == ScanSpec => []ReadsOnTape
<1>1. ScanInv => ReadsOnTape
  BY DEF ScanInv, ScanTypeOK, ReadsOnTape
<1> QED  BY <1>1, ScanInvariant, PTL

\* What they return and what they have read is what BFRuntime!Scan says in one
\* step.
THEOREM ScanActsAsOneStep == ScanSpec => []ActsAsOneStep
<1>1. ScanInv => ActsAsOneStep
  BY DEF ScanInv
<1> QED  BY <1>1, ScanInvariant, PTL

\* Scan, which models bf_runtime_execute_scan, does what the loop has done that this
\* function calls with the pointer and the node's step (any but 1, for which it calls
\* memchr): the pointer is what the loop answered, the run fails where it found no
\* zero, and the cells touched are those it read.
THEOREM ScanDoesWhatTheLoopDid ==
  ASSUME ActsAsOneStep, at = "returned", start = pointer, step = Here.arg, Scan
  PROVE  /\ touched' = reads
         /\ \/ pointer' = answer /\ result' = result
            \/ answer = TapeSize /\ Fail(IF step = 1 THEN 2 ELSE 3)
<1>1. Path = Stride(step) /\ Zeros = ZerosOn(step)
  BY DEF Path, Stride, Zeros, ZerosOn
<1>2. FirstOf(Zeros, step) = FirstZero(step)
  BY <1>1 DEF FirstZero
<1> DEFINE stops(d) == d # 0 /\ ZerosOn(d) # {}
           seen(d)  == {i \in Stride(d) : /\ d # 0
                                          /\ stops(d) => Between(i, pointer, FirstZero(d))}
<1>3. reads = seen(step) /\ answer = IF stops(step) THEN FirstZero(step) ELSE TapeSize
  BY <1>1, <1>2 DEF ActsAsOneStep
<1>4. /\ touched' = seen(Here.arg)
      /\ \/ stops(Here.arg) /\ pointer' = FirstZero(Here.arg) /\ result' = result
         \/ ~stops(Here.arg) /\ Fail(IF Here.arg = 1 THEN 2 ELSE 3)
  <2>1. touched' = seen(Here.arg)
    BY DEF Scan
  <2>2. \/ stops(Here.arg) /\ pointer' = FirstZero(Here.arg) /\ result' = result
        \/ ~stops(Here.arg) /\ Fail(IF Here.arg = 1 THEN 2 ELSE 3)
    <3> HIDE DEF seen
    <3> QED  BY DEF Scan
  <2> QED  BY <2>1, <2>2
<1> HIDE DEF stops, seen
<1> QED  BY <1>3, <1>4
=============================================================================
