------------------------------ MODULE BFParser ------------------------------
(***************************************************************************)
(* The parser, bf_parse_src (bfparser.c), with its stack, the memory of    *)
(* the blocks it builds and its errors.  The C call stack of               *)
(* bf_parse_block is the sequence frames, one block being filled in each;  *)
(* a step handles one token, or returns from one failed invocation.        *)
(*                                                                         *)
(* A block's array of nodes is an identifier in heap.  A frame carries the *)
(* arrays its block owns: its own and those of the loops in it.            *)
(*                                                                         *)
(* Abstracted: a node's location; an arg never reaches INT_MAX (a run of   *)
(* 2^31 equal characters).                                                 *)
(***************************************************************************)
EXTENDS BFSource

CONSTANTS
  Sources,        \* what is parsed: sequences of characters
  FirstCapacity,  \* of a block's array: 8 nodes in the code
  AllocMayFail    \* BOOLEAN: realloc may return NULL

ASSUME SourcesAssumption == \A text \in Sources : text \in Seq(STRING)
ASSUME FirstCapacityAssumption == FirstCapacity \in Nat \ {0}

VARIABLES
  source,   \* the text, which does not change
  after,    \* the lexer's position, behind the current token
  current,  \* the token: its kind and its location
  frames,   \* invocations of bf_parse_block
  heap,     \* the arrays allocated and not freed
  status,   \* "parsing", "failing", and at the end "accepted" or "rejected"
  err       \* bf_parse_err

vars == <<source, after, current, frames, heap, status, err>>

NoError == [set |-> FALSE, loc |-> LexerStart, msg |-> ""]

EmptyBlock(begin) ==
  [nodes    |-> <<>>,
   capacity |-> 0,      \* the block's field
   room     |-> 0,      \* nodes its array really holds
   array    |-> {},     \* the array, none before the first push
   nested   |-> {},     \* arrays of the loops in the block
   begin    |-> begin]  \* loop_begin_loc

Init ==
  /\ source \in Sources
  /\ LET first == Lex(source, LexerStart)
     IN  current = first.token /\ after = first.after
  /\ frames = <<EmptyBlock(LexerStart)>>
  /\ heap = {}
  /\ status = "parsing"
  /\ err = NoError
-----------------------------------------------------------------------------
Depth == Len(frames)
Top   == frames[Depth]

Parsing == status = "parsing"
At(kinds) == Parsing /\ current.kind \in kinds

\* bf_parser_advance
ToNextToken ==
  LET next == Lex(source, after)
  IN  current' = next.token /\ after' = next.after

SetTop(frame) == frames' = [frames EXCEPT ![Depth] = frame]
Owned(frame)  == frame.array \union frame.nested

\* bf_set_parse_err, and the return of 0 that follows it.
FailWith(loc, msg) ==
  /\ err' = [set |-> TRUE, loc |-> loc, msg |-> msg]
  /\ status' = "failing"

Going == UNCHANGED <<status, err, source>>

\* The capacity bf_ir_block_reserve wants for one node more: one doubling at
\* most, since a block never holds more nodes than its capacity.
Reserved(frame) ==
  IF frame.capacity > Len(frame.nodes) THEN frame.capacity
  ELSE IF frame.capacity = 0 THEN FirstCapacity ELSE 2 * frame.capacity

\* Mutant: room is asked for the nodes there are, not for one more.
MustGrowLate(frame) == frame.capacity < Len(frame.nodes)

MustGrow(frame) == frame.capacity <= Len(frame.nodes)

\* An address malloc may return.
FreshArray == CHOOSE a \in 1 .. Cardinality(heap) + 1 : a \notin heap

(***************************************************************************)
(* bf_ir_block_push succeeds: the frame with the node in its block, and    *)
(* the array the block then has.                                           *)
(***************************************************************************)
Pushed(frame, node) ==
  [frame EXCEPT !.nodes    = Append(@, node),
                !.capacity = Reserved(frame),
                !.room     = IF MustGrow(frame) THEN Reserved(frame) ELSE @,
                !.array    = IF MustGrow(frame) /\ @ = {} THEN {FreshArray} ELSE @]

\* bf_ir_block_push fails: realloc did, with the capacity already raised.
PushMayFail(frame) == AllocMayFail /\ MustGrow(frame)
NotPushed(frame)   == [frame EXCEPT !.capacity = Reserved(frame)]

\* bf_ir_block_push(top block, node) for the token under the parser.
PushToken(node, msg) ==
  \/ /\ SetTop(Pushed(Top, node))
     /\ heap' = heap \union Pushed(Top, node).array
     /\ Going
  \/ /\ PushMayFail(Top)
     /\ SetTop(NotPushed(Top))
     /\ FailWith(current.loc, msg)
     /\ UNCHANGED <<heap, source>>
-----------------------------------------------------------------------------
(* The cases of bf_parse_block's switch.  The token is consumed first.     *)

\* Mutant: the node's arg is overwritten, not added to.
MergeByStoring ==
  /\ At(DeltaTokens)
  /\ Merges(Top.nodes, DeltaKind(current.kind))
  /\ SetTop([Top EXCEPT !.nodes[Len(Top.nodes)].arg = Delta(current.kind)])
  /\ ToNextToken
  /\ Going /\ UNCHANGED heap

\* A delta that finds a node of its kind at the end of the block.
MergeDelta ==
  /\ At(DeltaTokens)
  /\ Merges(Top.nodes, DeltaKind(current.kind))
  /\ SetTop([Top EXCEPT !.nodes =
                AppendDelta(@, DeltaKind(current.kind), Delta(current.kind))])
  /\ ToNextToken
  /\ Going /\ UNCHANGED heap

PushDelta ==
  /\ At(DeltaTokens)
  /\ ~Merges(Top.nodes, DeltaKind(current.kind))
  /\ PushToken(Plain(DeltaKind(current.kind), Delta(current.kind)), "out of memory")
  /\ ToNextToken

PushIo ==
  /\ At(IoTokens)
  /\ PushToken(IoNode(current.kind), "out of memory")
  /\ ToNextToken

OpenLoop ==
  /\ At({"["})
  /\ frames' = Append(frames, EmptyBlock(current.loc))
  /\ ToNextToken
  /\ Going /\ UNCHANGED heap

\* The caller's frame, without the loop's body.
Caller == frames[Depth - 1]
Popped(frame) == [SubSeq(frames, 1, Depth - 1) EXCEPT ![Depth - 1] = frame]

\* The body of a loop ends: its invocation returns 1 and the caller pushes the
\* node.  When that fails the body is disposed of before the caller returns 0.
CloseLoop ==
  /\ At({"]"}) /\ Depth > 1
  /\ LET pushed == Pushed(Caller, Loop(Top.nodes))
     IN  \/ /\ frames' = Popped([pushed EXCEPT !.nested = @ \union Owned(Top)])
            /\ heap' = heap \union pushed.array
            /\ Going
         \/ /\ PushMayFail(Caller)
            /\ frames' = Popped(NotPushed(Caller))
            /\ heap' = heap \ Owned(Top)
            /\ FailWith(Top.begin, "out of memory")
            /\ UNCHANGED source
  /\ ToNextToken

\* The errors after the loop over the tokens.
UnexpectedClose ==
  /\ At({"]"}) /\ Depth = 1
  /\ FailWith(current.loc, "unexpected closing bracket")
  /\ UNCHANGED <<source, after, current, frames, heap>>

UnterminatedLoop ==
  /\ At({"eof"}) /\ Depth > 1
  /\ FailWith(Top.begin, "unterminated loop")
  /\ UNCHANGED <<source, after, current, frames, heap>>

Accept ==
  /\ At({"eof"}) /\ Depth = 1
  /\ status' = "accepted"
  /\ UNCHANGED <<source, after, current, frames, heap, err>>
-----------------------------------------------------------------------------
(* After an error: every caller disposes of the body it was given back,    *)
(* bf_parse_src of the root (bf_ir_block_dispose, bf_program_dispose).     *)

\* Mutant: the caller returns 0 without disposing of the body.
ReturnOnly ==
  /\ status = "failing" /\ Depth > 1
  /\ frames' = SubSeq(frames, 1, Depth - 1)
  /\ UNCHANGED <<source, after, current, heap, status, err>>

\* Mutant: the body is disposed of, but the invocation does not return.
UnwindInPlace ==
  /\ status = "failing" /\ Depth > 1
  /\ heap' = heap \ Owned(Top)
  /\ UNCHANGED <<source, after, current, frames, status, err>>

Unwind ==
  /\ status = "failing" /\ Depth > 1
  /\ heap' = heap \ Owned(Top)
  /\ frames' = SubSeq(frames, 1, Depth - 1)
  /\ UNCHANGED <<source, after, current, status, err>>

Reject ==
  /\ status = "failing" /\ Depth = 1
  /\ heap' = heap \ Owned(Top)
  /\ frames' = <<EmptyBlock(LexerStart)>>
  /\ status' = "rejected"
  /\ UNCHANGED <<source, after, current, err>>

Ended == status \in {"accepted", "rejected"}

\* The caller has the answer: nothing more happens.
Returned == Ended /\ UNCHANGED vars

Step ==
  \/ MergeDelta \/ PushDelta \/ PushIo \/ OpenLoop \/ CloseLoop
  \/ UnexpectedClose \/ UnterminatedLoop \/ Accept
  \/ Unwind \/ Reject

Next == Step \/ Returned

Spec == Init /\ [][Next]_vars

\* The parser runs on one thread that nothing blocks.
FairSpec == Spec /\ WF_vars(Step)
-----------------------------------------------------------------------------
(* Properties.                                                             *)

\* bf_ir_block_push writes inside the array it has, also when an earlier
\* realloc failed with the capacity already raised; while the parser runs on,
\* the capacity a block believes in is the one its array has.
BlocksFitTheirArrays ==
  \A i \in 1 .. Depth :
    /\ Len(frames[i].nodes) <= frames[i].room
    /\ Parsing => frames[i].capacity = frames[i].room

\* Every array allocated is owned by exactly one block on the stack: none is
\* leaked, none is freed twice or used after it was freed; a rejected program
\* leaves no array behind.
ArraysOwnedOnce ==
  /\ heap = UNION {Owned(frames[i]) : i \in 1 .. Depth}
  /\ \A i, j \in 1 .. Depth : i # j => Owned(frames[i]) \intersect Owned(frames[j]) = {}
  /\ \A i \in 1 .. Depth : frames[i].array \intersect frames[i].nested = {}
  /\ status = "rejected" => heap = {}

\* The form every pass of the optimiser relies on: in a block, deltas of one
\* kind never stand next to each other and none is zero.
CanonicalBlock(nodes) ==
  \A i \in DOMAIN nodes :
    nodes[i].kind \in DeltaKinds =>
      /\ nodes[i].arg # 0
      /\ i > 1 => nodes[i - 1].kind # nodes[i].kind

BlocksAreCanonical == \A i \in 1 .. Depth : CanonicalBlock(frames[i].nodes)
-----------------------------------------------------------------------------
(* Which error a source deserves.                                          *)

Opens(text)  == Cardinality({i \in DOMAIN text : text[i] = "["})
Closes(text) == Cardinality({i \in DOMAIN text : text[i] = "]"})
Part(from, to) == SubSeq(source, from, to)

\* Brackets without their partner, by position.
UnmatchedCloses == {k \in DOMAIN source : Closes(Part(1, k)) > Opens(Part(1, k))}
UnmatchedOpens  ==
  {k \in DOMAIN source :
     \A m \in k .. Len(source) : source[k] = "[" /\ Opens(Part(k, m)) > Closes(Part(k, m))}

WellFormed == UnmatchedCloses = {} /\ UnmatchedOpens = {}

\* Where a character is, counted from the text.
LocationOf(k) ==
  LET newlines == {i \in 1 .. k - 1 : source[i] = "\n"}
  IN  [offset |-> k - 1,
       line   |-> 1 + Cardinality(newlines),
       column |-> k - Greatest(newlines \union {0})]

\* The answer is right: a program is rejected if and only if its brackets do
\* not match or memory ran out; the error names the first closing bracket too
\* many, or else the innermost loop left open, at its line and column.
AnswersRightly ==
  /\ status = "accepted" => WellFormed /\ ~err.set
  /\ status = "rejected" =>
       /\ err.set
       /\ \/ err.msg = "out of memory" /\ AllocMayFail
          \/ /\ err.msg = "unexpected closing bracket"
             /\ UnmatchedCloses # {}
             /\ err.loc = LocationOf(Least(UnmatchedCloses))
          \/ /\ err.msg = "unterminated loop"
             /\ UnmatchedCloses = {} /\ UnmatchedOpens # {}
             /\ err.loc = LocationOf(Greatest(UnmatchedOpens))

\* What bf_parse_src leaves behind is what BFSource's ParseSource says, which
\* the runs of the optimiser and the interpreter start from.
BuildsParseSource == status = "accepted" => Top.nodes = ParseSource(source)
=============================================================================
