------------------------------ MODULE BFProfile ------------------------------
(***************************************************************************)
(* The execution profile (bf_runtime_profile) the interpreter fills under  *)
(* --profile-ir-execution.  The tables the code searches linearly and      *)
(* appends to are functions from a key to its number of executions.        *)
(***************************************************************************)
EXTENDS BFJitPlan

CONSTANT SignatureRoom  \* bytes of a context signature's buffer: 8192 in the code

ASSUME SignatureRoomAssumption == SignatureRoom \in Nat

StepClasses == {"step1", "step4", "positive", "negative", "zero"}

StepClass(step) ==
  CASE step = 1              -> "step1"
    [] step = 4              -> "step4"
    [] step > 0 /\ step \notin {1, 4} -> "positive"
    [] step < 0              -> "negative"
    [] step = 0              -> "zero"

NoEntries == <<>>

\* The key's entry is found and counted, or a new one is appended.
Counted(table, key) ==
  [k \in DOMAIN table \union {key} |->
     IF k \notin DOMAIN table THEN 1 ELSE IF k = key THEN table[k] + 1 ELSE table[k]]

EmptyProfile ==
  [total        |-> 0,                          \* total_node_executions
   counts       |-> [k \in Kinds |-> 0],        \* node_counts
   scans        |-> [c \in StepClasses |-> 0],  \* scan_*_count
   distance     |-> [c \in StepClasses |-> 0],  \* scan_*_distance_total
   terms        |-> 0,                          \* multiply_loop_term_total
   segmentRuns  |-> 0,                          \* simple_segment_executions
   segmentNodes |-> 0,                          \* simple_segment_total_nodes
   segmentMax   |-> 0,                          \* simple_segment_max_nodes
   segments     |-> NoEntries,                   \* simple_segment_entries
   pendingScans |-> 0,                          \* scan_pending_offset_nonzero_count
   pendingAbs   |-> 0,                          \* scan_pending_offset_abs_total
   pendingMax   |-> 0,                          \* scan_pending_offset_max_abs
   contexts     |-> NoEntries]                   \* scan_context_entries

Abs(v) == IF v < 0 THEN -v ELSE v
Larger(a, b) == IF a < b THEN b ELSE a

Bumped(counters, k) == [counters EXCEPT ![k] = @ + 1]

\* bf_runtime_profile_record_node
RecordNode(p, n) ==
  [p EXCEPT
     !.total  = @ + 1,
     !.counts = Bumped(@, n.kind),
     !.scans  = IF n.kind = "SCAN" THEN Bumped(@, StepClass(n.arg)) ELSE @,
     !.terms = IF n.kind \in MultiplyKinds THEN @ + Len(n.terms) ELSE @]

\* bf_runtime_profile_record_scan_distance
RecordDistance(p, step, from, to) ==
  [p EXCEPT !.distance[StepClass(step)] = @ + Abs(to - from)]

\* What a segment's entry is found by: its text and the loop or if around it.
SegmentKey(nodes, context) ==
  <<[i \in DOMAIN nodes |-> <<nodes[i].kind, nodes[i].arg>>], context>>

\* Mutant: the segment's first node is not counted.
CountSegmentTail(p, nodes) ==
  [p EXCEPT !.segmentRuns  = @ + 1,
            !.segmentNodes = @ + Len(nodes) - 1,
            !.segmentMax   = Larger(@, Len(nodes))]

\* The counters bf_runtime_profile_record_simple_segment updates first ...
CountSegment(p, nodes) ==
  [p EXCEPT !.segmentRuns  = @ + 1,
            !.segmentNodes = @ + Len(nodes),
            !.segmentMax   = Larger(@, Len(nodes))]

\* ... and the entry it then finds or appends.
RecordSegment(p, nodes, context) ==
  [CountSegment(p, nodes) EXCEPT !.segments = Counted(@, SegmentKey(nodes, context))]

\* bf_runtime_profile_record_scan_context: the counters, then the entry.
CountScanContext(p, pending) ==
  IF pending = 0 THEN p
  ELSE [p EXCEPT !.pendingScans = @ + 1,
                 !.pendingAbs   = @ + Abs(pending),
                 !.pendingMax   = Larger(@, Abs(pending))]

RecordScanContext(p, pending, step) ==
  [CountScanContext(p, pending) EXCEPT !.contexts = Counted(@, <<pending, step>>)]

(***************************************************************************)
(* The length of a body's context signature: the nodes' codes, commas      *)
(* between them, and the bracketed bodies of nested blocks down to the     *)
(* given depth (bf_runtime_append_control_flow_signature_block).           *)
(***************************************************************************)
CodeLength(n) ==
  CASE n.kind \in {"MULTI_ZERO", "MULTIPLY_LOOP"} -> 2
    [] n.kind = "NONNULL_MULTIPLY_LOOP"           -> 3
    [] OTHER                                      -> 1

SignatureLength[block \in Seq(Node), depth \in 0 .. 2] ==
  LET nested(n) == IF n.kind \in ControlKinds /\ depth > 0
                   THEN 2 + SignatureLength[n.body, depth - 1] ELSE 0
  IN  FoldSeq(LAMBDA n, sum : sum + CodeLength(n) + nested(n),
              Larger(Len(block) - 1, 0), block)

\* The signature of a loop or if with this body fits its buffer, with its NUL.
SignatureFits(body) == SignatureLength[body, 2] < SignatureRoom

SegmentKnown(p, nodes, context) == SegmentKey(nodes, context) \in DOMAIN p.segments
=============================================================================
