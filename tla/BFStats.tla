------------------------------- MODULE BFStats -------------------------------
(***************************************************************************)
(* The statistics main.c collects of a program (--dump-multiply-stats,     *)
(* --dump-simple-segment-stats, --dump-control-flow-stats), as operators   *)
(* from the root block to the report that is printed.  A signature is what *)
(* it is written from: kinds, arguments, terms; how it is written, the     *)
(* order of the list and its first twelve or twenty entries are left out.  *)
(***************************************************************************)
EXTENDS BFIR, FiniteSets, SequencesExt

CONSTANT SignatureSize    \* bytes for the signature of a loop: 8192 in the code

\* The nodes of a block and of the bodies in it, in the order they are visited.
RECURSIVE Walk(_)
Walk(block) == FlattenSeq([i \in DOMAIN block |-> <<block[i]>> \o Walk(block[i].body)])

\* How often each signature was recorded.
Occurrences(signatures) ==
  [s \in ToSet(signatures) |-> Cardinality({i \in DOMAIN signatures : signatures[i] = s})]

Longest(seqs) == Greatest({0} \union {Len(s) : s \in ToSet(seqs)})
TotalLength(seqs) == FoldSeq(LAMBDA s, sum : sum + Len(s), 0, seqs)
-----------------------------------------------------------------------------
(* Multiply loops, by their terms.                                         *)

\* bf_collect_multiply_stats_block
MultiplyReport(block) ==
  LET loops == SelectSeq(Walk(block), LAMBDA n : n.kind \in MultiplyKinds)
      terms == [i \in DOMAIN loops |-> loops[i].terms]
  IN  [total_loops    |-> Len(terms),
       total_terms    |-> TotalLength(terms),
       max_term_count |-> Longest(terms),
       histogram      |-> Occurrences([i \in DOMAIN terms |-> Len(terms[i])]),
       signatures     |-> Occurrences(terms)]
-----------------------------------------------------------------------------
(* Simple segments: the longest runs of simple nodes and moves.            *)

\* Mutant: a run ends before its last node.
SegmentEndShort(block, i) ==
  Greatest({i} \union {k \in i .. Len(block) - 1 : \A j \in i .. k + 1 : IsSegmentNode(block[j])})

SegmentEnd(block, i) ==
  Least({k \in i .. Len(block) + 1 : k > Len(block) \/ ~IsSegmentNode(block[k])}) - 1

\* The block's own segments, then those of the bodies in it.
RECURSIVE Segments(_)
Segments(block) ==
  LET starts(i) == IsSegmentNode(block[i]) /\ (i = 1 \/ ~IsSegmentNode(block[i - 1]))
  IN  FlattenSeq([i \in DOMAIN block |->
        IF starts(i) THEN <<SubSeq(block, i, SegmentEnd(block, i))>>
        ELSE Segments(block[i].body)])

\* bf_collect_simple_segment_stats_block
SegmentReport(block) ==
  LET all == Segments(block)
  IN  [total_segments |-> Len(all),
       total_nodes    |-> TotalLength(all),
       max_nodes      |-> Longest(all),
       signatures     |-> Occurrences(all)]
-----------------------------------------------------------------------------
(* Control flow: what keeps each loop from becoming an if.                 *)

NothingYet == [final_offset |-> 0, origin_zero |-> FALSE, touches_origin_badly |-> FALSE,
               has |-> {}]

\* Mutant: reading into the loop's cell is overlooked.
AddsOnly == {"ADD_DATA"}

\* What may leave anything in the loop's cell.
OriginSpoilers == {"ADD_DATA", "INPUT"}

\* One node of the loop's body, in bf_analyze_loop_if_candidate.
Analyze(analysis, n) ==
  LET at      == analysis.final_offset
      touches == \E d \in TermOffsets(n) : at + d = 0
      seen    == [analysis EXCEPT !.has = @ \union {n.kind}]
  IN  CASE n.kind = "ADD_PTR" -> [seen EXCEPT !.final_offset = at + n.arg]
        [] n.kind \in {"SET_ZERO", "SET_CONST"} ->
             IF at # 0 THEN seen
             ELSE [seen EXCEPT !.origin_zero = n.kind = "SET_ZERO" \/ n.arg = 0]
        [] n.kind \in OriginSpoilers ->
             IF at # 0 THEN seen ELSE [seen EXCEPT !.touches_origin_badly = TRUE]
        [] n.kind = "MULTI_ZERO" ->
             [seen EXCEPT !.origin_zero = @ \/ touches, !.final_offset = at + n.arg]
        [] n.kind \in MultiplyKinds ->
             IF at = 0 THEN [seen EXCEPT !.origin_zero = TRUE]
             ELSE [seen EXCEPT !.touches_origin_badly = @ \/ touches]
        [] OTHER -> seen

\* bf_analyze_loop_if_candidate
Analysis(n) == FoldLeft(Analyze, NothingYet, n.body)

Has(n, kinds) == Analysis(n).has \intersect kinds # {}

\* Nothing but a nested loop or if keeps the loop from becoming an if.
RunsOnce(n) ==
  LET a == Analysis(n)
  IN  a.final_offset = 0 /\ a.origin_zero /\ ~a.touches_origin_badly /\ ~Has(n, {"SCAN"})

Convertible(n)     == RunsOnce(n) /\ ~Has(n, ControlKinds)
NestedCandidate(n) == RunsOnce(n) /\ Has(n, ControlKinds)

RECURSIVE MaxDepth(_)
MaxDepth(block) ==
  1 + Greatest({0} \union {MaxDepth(n.body) : n \in {m \in ToSet(block) : m.kind \in ControlKinds}})

\* bf_append_control_flow_signature_block: the kinds, with the bodies of loops and
\* ifs in brackets, down to a depth.
RECURSIVE ControlSignature(_, _)
ControlSignature(block, depth) ==
  [i \in DOMAIN block |->
     <<block[i].kind>>
       \o (IF block[i].kind \in ControlKinds /\ depth > 0
           THEN <<ControlSignature(block[i].body, depth - 1)>> ELSE <<>>)]

KindLength(kind) ==
  CASE kind = "MULTI_ZERO" \/ kind = "MULTIPLY_LOOP" -> 2
    [] kind = "NONNULL_MULTIPLY_LOOP" -> 3
    [] OTHER -> 1

RECURSIVE SignatureLength(_, _)
SignatureLength(block, depth) ==
  LET of(i) == KindLength(block[i].kind) + (IF i = 1 THEN 0 ELSE 1)
                 + (IF block[i].kind \in ControlKinds /\ depth > 0
                    THEN 2 + SignatureLength(block[i].body, depth - 1) ELSE 0)
  IN  FoldLeftDomain(LAMBDA sum, i : sum + of(i), 0, block)

\* The report is given up when a candidate's signature overflows its buffer.
ControlCollects(block) ==
  \A n \in ToSet(Walk(block)) :
    n.kind = "LOOP" /\ NestedCandidate(n) => SignatureLength(n.body, 2) < SignatureSize

\* bf_collect_control_flow_stats_block
ControlReport(block) ==
  LET all     == Walk(block)
      loops   == SelectSeq(all, LAMBDA n : n.kind = "LOOP")
      ifs     == SelectSeq(all, LAMBDA n : n.kind = "IF")
      blocked == SelectSeq(loops, LAMBDA n : ~RunsOnce(n))
      nested  == SelectSeq(loops, NestedCandidate)
      count(nodes, P(_)) == Len(SelectSeq(nodes, P))
  IN  [loop_count            |-> Len(loops),
       if_count              |-> Len(ifs),
       max_depth             |-> MaxDepth(block),
       loops_with_nested_cf  |-> count(loops, LAMBDA n : Has(n, ControlKinds)),
       ifs_with_nested_cf    |-> count(ifs, LAMBDA n : Has(n, ControlKinds)),
       loops_with_scan       |-> count(loops, LAMBDA n : Has(n, {"SCAN"})),
       loops_with_multiply   |-> count(loops, LAMBDA n : Has(n, MultiplyKinds)),
       loops_with_multi_zero |-> count(loops, LAMBDA n : Has(n, {"MULTI_ZERO"})),
       zero_delta_loops      |-> count(loops, LAMBDA n : Analysis(n).final_offset = 0),
       zero_delta_ifs        |-> count(ifs, LAMBDA n : Analysis(n).final_offset = 0),
       if_convertible_loops  |-> count(loops, Convertible),
       nested_cf_only_candidate_loops |-> Len(nested),
       scan_blocked_loops    |-> count(blocked, LAMBDA n : Has(n, {"SCAN"})),
       origin_blocked_loops  |-> count(blocked, LAMBDA n : Analysis(n).touches_origin_badly),
       delta_blocked_loops   |-> count(blocked, LAMBDA n : Analysis(n).final_offset # 0),
       origin_not_zero_blocked_loops |-> count(blocked, LAMBDA n : ~Analysis(n).origin_zero),
       signatures            |-> Occurrences([i \in DOMAIN nested |->
                                               ControlSignature(nested[i].body, 2)])]
=============================================================================
