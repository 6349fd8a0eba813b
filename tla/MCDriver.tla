------------------------------- MODULE MCDriver -------------------------------
(***************************************************************************)
(* The command with real programs, parsed, optimised and reported on, in   *)
(* all its modes.                                                          *)
(***************************************************************************)
EXTENDS BFDriver, BFStats, MCSources

\* The programs of the other runs, some others, and one that does not parse.
DriverStrings == {
  "+[>[.-]<[-]]",                       \* an if inside keeps it a loop
  "+[>[[-]],<[-]]",
  "+[>.>[-]<<[>+<[-]]]",
  "+[>[-<+>]<[-]]",
  "+[>]>[>[-]<[-]]",
  "]"}

MCSourceSet == Sources \union {Chars(s) : s \in DriverStrings}

Balanced(text) == Depth(text) = 0
-----------------------------------------------------------------------------
\* The dump finds nothing left to do behind the optimiser: by main.c's own
\* analysis no loop of the optimised program could still become an if, and every
\* if is one that could.
ConvertibleLoopsAreConverted ==
  (mode = "control" /\ Len(reports) = 2) =>
    LET before == reports[1]  after == reports[2]
    IN  /\ after.if_convertible_loops = 0
        /\ after.ifs_with_nested_cf = 0
        /\ after.zero_delta_ifs = after.if_count
        /\ before.if_count = 0
        /\ after.loop_count + after.if_count <= before.loop_count

\* The simple segments that are reported hold every simple node of the program, in
\* whatever loop, once: no two share a node and none is cut short.
EveryNodeIsReported ==
  (mode = "segments" /\ reports # <<>>) =>
    LET report == reports[1]
        simple == SelectSeq(Walk(program), IsSegmentNode)
        each(s) == report.signatures[s] * Len(s)
    IN  /\ report.total_nodes = Len(simple)
        /\ MapThenSumSet(each, DOMAIN report.signatures) = Len(simple)
=============================================================================
