------------------------------- MODULE MCScan -------------------------------
(***************************************************************************)
(* Scans of every tape with at most two zero cells, from every cell.       *)
(***************************************************************************)
EXTENDS BFScan

TapeWith(zeros) == [i \in 0 .. TapeSize - 1 |-> IF i \in zeros THEN 0 ELSE 1]

MCTapes == {TapeWith({a, b}) : a, b \in 0 .. TapeSize}

MCSteps == {-4, -3, -1, 0, 2, 3, 4, 5}
=============================================================================
