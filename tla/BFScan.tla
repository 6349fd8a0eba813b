------------------------------- MODULE BFScan -------------------------------
(***************************************************************************)
(* How a scan finds its zero cell: bf_runtime_scan_index, a cell a turn,   *)
(* and bf_runtime_scan_index_step4, four cells a turn as long as the last  *)
(* of them is on the tape, then a cell a turn.  BFRuntime takes a scan in  *)
(* one step; here is what makes that step right.  (A scan by one is the C  *)
(* library's memchr.)                                                      *)
(***************************************************************************)
EXTENDS BFTape

CONSTANTS
  Tapes,      \* what the tape may hold
  Steps       \* the distances scanned by

ASSUME TapesAssumption == Tapes \subseteq [0 .. TapeSize - 1 -> Cell]
ASSUME StepsAssumption == Steps \subseteq Int \ {1}

VARIABLES
  start, step,        \* the arguments, besides the tape
  at,                 \* "called", a loop ("turns of four", "cells"), "returned"
  index,              \* the loops' local
  answer,             \* the index returned, TapeSize for none
  reads               \* history: the cells read

scanVars == <<tape, start, step, at, index, answer, reads>>
args == <<tape, start, step>>

\* Off the tape there is no cell to find; ReadsOnTape tells of such a read.
IsHit(i) == i \in Index /\ tape[i] = 0

ScanInit ==
  /\ tape \in Tapes
  /\ start \in Index      \* the interpreter's pointer
  /\ step \in Steps
  /\ at = "called"
  /\ index = start
  /\ answer = TapeSize
  /\ reads = {}

Answer(i) ==
  /\ at' = "returned"
  /\ answer' = i
  /\ UNCHANGED <<args, index>>

\* Mutant: the index stays where the next one would be off the tape.
AdvanceInside(i) ==
  /\ index' = IF i \in Index THEN i ELSE index
  /\ UNCHANGED <<args, at, answer>>

Advance(i) ==
  /\ index' = i
  /\ UNCHANGED <<args, at, answer>>

\* The function for the step is called: a step of zero finds nothing.
Call ==
  /\ at = "called"
  /\ \/ /\ step = 0
        /\ Answer(TapeSize)
     \/ /\ step # 0
        /\ at' = IF step = 4 THEN "turns of four" ELSE "cells"
        /\ UNCHANGED <<args, index, answer>>
  /\ UNCHANGED reads

\* Mutant: the last cell of a turn may be the one past the tape.
TurnFitsLoosely(i) == i + 12 <= TapeSize

TurnFits(i) == i + 12 < TapeSize

\* Mutant: the third cell of a turn is forgotten.
TurnOffsetsShort == {0, 4, 12}

\* The cells of a turn, and those of them that end the scan.
TurnOffsets == {0, 4, 8, 12}
Hits == {d \in TurnOffsets : IsHit(index + d)}

\* A turn reads up to its first zero cell, or all four.
TurnOfFour ==
  /\ at = "turns of four" /\ TurnFits(index)
  /\ \/ /\ Hits # {}
        /\ Answer(index + Least(Hits))
        /\ reads' = reads \union {index + d : d \in {e \in TurnOffsets : e <= Least(Hits)}}
     \/ /\ Hits = {}
        /\ Advance(index + 16)
        /\ reads' = reads \union {index + d : d \in TurnOffsets}

LeaveTurns ==
  /\ at = "turns of four" /\ ~TurnFits(index)
  /\ at' = "cells"
  /\ UNCHANGED <<args, index, answer, reads>>

(***************************************************************************)
(* One cell: the loop of bf_runtime_scan_index, and the second one of      *)
(* bf_runtime_scan_index_step4, which ends where the next cell would be    *)
(* off the tape, a turn before the other.                                  *)
(***************************************************************************)
\* Mutant: the last cell of the tape is taken for one off it.
LastCellEarly == step = 4 /\ index + 4 >= TapeSize - 1

LastCell == step = 4 /\ index + 4 >= TapeSize

CellHits ==
  /\ at = "cells" /\ index \in Index /\ IsHit(index)
  /\ Answer(index)
  /\ reads' = reads \union {index}

CellPassed ==
  /\ at = "cells" /\ index \in Index /\ ~IsHit(index)
  /\ \/ /\ LastCell
        /\ Answer(TapeSize)
     \/ /\ ~LastCell
        /\ Advance(index + step)
  /\ reads' = reads \union {index}

RunsOut ==
  /\ at = "cells" /\ index \notin Index
  /\ Answer(TapeSize)
  /\ UNCHANGED reads

ScanReturned == at = "returned" /\ UNCHANGED scanVars

ScanStep == Call \/ TurnOfFour \/ LeaveTurns \/ CellHits \/ CellPassed \/ RunsOut

ScanNext == ScanStep \/ ScanReturned

ScanSpec == ScanInit /\ [][ScanNext]_scanVars

\* A function that runs on one thread that nothing blocks.
ScanFairSpec == ScanSpec /\ WF_scanVars(ScanStep)
-----------------------------------------------------------------------------
(* Properties.                                                             *)

Path  == StrideOn(start, step, TapeSize)
Zeros  == {i \in Path : tape[i] = 0}

\* The cells of the stride that the scan has left behind.
Behind == {i \in Path : IF step > 0 THEN i < index ELSE i > index}

ScanTypeOK ==
  /\ tape \in Tapes /\ start \in Index /\ step \in Steps
  /\ at \in {"called", "turns of four", "cells", "returned"}
  /\ index \in Int
  /\ answer \in 0 .. TapeSize
  /\ reads \subseteq Index

\* No cell off the tape is read, though a turn of four tests its last cell
\* only, and the other loop the index it has.
ReadsOnTape == reads \subseteq Index

\* While a scan goes on its index is on the stride, it has read every cell
\* behind it, each once it was known to be on the tape, and all were nonzero:
\* a turn skips nothing.
PathSoFar ==
  /\ index \in Index => index \in Path
  /\ IF step > 0 THEN index >= start ELSE index <= start
  /\ at = "called" => index = start
  /\ at = "turns of four" => step = 4
  /\ at = "cells" => step # 0
  /\ at # "returned" => reads = Behind /\ Behind \intersect Zeros = {}

\* The step BFRuntime!Scan takes at once: the first zero cell of the stride, if
\* there is one, after reading the cells up to it and no others.
ActsAsOneStep ==
  at = "returned" =>
    LET stops == step # 0 /\ Zeros # {}
    IN  /\ answer = IF stops THEN FirstOf(Zeros, step) ELSE TapeSize
        /\ reads = {i \in Path : /\ step # 0
                                 /\ stops => Between(i, start, FirstOf(Zeros, step))}

\* Every scan returns, whether or not there is a zero cell on its way.
Returns == <>(at = "returned")
=============================================================================
