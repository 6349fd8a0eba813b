------------------------------- MODULE BFTape -------------------------------
(***************************************************************************)
(* The tape that the interpreter runs on and that a scan searches: the     *)
(* array main allocates, as long as its tape size says.                    *)
(***************************************************************************)
EXTENDS BFIR

CONSTANT TapeSize      \* number of cells

ASSUME TapeAssumption == TapeSize \in Nat \ {0}

VARIABLE tape

Index == 0 .. TapeSize - 1
=============================================================================
