----------------------------- MODULE BFContract -----------------------------
(***************************************************************************)
(* What a user may rely on when a program is executed, by the interpreter  *)
(* or natively, whatever the optimiser made of it: the input and output    *)
(* events are those of the program as written, in the same order, and the  *)
(* final tape is its final tape.                                           *)
(*                                                                         *)
(* expected is the meaning of the program (BFReference).  A program that   *)
(* faults promises its events before the fault and nothing of what follows *)
(* it: the parser may even have cancelled the access out (<+->).           *)
(***************************************************************************)
EXTENDS Sequences, SequencesExt, Integers

VARIABLES
  expected,   \* [ending, io, tape, pointer]: what the program should do
  io,         \* the events so far
  answer,     \* what the caller has got: [status, pointer, tape]
  excused     \* the execution may give up: a resource outside it has failed

contractVars == <<expected, io, answer, excused>>

NoAnswer == [status |-> "running", pointer |-> 0, tape |-> <<>>]

ContractInit ==
  /\ io = <<>>
  /\ answer = NoAnswer
  /\ excused = FALSE

Executing == answer.status = "running"

Faults == expected.ending = "fault"

\* Every event the program certainly performs has happened.
AllOut == Len(io) >= Len(expected.io)

\* One more event: the next one the program should perform.
Event ==
  /\ Executing
  /\ Len(io') = Len(io) + 1
  /\ IsPrefix(io, io')
  /\ IF AllOut THEN Faults ELSE Last(io') = expected.io[Len(io')]
  /\ UNCHANGED <<expected, answer, excused>>

\* The end, with the program's own final tape.
Finish ==
  /\ Executing
  /\ AllOut
  /\ answer'.status = "done"
  /\ Faults \/ (answer'.pointer = expected.pointer /\ answer'.tape = expected.tape)
  /\ UNCHANGED <<expected, io, excused>>

\* An error, of a program that faults.
Fault ==
  /\ Executing
  /\ AllOut
  /\ Faults
  /\ answer' = [NoAnswer EXCEPT !.status = "failed"]
  /\ UNCHANGED <<expected, io, excused>>

\* An error for a reason outside the program.
GiveUp ==
  /\ Executing
  /\ excused'
  /\ answer' = [NoAnswer EXCEPT !.status = "failed"]
  /\ UNCHANGED <<expected, io>>

ContractNext == Event \/ Finish \/ Fault \/ GiveUp

ContractSpec == ContractInit /\ [][ContractNext]_contractVars
=============================================================================
