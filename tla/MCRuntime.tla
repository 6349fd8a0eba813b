------------------------------ MODULE MCRuntime ------------------------------
(***************************************************************************)
(* Source programs, parsed and optimised, run by the profiled interpreter  *)
(* and held against what the reference machine says they mean.             *)
(***************************************************************************)
EXTENDS BFOptimized, MCSources

VARIABLE expected   \* the meaning of the program that runs

mcVars == <<vars, expected>>

MCPrograms == {Optimized(source) : source \in Sources}
MCNode     == UNION {NodesOf(program) : program \in MCPrograms}
MCInputs   == {<<>>, <<1, 0>>, <<2>>}

ASSUME MCProgramsAssumption == OptimizedPrograms

MCInit ==
  \E source \in Sources : \E stdin \in IF ReadsInput(source) THEN Inputs ELSE {<<>>} :
    /\ expected = Meaning(source, stdin, Fuel)
    /\ expected.ending # "unknown"
    /\ Start(Optimized(source), stdin)

MCNext == Next /\ UNCHANGED expected

MCSpec == MCInit /\ [][MCNext]_mcVars /\ WF_mcVars(Step /\ UNCHANGED expected)
-----------------------------------------------------------------------------
\* The interpreter, running the optimised program, is the program as written:
\* the same events in the same order and the same final tape, an error only
\* where that faults (or where a profile record failed).
Answer ==
  [status  |-> result.status,
   pointer |-> IF result.status = "done" THEN result.value ELSE 0,
   tape    |-> IF result.status = "done" THEN tape ELSE <<>>]

Contract == INSTANCE BFContract WITH answer <- Answer, excused <- unrecorded

MeansWhatItSays == Contract!ContractSpec

\* A program that halts is executed to its end.
Terminates == <>(~Running)

\* An error is the program's own: it says so only of a program that faults.
OnlyFaultsFail == result.status = "failed" => expected.ending = "fault"
=============================================================================
