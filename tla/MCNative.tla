------------------------------- MODULE MCNative -------------------------------
(***************************************************************************)
(* The same programs compiled for x86-64 and executed natively, held       *)
(* against the same meaning as the interpreter.  The tape is longer, so    *)
(* that scans by four and by nine take all their ways.                     *)
(***************************************************************************)
EXTENDS BFNative, MCSources

\* Ifs that are emitted with a multiply tail are compiled too.
CONSTANT TailsToo

VARIABLE expected   \* the meaning of the program that runs

mcVars == <<vars, expected>>

\* A program whose ifs with a multiply tail work: rsi happens to hold the tape's
\* address, from an earlier multiply loop, and the factors are 1 or -1.
LuckyTails == {Chars("+[->+<]+[[->+<]>+<]>.")}

\* And the others.
UnluckyTails == {Chars("+[[->+<]>+++<]."), Chars("+[->+<]+[[->++<]>+<]>.")}

RECURSIVE HasTail(_)
HasTail(block) ==
  \E i \in DOMAIN block : HasMultiplyTail(block[i]) \/ HasTail(block[i].body)

MCSourceSet ==
  {source \in NativeSources : ~HasTail(Optimized(source))} \union LuckyTails
    \union (IF TailsToo THEN UnluckyTails ELSE {})

MCPrograms == {Optimized(source) : source \in MCSourceSet}
MCNode     == UNION {NodesOf(program) : program \in MCPrograms}
MCInputs   == {<<>>, <<1, 0>>, <<2>>}

\* The emitter's fields start out cleared, or as memory has left them.
Cleared  == {NoScope}
Leftover == {NoScope, [active |-> TRUE, min |-> -1, max |-> 2]}

\* What the proofs suppose of the programs, which the optimiser sees to.
ASSUME MCProgramsAssumption ==
  /\ \A n \in Node : NonnullIsFirst(n)
  /\ \A program \in Programs : NoNonnull(program)

MCInit ==
  \E source \in MCSourceSet, scope \in Scopes :
    \E stdin \in IF ReadsInput(source) THEN Inputs ELSE {<<>>} :
      /\ expected = Meaning(source, stdin, Fuel)
      /\ expected.ending # "unknown"
      /\ Start(Optimized(source), scope, stdin)

MCNext == Next /\ UNCHANGED expected

MCSpec == MCInit /\ [][MCNext]_mcVars /\ WF_mcVars(Step /\ UNCHANGED expected)
-----------------------------------------------------------------------------
\* The generated code does what the program as written does: the same events in
\* the same order, and the same final tape and pointer, with the pointer's moves
\* deferred, runs of stores merged and loops' tests doubled; or nothing at all,
\* when its code does not fit.
Answer ==
  [status  |-> result.status,
   pointer |-> IF result.status = "done" THEN result.value ELSE 0,
   tape    |-> IF result.status = "done" THEN tape ELSE <<>>]

Contract == INSTANCE BFContract WITH answer <- Answer, excused <- result.status = "failed" /\ pc = 0 /\ Overflows

MeansWhatItSays == Contract!ContractSpec

\* The generated code of a program that ends comes to its epilogue.
Terminates == <>(~Running)
=============================================================================
