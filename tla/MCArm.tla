-------------------------------- MODULE MCArm --------------------------------
(***************************************************************************)
(* The same programs compiled for aarch64, with the optimiser's passes for *)
(* aarch64, executed natively and held against the same meaning.  The      *)
(* immediates are short, so that offsets no immediate holds occur.         *)
(***************************************************************************)
EXTENDS BFArmNative, MCSources

VARIABLE expected   \* the meaning of the program that runs

mcVars == <<vars, expected>>

\* For offsets that fit no immediate, scans that find nothing in the bound's
\* register, and the scans the pass for aarch64 rewrites.
ArmStrings == {
  "+[->>>>>>>>>>>>>>+<<<<<<<<<<<<<<]>>>>>>>>>>>>>>.",    \* terms fourteen cells on,
  ">>>>>>++[-<<<<<<++>>>>>>]<<<<<<.",                    \* six back,
  ".>>>>>>+[-<<<<<<++>>>>>>].",                          \* and with a move pending
  ".>>>>>>+[[-<<<<<<+>>>>>>]].",
  ".>>>>>>>>>>>>>>+.<<<<<<<<<<<<<<.",
  ".>>>>>>>>>>>>>>[-]-<<<<<<<<<<<<<<.",
  ">>>>>>.<<<<<<,[-].>>>>>>.",
  "+>+<[>]",                                             \* scans by one ...
  "+[->+>+<<]>[>].",                                     \* ... behind a counter
  "+[-]+>+[->+<]>>+<[>]",
  ">>>>>>>>>>>>.<<<<<<<<<[>>>>>>>>>]",                   \* by nine from three back ...
  ">>>>>>>>>>>>>.<<<<<<<<<<<<<[>>>>>>>>>]",              \* ... and from thirteen
  "+>.<[>>>>>>>>>].",
  "..>>>>>>>>>>.<<<<<<<<<<<<<<[>>>>>>>>>]",              \* from before the tape
  ">+>+>+[<]>[>]<[<]."}

MCSourceSet == NativeSources \union {Chars(s) : s \in ArmStrings}

MCPrograms == {Optimized(source) : source \in MCSourceSet}
MCNode     == UNION {NodesOf(program) : program \in MCPrograms}
MCInputs   == {<<>>, <<1, 0>>, <<2>>}
Cleared    == {NoScope}

\* What the proofs suppose of the programs, which the optimiser sees to.
ASSUME MCProgramsAssumption ==
  /\ \A n \in Node : NonnullIsFirst(n)
  /\ \A program \in Programs : NoNonnull(program)

MCInit ==
  \E source \in MCSourceSet, scope \in Scopes :
    \E stdin \in IF ReadsInput(source) THEN Inputs ELSE {<<>>} :
      /\ expected = Meaning(source, stdin, Fuel)
      /\ expected.ending # "unknown"
      /\ Start(Optimized(source), scope, stdin)

MCNext == Next /\ UNCHANGED expected

MCSpec == MCInit /\ [][MCNext]_mcVars /\ WF_mcVars(Step /\ UNCHANGED expected)
-----------------------------------------------------------------------------
\* The generated code does what the program as written does: the same events in
\* the same order, and the same final tape and pointer; or nothing at all, when
\* it is refused; or it stops at a comparison that has gone wrong.
Answer ==
  [status  |-> result.status,
   pointer |-> IF result.status = "done" THEN result.value ELSE 0,
   tape    |-> IF result.status = "done" THEN tape ELSE <<>>]

Refused == pc = 0 /\ (Overflows \/ EmissionMayFail(code))

Contract == INSTANCE BFContract WITH
              answer <- Answer,
              excused <- result.status = "failed" /\ (Refused \/ fooled)

MeansWhatItSays == Contract!ContractSpec

\* The generated code of a program that ends comes to its epilogue, unless it has
\* been led off the tape.
Terminates == <>(~Running \/ fooled)

\* An error of the running code is the program's own: it says so only of a
\* program that faults.
OnlyFaultsFail == (result.status = "failed" /\ pc # 0) => expected.ending = "fault"
=============================================================================
