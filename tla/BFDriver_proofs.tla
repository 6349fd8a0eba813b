--------------------------- MODULE BFDriver_proofs ---------------------------
(***************************************************************************)
(* Whatever fails in a run of the command, everything it acquires is given *)
(* back once and not used afterwards, and code is only called when ready.  *)
(* The invariant says what is held at each place of main and its callees.  *)
(***************************************************************************)
EXTENDS BFDriver, SequenceTheorems, TLAPS

Executing == mode \in {"profile", "execute"}

Reading     == {"arguments", "open", "measure", "read", "unreadable", "parse"}
Compiling   == {"compile", "emit", "jit error"}
Dumping     == {"open output", "write output", "close output"}
AtExecution == {"tape", "lock", "run", "unlock", "profile", "free tape"}
Places      == Reading \union {"optimize", "report", "leave", "exit"}
                 \union Compiling \union Dumping \union AtExecution

\* Which modes come to which place.
ModeFits ==
  /\ mode \in Modes /\ pc \in Places
  /\ pc \in {"arguments", "exit"} \/ mode # "usage"
  /\ pc \in Compiling => mode \in {"dump jit", "execute"}
  /\ pc \in Dumping => mode = "dump jit"
  /\ pc \in AtExecution => Executing
  /\ pc = "profile" => mode = "profile"
  /\ pc = "report" => mode \in {"multiply", "segments", "control"}

\* Where each resource is held.
HoldsSource  == pc \notin {"arguments", "open", "measure", "unreadable", "exit"}
HoldsProgram == HoldsSource /\ pc \notin {"read", "parse"}
HoldsTape    == \/ pc \in AtExecution \ {"tape"}
                \/ pc \in Compiling /\ mode = "execute"
HoldsCode    == \/ pc \in Dumping \union {"emit"}
                \/ pc \in {"lock", "run", "unlock"} /\ mode = "execute"

HoldsRight ==
  /\ held \subseteq Resources
  /\ "stream" \in held <=> pc \in {"measure", "read"}
  /\ "src" \in held <=> HoldsSource
  /\ "program" \in held <=> HoldsProgram
  /\ "tape" \in held <=> HoldsTape
  /\ "code" \in held <=> HoldsCode
  /\ "output" \in held <=> pc \in {"write output", "close output"}
  /\ "profile" \in held <=> pc \in {"unlock", "profile"} /\ mode = "profile"
  /\ "stdout lock" \in held <=> pc \in {"run", "unlock"}
  /\ "stdin lock" \in held <=> pc \in {"run", "unlock"}

\* The buffer is emitted, and executable, from Emit on.
BufferFits ==
  /\ access = "execute" \/ pc = "emit"
  /\ pc \in {"lock", "run"} /\ mode = "execute" => buffer = "emitted"

\* What has been printed: nothing but the reports left out is complained about
\* before exitCode says so, and a report is printed or left out once each time.
Messages == {"usage", "failed to read", "parse err", "failed to collect", "jit err",
             "failed to allocate tape", "runtime err"}

Lists ==
  /\ said \in Seq(Messages)
  /\ \E R : reports \in Seq(R)

Silent  == said = <<>> /\ exitCode = 0
Quiet   == Silent /\ failed = {} /\ reports = <<>>

Quietly   == {"arguments", "open", "measure", "read", "parse", "compile", "emit", "tape", "lock", "run",
              "open output", "write output", "close output"}

Blamed == exitCode = 1 /\ Len(said) = 1

Done ==
  /\ exitCode = 0 /\ failed \subseteq {"fclose output"} /\ OnlyLeftOut
  /\ mode = "dump jit" => file = "whole" \/ failed # {}
  /\ mode \in {"multiply", "segments"} => Printed = 1
  /\ mode = "control" => Printed = 2

Honest ==
  /\ Lists
  /\ pc \in Quietly => Quiet
  /\ pc \in {"unreadable", "jit error"} => Silent
  /\ pc = "jit error" => failed # {}
  /\ pc \in {"unlock", "profile"} => Silent /\ failed \subseteq {"run"}
  /\ pc \in {"optimize", "report"} => exitCode = 0 /\ failed = {} /\ OnlyLeftOut
  /\ pc = "optimize" => IF mode = "control" THEN Printed = 1 ELSE Quiet
  /\ pc = "report" => IF mode = "control" THEN Printed \in {0, 1} ELSE Quiet
  /\ pc \in {"free tape", "leave", "exit"} => Blamed \/ Done

Careful == ModeFits /\ HoldsRight /\ misused = FALSE /\ BufferFits
-----------------------------------------------------------------------------
\* At first nothing is held and nothing has gone wrong (the start of main).
LEMMA InitCareful == Init => Careful
  BY DEF Init, Careful, ModeFits, HoldsRight, BufferFits, HoldsSource, HoldsProgram, HoldsTape,
         HoldsCode, Places, Reading, Compiling, Dumping, AtExecution, Executing, Modes, Resources

\* Reading, parsing, optimising and the reports keep the books (bf_read_file, main).
LEMMA ReadCareful == Careful /\ Read => Careful'
  <1> USE DEF Careful, ModeFits, HoldsRight, BufferFits, HoldsSource, HoldsProgram, HoldsTape,
         HoldsCode, Places, Reading, Compiling, Dumping, AtExecution, Executing, Modes, Resources,
         At, Goto, Handle, Uses, Gives, Takes, SameProgram, NoCode, NoOutput
  <1> SUFFICES ASSUME Careful, Read PROVE Careful'
    OBVIOUS
  <1>1. CASE Arguments BY <1>1 DEF Arguments
  <1>2. CASE OpenSource BY <1>2 DEF OpenSource
  <1>3. CASE MeasureSource BY <1>3 DEF MeasureSource
  <1>4. CASE ReadSource BY <1>4 DEF ReadSource
  <1>5. CASE ComplainUnreadable BY <1>5 DEF ComplainUnreadable
  <1>6. CASE ParseFile BY <1>6 DEF ParseFile
  <1>7. CASE OptimizeProgram
    <2>1. CASE mode \in {"multiply", "segments", "control"} BY <1>7, <2>1 DEF OptimizeProgram
    <2>2. CASE mode = "dump jit" BY <1>7, <2>2 DEF OptimizeProgram
    <2>3. CASE mode \notin {"multiply", "segments", "control"} /\ mode # "dump jit"
      <3>1. pc' = "tape" /\ mode' = mode /\ pc = "optimize"
        BY <1>7, <2>3 DEF OptimizeProgram
      <3>2. mode \in {"profile", "execute"}
        BY <2>3, <3>1
      <3> QED BY <1>7, <3>1, <3>2 DEF OptimizeProgram
    <2> QED BY <2>1, <2>2, <2>3
  <1>8. CASE DumpReport BY <1>8 DEF DumpReport, AfterReport
  <1> QED BY <1>1, <1>2, <1>3, <1>4, <1>5, <1>6, <1>7, <1>8 DEF Read

\* So do the calls that make, dump and dispose of the code (bfjit.c, bfjit_backend.c).
LEMMA CompileCareful == Careful /\ Compile => Careful'
  <1> USE DEF Careful, ModeFits, HoldsRight, BufferFits, HoldsSource, HoldsProgram, HoldsTape,
         HoldsCode, Places, Reading, Compiling, Dumping, AtExecution, Executing, Modes, Resources,
         At, Goto, Handle, Uses, Gives, Takes, SameProgram, NoCode, NoOutput
  <1> SUFFICES ASSUME Careful, Compile PROVE Careful'
    OBVIOUS
  <1>1. CASE MapBuffer BY <1>1 DEF MapBuffer
  <1>2. CASE Emit BY <1>2 DEF Emit
  <1>3. CASE OpenOutput BY <1>3 DEF OpenOutput
  <1>4. CASE WriteOutput BY <1>4 DEF WriteOutput
  <1>5. CASE CloseOutput BY <1>5 DEF CloseOutput
  <1>6. CASE ComplainJit BY <1>6 DEF ComplainJit
  <1> QED BY <1>1, <1>2, <1>3, <1>4, <1>5, <1>6 DEF Compile

\* And those that allocate the tape and execute the program (main, bf_jit_execute_program).
LEMMA ExecuteCareful == Careful /\ Execute => Careful'
  <1> USE DEF Careful, ModeFits, HoldsRight, BufferFits, HoldsSource, HoldsProgram, HoldsTape,
         HoldsCode, Places, Reading, Compiling, Dumping, AtExecution, Executing, Modes, Resources,
         At, Goto, Handle, Uses, Gives, Takes, SameProgram, NoCode, NoOutput, Locks
  <1> SUFFICES ASSUME Careful, Execute PROVE Careful'
    OBVIOUS
  <1>1. CASE AllocateTape BY <1>1 DEF AllocateTape
  <1>2. CASE LockStreams BY <1>2 DEF LockStreams
  <1>3. CASE RunProgram
    <2>1. CASE mode = "profile"
      <3>1. held' = held \union {"profile"} /\ mode' = mode /\ pc = "run" /\ pc' = "unlock"
        BY <1>3, <2>1 DEF RunProgram
      <3>2. misused' = FALSE
        BY <1>3, <2>1, <3>1 DEF RunProgram
      <3>3. access' = access /\ buffer' = buffer
        BY <1>3 DEF RunProgram
      <3> QED BY <2>1, <3>1, <3>2, <3>3
    <2>2. CASE mode = "execute" BY <1>3, <2>2 DEF RunProgram
    <2> QED BY <1>3, <2>1, <2>2 DEF RunProgram
  <1>4. CASE UnlockStreams BY <1>4 DEF UnlockStreams
  <1>5. CASE DumpProfile BY <1>5 DEF DumpProfile
  <1>6. CASE FreeTape BY <1>6 DEF FreeTape
  <1> QED BY <1>1, <1>2, <1>3, <1>4, <1>5, <1>6 DEF Execute

\* Every step of the command keeps the books.
LEMMA StepCareful == Careful /\ [Next]_vars => Careful'
  <1> SUFFICES ASSUME Careful, [Next]_vars PROVE Careful'
    OBVIOUS
  <1>1. CASE Leave
    BY <1>1 DEF Leave, Careful, ModeFits, HoldsRight, BufferFits, HoldsSource, HoldsProgram,
         HoldsTape, HoldsCode, Places, Reading, Compiling, Dumping, AtExecution, Executing, Modes,
         Resources, At, Goto, Handle, Gives, SameProgram, NoCode, NoOutput
  <1>2. CASE UNCHANGED vars
    BY <1>2 DEF vars, Careful, ModeFits, HoldsRight, BufferFits, HoldsSource, HoldsProgram,
         HoldsTape, HoldsCode, Executing
  <1> QED
    BY <1>1, <1>2, ReadCareful, CompileCareful, ExecuteCareful DEF Next, Step, Exited
-----------------------------------------------------------------------------
\* The types every step keeps by itself.
LEMMA StepTyped == TypeOK /\ Careful /\ [Next]_vars => TypeOK'
  <1> SUFFICES ASSUME TypeOK, Careful, [Next]_vars PROVE TypeOK'
    OBVIOUS
  <1>1. mode' \in Modes /\ held' \subseteq Resources /\ access' \in {"write", "execute"}
        /\ misused' \in BOOLEAN
    <2>1. Careful'
      BY StepCareful
    <2>2. access' \in {"write", "execute"}
      BY DEF Next, Step, Exited, Read, Compile, Execute, vars, NoCode, TypeOK, Arguments, OpenSource,
         MeasureSource, ReadSource, ComplainUnreadable, ParseFile, OptimizeProgram, DumpReport,
         MapBuffer, Emit, OpenOutput, WriteOutput, CloseOutput, ComplainJit, AllocateTape,
         LockStreams, RunProgram, UnlockStreams, DumpProfile, FreeTape, Leave
    <2>3. misused' \in BOOLEAN
      BY <2>1 DEF Careful
    <2> QED BY <2>1, <2>2, <2>3 DEF Careful, ModeFits, HoldsRight
  <1>2. buffer' \in {"none", "mapped", "emitted"}
      BY DEF Next, Step, Exited, Read, Compile, Execute, vars, NoCode, TypeOK, Arguments, OpenSource,
         MeasureSource, ReadSource, ComplainUnreadable, ParseFile, OptimizeProgram, DumpReport,
         MapBuffer, Emit, OpenOutput, WriteOutput, CloseOutput, ComplainJit, AllocateTape,
         LockStreams, RunProgram, UnlockStreams, DumpProfile, FreeTape, Leave
  <1>3. file' \in {"none", "empty", "buffered", "partial", "whole"}
      BY DEF Next, Step, Exited, Read, Compile, Execute, vars, NoOutput, TypeOK, Arguments, OpenSource,
         MeasureSource, ReadSource, ComplainUnreadable, ParseFile, OptimizeProgram, DumpReport,
         MapBuffer, Emit, OpenOutput, WriteOutput, CloseOutput, ComplainJit, AllocateTape,
         LockStreams, RunProgram, UnlockStreams, DumpProfile, FreeTape, Leave
  <1>4. exitCode' \in {0, 1}
    <2>1. exitCode' \in {exitCode, 0, 1}
      <3>1. CASE Read
        BY <3>1 DEF Read, Fine, Fails, Complains, Arguments, OpenSource, MeasureSource, ReadSource,
                    ComplainUnreadable, ParseFile, OptimizeProgram, DumpReport
      <3>2. CASE Compile
        BY <3>2 DEF Compile, Fine, Fails, Complains, MapBuffer, Emit, OpenOutput, WriteOutput,
                    CloseOutput, ComplainJit
      <3>3. CASE Execute
        BY <3>3 DEF Execute, Fine, Fails, Complains, AllocateTape, LockStreams, RunProgram,
                    UnlockStreams, DumpProfile, FreeTape
      <3> QED BY <3>1, <3>2, <3>3 DEF Next, Step, Exited, vars, Leave, Fine
    <2> QED BY <2>1 DEF TypeOK
  <1> QED BY <1>1, <1>2, <1>3, <1>4 DEF TypeOK
-----------------------------------------------------------------------------
\* A sequence of anything is one longer when something is appended to it.
LEMMA Longer ==
  ASSUME NEW R, NEW s \in Seq(R), NEW e
  PROVE  Append(s, e) \in Seq(R \union {e}) /\ Len(Append(s, e)) = Len(s) + 1
  <1>1. s \in Seq(R \union {e})
    OBVIOUS
  <1> QED BY <1>1

\* Messages and reports stay sequences.
LEMMA StepLists == Lists /\ [Next]_vars => Lists'
  <1> SUFFICES ASSUME Lists, [Next]_vars PROVE Lists'
    OBVIOUS
  <1>1. said' \in Seq(Messages)
    <2>1. said' = said \/ \E m \in Messages : said' = Append(said, m)
      <3>1. CASE Read
        BY <3>1 DEF Messages, Read, Fine, Fails, Complains, Arguments, OpenSource, MeasureSource, ReadSource,
                    ComplainUnreadable, ParseFile, OptimizeProgram, DumpReport
      <3>2. CASE Compile
        BY <3>2 DEF Messages, Compile, Fine, Fails, Complains, MapBuffer, Emit, OpenOutput, WriteOutput,
                    CloseOutput, ComplainJit
      <3>3. CASE Execute
        BY <3>3 DEF Messages, Execute, Fine, Fails, Complains, AllocateTape, LockStreams, RunProgram,
                    UnlockStreams, DumpProfile, FreeTape
      <3> QED BY <3>1, <3>2, <3>3 DEF Next, Step, Exited, vars, Leave, Fine
    <2> QED BY <2>1 DEF Lists
  <1>2. \E R : reports' \in Seq(R)
    <2>1. reports' \in {reports, Append(reports, Report), Append(reports, "profile")}
      <3>1. CASE Read
        BY <3>1 DEF Read, NoOutput, Arguments, OpenSource, MeasureSource, ReadSource,
                    ComplainUnreadable, ParseFile, OptimizeProgram, DumpReport
      <3>2. CASE Compile
        BY <3>2 DEF Compile, NoOutput, MapBuffer, Emit, OpenOutput, WriteOutput, CloseOutput, ComplainJit
      <3>3. CASE Execute
        BY <3>3 DEF Execute, NoOutput, AllocateTape, LockStreams, RunProgram, UnlockStreams,
                    DumpProfile, FreeTape
      <3> QED BY <3>1, <3>2, <3>3 DEF Next, Step, Exited, vars, Leave, NoOutput
    <2>2. PICK R : reports \in Seq(R)
      BY DEF Lists
    <2>3. \A r : Append(reports, r) \in Seq(R \union {r})
      BY <2>2, Longer
    <2> QED BY <2>1, <2>2, <2>3
  <1> QED BY <1>1, <1>2 DEF Lists

\* At first nothing has been printed and nothing failed.
LEMMA InitHonest == Init => Honest
  <1> SUFFICES ASSUME Init PROVE Honest
    OBVIOUS
  <1>1. Lists
    BY DEF Init, Lists
  <1> QED BY <1>1 DEF Init, Honest, Quiet, Silent, Quietly

\* The sums and numbers needed below.
LEMMA Counting ==
  /\ 0 + 0 = 0 /\ 0 + 1 = 1 /\ 1 + 1 = 2
  /\ \A n : n = 0 => ~(n = 1)
  /\ \A a, b \in Nat : /\ a + b \in Nat
                       /\ (a + 1) + b = (a + b) + 1
                       /\ a + (b + 1) = (a + b) + 1
  OBVIOUS

\* What is appended comes last and the rest stays.
LEMMA Appended ==
  ASSUME NEW R, NEW s \in Seq(R), NEW e \in R
  PROVE  \A i \in DOMAIN Append(s, e) :
            (i \in DOMAIN s /\ Append(s, e)[i] = s[i]) \/ Append(s, e)[i] = e
  OBVIOUS

\* Neither messages nor reports so far.
LEMMA NothingSaid ==
  /\ Silent => OnlyLeftOut
  /\ Quiet => Printed = 0
  <1>1. \A i \in DOMAIN <<>> : FALSE
    OBVIOUS
  <1>2. Len(<<>>) = 0
    OBVIOUS
  <1>3. Silent => OnlyLeftOut
    BY <1>1, Zenon DEF Silent, OnlyLeftOut
  <1>4. Quiet => Printed = 0 + 0
    BY <1>2, Zenon DEF Quiet, Silent, Printed
  <1> QED BY <1>3, <1>4, Counting, Zenon

\* A report counts once, printed or left out.
LEMMA OneMore ==
  ASSUME Lists,
         \/ reports' = Append(reports, Report) /\ said' = said
         \/ reports' = reports /\ said' = Append(said, "failed to collect")
  PROVE  Printed \in Nat /\ Printed' = Printed + 1
  <1>1. PICK R : reports \in Seq(R)
    BY DEF Lists
  <1>2. said \in Seq(Messages)
    BY DEF Lists
  <1>3. Len(reports) \in Nat /\ Len(said) \in Nat
    BY <1>1, <1>2, LenProperties
  <1>4. Len(Append(reports, Report)) = Len(reports) + 1
    BY <1>1, Longer
  <1>5. Len(Append(said, "failed to collect")) = Len(said) + 1
    BY <1>2, Longer
  <1>6. Printed \in Nat
    BY <1>3, Counting, Zenon DEF Printed
  <1>7. CASE reports' = Append(reports, Report) /\ said' = said
    <2>1. Len(reports') + Len(said') = (Len(reports) + 1) + Len(said)
      BY <1>4, <1>7, Zenon
    <2>2. (Len(reports) + 1) + Len(said) = (Len(reports) + Len(said)) + 1
      BY <1>3, Counting, Zenon
    <2> QED BY <1>6, <2>1, <2>2, Zenon DEF Printed
  <1>8. CASE reports' = reports /\ said' = Append(said, "failed to collect")
    <2>1. Len(reports') + Len(said') = Len(reports) + (Len(said) + 1)
      BY <1>5, <1>8, Zenon
    <2>2. Len(reports) + (Len(said) + 1) = (Len(reports) + Len(said)) + 1
      BY <1>3, Counting, Zenon
    <2> QED BY <1>6, <2>1, <2>2, Zenon DEF Printed
  <1> QED BY <1>7, <1>8

\* A left-out report adds no other message.
LEMMA LeftOutStays ==
  ASSUME Lists, OnlyLeftOut, said' = Append(said, "failed to collect")
  PROVE  OnlyLeftOut'
  <1>1. said \in Seq(Messages)
    BY DEF Lists
  <1>2. "failed to collect" \in Messages
    BY DEF Messages
  <1>3. \A i \in DOMAIN said' : \/ i \in DOMAIN said /\ said'[i] = said[i]
                                \/ said'[i] = "failed to collect"
    BY <1>1, <1>2, Appended, Zenon
  <1> QED BY <1>3, Zenon DEF OnlyLeftOut

\* A first message is one message.
LEMMA FirstMessage == Silent => \A m : Len(Append(said, m)) = 1
  BY DEF Silent

\* What reading, parsing and the reports say is so.
LEMMA ReadHonest == Careful /\ Honest /\ Lists' /\ Read => Honest'
  <1> USE DEF Honest, Quietly, At, Goto, NoOutput, SameProgram, Fine, Fails, Complains
  <1> SUFFICES ASSUME Careful, Honest, Lists', Read PROVE Honest'
    OBVIOUS
  <1>0. mode \in Modes /\ (pc \in {"arguments", "exit"} \/ mode # "usage")
    BY DEF Careful, ModeFits
  <1>1. CASE Arguments BY <1>0, <1>1, FirstMessage DEF Arguments, Blamed, Quiet, Silent
  <1>2. CASE OpenSource BY <1>0, <1>2 DEF OpenSource, Quiet, Silent
  <1>3. CASE MeasureSource BY <1>0, <1>3 DEF MeasureSource, Quiet, Silent
  <1>4. CASE ReadSource BY <1>0, <1>4 DEF ReadSource, Quiet, Silent
  <1>5. CASE ComplainUnreadable BY <1>5, FirstMessage DEF ComplainUnreadable, Blamed
  <1>6. CASE ParseFile
    <2>1. Quiet
      BY <1>6 DEF ParseFile
    <2>2. CASE pc' = "exit"
      BY <1>6, <2>1, <2>2, FirstMessage DEF ParseFile, Blamed, Quiet
    <2>3. CASE pc' # "exit"
      <3>1. UNCHANGED <<mode, said, exitCode, failed, reports>>
        BY <1>6, <2>3 DEF ParseFile
      <3>2. pc' = IF mode = "control" THEN "report" ELSE "optimize"
        BY <1>6, <2>3 DEF ParseFile
      <3>3. Quiet' /\ Printed' = 0 /\ OnlyLeftOut'
        BY <2>1, <3>1, NothingSaid DEF Quiet, Silent, Printed, OnlyLeftOut
      <3> QED BY <3>1, <3>2, <3>3 DEF Quiet, Silent
    <2> QED BY <2>2, <2>3
  <1>7. CASE OptimizeProgram
    <2>1. UNCHANGED <<mode, said, exitCode, failed, reports>> /\ pc = "optimize"
      BY <1>7 DEF OptimizeProgram
    <2>2. pc' \in {"report", "compile", "tape"}
      BY <1>0, <1>7 DEF OptimizeProgram, Modes
    <2>3. mode = "control" => pc' = "report"
      BY <1>7 DEF OptimizeProgram
    <2> QED BY <2>1, <2>2, <2>3 DEF Quiet, Silent, Printed, OnlyLeftOut
  <1>8. CASE DumpReport
    <2>2. UNCHANGED <<mode, failed>> /\ exitCode' = 0 /\ pc = "report" /\ failed = {}
      BY <1>8 DEF DumpReport
    <2>3. Printed' = Printed + 1 /\ Printed \in Nat
      <3>1. \/ reports' = Append(reports, Report) /\ said' = said
            \/ reports' = reports /\ said' = Append(said, "failed to collect")
        BY <1>8 DEF DumpReport
      <3> QED BY <3>1, OneMore
    <2>4. OnlyLeftOut'
      <3>1. CASE said' = said
        BY <3>1, <1>8 DEF DumpReport, OnlyLeftOut
      <3>2. CASE said' = Append(said, "failed to collect")
        BY <3>2, <1>8, LeftOutStays DEF DumpReport
      <3> QED BY <1>8, <3>1, <3>2 DEF DumpReport
    <2>5. CASE pc' = "optimize"
      <3>1. mode = "control" /\ Printed = 0
        BY <1>8, <2>5 DEF DumpReport, AfterReport, Printed
      <3> QED BY <2>2, <2>3, <2>4, <2>5, <3>1
    <2>6. CASE pc' = "leave"
      <3>1. mode = "control" => Printed = 1
        BY <1>8, <2>2, <2>6 DEF DumpReport, AfterReport, Printed
      <3>2. mode # "control" => Printed = 0
        BY <2>2, NothingSaid
      <3>3. mode # "dump jit"
        BY <2>2 DEF Careful, ModeFits
      <3>4. Printed' = IF mode = "control" THEN 2 ELSE 1
        <4>1. CASE mode = "control"
          <5>1. Printed' = 1 + 1
            BY <2>3, <3>1, <4>1, Zenon
          <5> QED BY <4>1, <5>1, Counting, Zenon
        <4>2. CASE mode # "control"
          <5>1. Printed' = 0 + 1
            BY <2>3, <3>2, <4>2, Zenon
          <5> QED BY <4>2, <5>1, Counting, Zenon
        <4> QED BY <4>1, <4>2
      <3>5. mode' = mode /\ exitCode' = 0 /\ failed' = {}
        BY <2>2
      <3>6. Done'
        BY <2>4, <3>3, <3>4, <3>5 DEF Done
      <3> QED BY <2>6, <3>6
    <2> QED BY <1>8, <2>5, <2>6 DEF DumpReport, AfterReport
  <1> QED BY <1>1, <1>2, <1>3, <1>4, <1>5, <1>6, <1>7, <1>8 DEF Read

\* And of the code.
LEMMA CompileHonest == Careful /\ Honest /\ Lists' /\ Compile => Honest'
  <1> USE DEF Honest, Quietly, At, Goto, NoOutput, SameProgram, Fine, Fails, Complains
  <1> SUFFICES ASSUME Careful, Honest, Lists', Compile PROVE Honest'
    OBVIOUS
  <1>0. /\ pc \in Compiling => mode \in {"dump jit", "execute"}
        /\ pc \in Dumping => mode = "dump jit"
    BY DEF Careful, ModeFits
  <1>1. CASE MapBuffer BY <1>1 DEF MapBuffer, Quiet, Silent
  <1>2. CASE Emit BY <1>2 DEF Emit, Quiet, Silent
  <1>3. CASE OpenOutput BY <1>3 DEF OpenOutput, Quiet, Silent
  <1>4. CASE WriteOutput BY <1>4 DEF WriteOutput, Quiet, Silent
  <1>5. CASE CloseOutput
    <2>1. Quiet /\ mode' = "dump jit" /\ pc' = "leave" /\ UNCHANGED <<said, exitCode>>
      BY <1>0, <1>5 DEF CloseOutput, Dumping
    <2>2. failed' \subseteq {"fclose output"} /\ (file' = "whole" \/ failed' # {})
      BY <1>5, <2>1 DEF CloseOutput, Quiet
    <2>3. OnlyLeftOut'
      BY <2>1, NothingSaid DEF Quiet, OnlyLeftOut
    <2> QED BY <2>1, <2>2, <2>3 DEF Done, Quiet, Silent
  <1>6. CASE ComplainJit
    <2>1. Len(said') = 1 /\ exitCode' = 1
      BY <1>6, FirstMessage DEF ComplainJit
    <2>2. pc' \in {"leave", "free tape"}
      BY <1>6 DEF ComplainJit
    <2> QED BY <2>1, <2>2 DEF Blamed
  <1> QED BY <1>1, <1>2, <1>3, <1>4, <1>5, <1>6 DEF Compile

\* And of the execution.
LEMMA ExecuteHonest == Careful /\ Honest /\ Lists' /\ Execute => Honest'
  <1> USE DEF Honest, Quietly, At, Goto, NoOutput, SameProgram, Fine, Fails, Complains
  <1> SUFFICES ASSUME Careful, Honest, Lists', Execute PROVE Honest'
    OBVIOUS
  <1>0. pc \in AtExecution => mode \in {"profile", "execute"}
    BY DEF Careful, ModeFits, Executing
  <1>1. CASE AllocateTape
    <2>1. Quiet
      BY <1>1 DEF AllocateTape
    <2>2. CASE pc' = "leave"
      BY <1>1, <2>1, <2>2, FirstMessage DEF AllocateTape, Blamed, Quiet
    <2>3. CASE pc' # "leave"
      BY <1>1, <2>1, <2>3 DEF AllocateTape, Quiet, Silent
    <2> QED BY <2>2, <2>3
  <1>2. CASE LockStreams BY <1>2 DEF LockStreams, Quiet, Silent
  <1>3. CASE RunProgram BY <1>3 DEF RunProgram, Quiet, Silent
  <1>4. CASE UnlockStreams
    <2>1. Silent /\ Silent' /\ UNCHANGED <<mode, failed>> /\ failed \subseteq {"run"}
      BY <1>4 DEF UnlockStreams, Silent
    <2>2. CASE pc' = "free tape"
      <3>1. failed = {} /\ mode \in {"profile", "execute"}
        BY <1>0, <1>4, <2>1, <2>2 DEF UnlockStreams, AtExecution
      <3>2. OnlyLeftOut'
        BY <1>4, <2>1, NothingSaid DEF UnlockStreams, OnlyLeftOut
      <3> QED BY <2>1, <2>2, <3>1, <3>2 DEF Done, Silent
    <2>3. CASE pc' # "free tape"
      BY <1>4, <2>1, <2>3 DEF UnlockStreams
    <2> QED BY <2>2, <2>3
  <1>5. CASE DumpProfile
    <2>1. Silent /\ mode' = mode /\ failed' = failed /\ failed \subseteq {"run"} /\ pc' = "free tape"
      BY <1>5 DEF DumpProfile
    <2>2. CASE "run" \in failed
      BY <1>5, <2>1, <2>2, FirstMessage DEF DumpProfile, Blamed
    <2>3. CASE "run" \notin failed
      <3>1. failed = {} /\ mode \in {"profile", "execute"}
        BY <1>0, <1>5, <2>1, <2>3 DEF DumpProfile, AtExecution
      <3>2. UNCHANGED <<said, exitCode>>
        BY <1>5, <2>3 DEF DumpProfile
      <3>3. OnlyLeftOut'
        BY <2>1, <3>2, NothingSaid DEF OnlyLeftOut
      <3> QED BY <2>1, <3>1, <3>2, <3>3 DEF Done, Silent
    <2> QED BY <2>2, <2>3
  <1>6. CASE FreeTape BY <1>6 DEF FreeTape, Printed, OnlyLeftOut, Blamed, Done
  <1> QED BY <1>1, <1>2, <1>3, <1>4, <1>5, <1>6 DEF Execute

\* Every step leaves the exit code and the messages telling what happened.
LEMMA StepHonest == Careful /\ Honest /\ [Next]_vars => Honest'
  <1> SUFFICES ASSUME Careful, Honest, [Next]_vars PROVE Honest'
    OBVIOUS
  <1>1. Lists'
    BY StepLists DEF Honest
  <1>2. CASE Leave
    BY <1>1, <1>2 DEF Leave, Honest, Quiet, Silent, Quietly, At, Goto, NoOutput, SameProgram, Fine,
                      Printed, OnlyLeftOut, Blamed, Done
  <1>3. CASE UNCHANGED vars
    BY <1>1, <1>3 DEF vars, Honest, Quiet, Silent, Quietly, Printed, OnlyLeftOut, Blamed, Done
  <1> QED BY <1>1, <1>2, <1>3, ReadHonest, CompileHonest, ExecuteHonest DEF Next, Step, Exited
-----------------------------------------------------------------------------
\* The state of the command keeps its types, whatever fails.
THEOREM DriverTypeOK == Spec => []TypeOK
  <1>1. Init => TypeOK
    BY DEF Init, TypeOK, Modes, Resources
  <1> QED BY <1>1, InitCareful, StepCareful, StepTyped, PTL DEF Spec

\* Nothing main and its callees acquire is used after it was given back, given
\* back twice or acquired over itself, whichever calls fail.
THEOREM DriverNothingMisused == Spec => []NothingMisused
  <1>1. Careful => NothingMisused
    BY DEF Careful, NothingMisused
  <1> QED BY <1>1, InitCareful, StepCareful, PTL DEF Spec

\* All of it has been given back when main returns, on every way out.
THEOREM DriverNothingLeaks == Spec => []NothingLeaks
  <1>1. Careful => NothingLeaks
    BY DEF Careful, ModeFits, HoldsRight, NothingLeaks, At, HoldsSource, HoldsProgram, HoldsTape,
           HoldsCode, AtExecution, Compiling, Dumping, Resources
  <1> QED BY <1>1, InitCareful, StepCareful, PTL DEF Spec

\* bf_jit_execute_program calls the code only when it is emitted, flushed, mapped and executable.
THEOREM DriverCodeIsReady == Spec => []CodeIsReady
  <1>1. Careful => CodeIsReady
    BY DEF Careful, HoldsRight, BufferFits, HoldsCode, CodeIsReady, At
  <1> QED BY <1>1, InitCareful, StepCareful, PTL DEF Spec

\* main's exit code and messages tell what came of the run, with the exceptions
\* ExitTellsFailure names.
THEOREM DriverExitTellsFailure == Spec => []ExitTellsFailure
  <1>1. Honest => ExitTellsFailure
    <2> SUFFICES ASSUME Honest, pc = "exit" PROVE ExitTellsFailure
      BY DEF ExitTellsFailure, At
    <2>1. Blamed \/ Done
      BY DEF Honest
    <2>2. CASE Blamed
      <3>1. exitCode = 1 /\ Len(said) = 1 /\ ~(exitCode = 0)
        BY <2>2 DEF Blamed
      <3> QED BY <3>1, Zenon DEF ExitTellsFailure
    <2>3. CASE Done
      <3>1. ~(exitCode = 1)
        BY <2>3, Counting, Zenon DEF Done
      <3> QED BY <2>3, <3>1, Zenon DEF ExitTellsFailure, Done
    <2> QED BY <2>1, <2>2, <2>3
  <1> QED BY <1>1, InitCareful, InitHonest, StepCareful, StepHonest, PTL DEF Spec
=============================================================================
