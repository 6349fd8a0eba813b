------------------------------ MODULE BFDriver ------------------------------
(***************************************************************************)
(* The command (main.c) and what it calls to have a program compiled       *)
(* (bfjit.c, bfjit_backend.c): one run of the process, in one of its       *)
(* modes, with every call of the system that may fail.                     *)
(*                                                                         *)
(* held is the set of what has been acquired and must be given back: open  *)
(* streams, allocated memory, the mapping the code is in, the locks of     *)
(* stdin and stdout.  misused becomes TRUE when something is used or given *)
(* back that is not held, or acquired over what is.  Memory a callee       *)
(* allocates and frees itself is not followed.                             *)
(***************************************************************************)
EXTENDS Integers, Sequences

CONSTANTS
  SourceFiles,         \* texts a program file may hold
  WellFormed(_), Parse(_), Optimize(_),     \* of a source; of a root block
  MultiplyStats(_), SegmentStats(_), ControlStats(_),
  SignaturesFit(_)     \* whether the report's signatures fit their buffer

Modes == {"usage", "multiply", "segments", "control", "dump jit", "profile", "execute"}

Resources == {"stream", "src", "program", "tape", "code", "output", "profile",
              "stdout lock", "stdin lock"}

Locks == {"stdout lock", "stdin lock"}

VARIABLES
  mode, source,     \* the arguments, and what is in the file they name
  pc,               \* the call that is made next
  held, misused,
  program,          \* the root block, as parsed and then as optimised
  buffer, access,   \* the code buffer and whether this thread may write or execute it
  reports,          \* what has been printed
  file,             \* the file the code is dumped to
  failed, said,     \* history: calls that failed; messages on stderr
  exitCode

vars == <<mode, source, pc, held, misused, program, buffer, access, reports, file,
          failed, said, exitCode>>

Init ==
  /\ mode \in Modes
  /\ source \in SourceFiles
  /\ pc = "arguments"
  /\ held = {} /\ misused = FALSE
  /\ program = <<>>
  /\ buffer = "none" /\ access = "execute"
  /\ reports = <<>>
  /\ file = "none"
  /\ failed = {} /\ said = <<>>
  /\ exitCode = 0
-----------------------------------------------------------------------------
At(p)   == pc = p
Goto(p) == pc' = p

\* What is used, then given back, then acquired.
Handle(used, given, taken) ==
  /\ held' = (held \ given) \union taken
  /\ misused' = (misused \/ ~(used \union given \subseteq held)
                         \/ ~(taken \subseteq Resources \ (held \ given)))

Uses(used)  == Handle(used, {}, {})
Gives(given) == Handle({}, given, {})
Takes(taken) == Handle({}, {}, taken)

Fine        == UNCHANGED <<failed, said, exitCode>>
Fails(call) == failed' = failed \union {call} /\ UNCHANGED <<said, exitCode>>

\* Mutant: an error is returned negated.
ComplainsNegated(message, code) ==
  said' = Append(said, message) /\ exitCode' = -code /\ UNCHANGED failed

\* A message on stderr, and what main will return.
Complains(message, code) == said' = Append(said, message) /\ exitCode' = code /\ UNCHANGED failed

SameProgram == UNCHANGED <<mode, source, program>>
NoCode      == UNCHANGED <<buffer, access>>
NoOutput    == UNCHANGED <<reports, file>>
-----------------------------------------------------------------------------
(* The program is read and parsed.                                         *)

Arguments ==
  /\ At("arguments")
  /\ Uses({})
  /\ IF mode = "usage" THEN Complains("usage", 1) /\ Goto("exit")
     ELSE Goto("open") /\ Fine
  /\ SameProgram /\ NoCode /\ NoOutput

OpenSource ==
  /\ At("open")
  /\ \/ Takes({"stream"}) /\ Goto("measure") /\ Fine
     \/ Uses({}) /\ Goto("unreadable") /\ Fails("fopen")
  /\ SameProgram /\ NoCode /\ NoOutput

\* Mutant: an error is returned without closing the stream.
MeasureSourceOpen ==
  /\ At("measure")
  /\ \/ Handle({"stream"}, {}, {"src"}) /\ Goto("read") /\ Fine
     \/ Uses({"stream"}) /\ Goto("unreadable") /\ Fails("measure")
  /\ SameProgram /\ NoCode /\ NoOutput

\* fseek, ftell, fseek and malloc: the first that fails closes the stream.
MeasureSource ==
  /\ At("measure")
  /\ \/ Handle({"stream"}, {}, {"src"}) /\ Goto("read") /\ Fine
     \/ Gives({"stream"}) /\ Goto("unreadable") /\ Fails("measure")
  /\ SameProgram /\ NoCode /\ NoOutput

\* fread, which finds as much as was measured or less, and fclose.
ReadSource ==
  /\ At("read")
  /\ \/ Handle({"src"}, {"stream"}, {}) /\ Goto("parse") /\ Fine
     \/ Gives({"stream", "src"}) /\ Goto("unreadable") /\ Fails("fread")
  /\ SameProgram /\ NoCode /\ NoOutput

ComplainUnreadable ==
  /\ At("unreadable")
  /\ Complains("failed to read", 1) /\ Goto("exit")
  /\ Uses({})
  /\ SameProgram /\ NoCode /\ NoOutput

\* bf_parse_src disposes of the program itself when it fails, for the source or
\* for memory.
ParseFile ==
  /\ At("parse")
  /\ \/ /\ WellFormed(source)
        /\ program' = Parse(source)
        /\ Handle({"src"}, {}, {"program"})
        /\ Goto(IF mode = "control" THEN "report" ELSE "optimize") /\ Fine
     \/ /\ Complains("parse err", 1) /\ Goto("exit")
        /\ Handle({"src"}, {"src"}, {})
        /\ UNCHANGED program
  /\ UNCHANGED <<mode, source>> /\ NoCode /\ NoOutput

\* bf_opt_program; what it comes to when memory is short is BFOptimizer's matter.
OptimizeProgram ==
  /\ At("optimize")
  /\ program' = Optimize(program)
  /\ Uses({"program"})
  /\ Goto(CASE mode \in {"multiply", "segments", "control"} -> "report"
            [] mode = "dump jit" -> "compile"
            [] OTHER -> "tape")
  /\ Fine
  /\ UNCHANGED <<mode, source>> /\ NoCode /\ NoOutput
-----------------------------------------------------------------------------
(* The statistics.                                                         *)

Report == CASE mode = "multiply" -> MultiplyStats(program)
            [] mode = "segments" -> SegmentStats(program)
            [] mode = "control"  -> ControlStats(program)

AfterReport == IF mode = "control" /\ Len(reports) + Len(said) = 0 THEN "optimize" ELSE "leave"

\* A report that cannot be collected is complained about, and main returns 0.
DumpReport ==
  /\ At("report")
  /\ Uses({"program"})
  /\ Goto(AfterReport)
  /\ \/ /\ mode = "control" => SignaturesFit(program)
        /\ reports' = Append(reports, Report)
        /\ Fine
     \/ Complains("failed to collect", 0) /\ UNCHANGED reports
  /\ SameProgram /\ NoCode /\ UNCHANGED file
-----------------------------------------------------------------------------
(* The code, for a dump or to be executed: bf_jit_backend_compile and      *)
(* bf_jit_backend_dispose.                                                 *)

\* No backend for this processor, no page size, or no mapping.
MapBuffer ==
  /\ At("compile")
  /\ \/ /\ Handle({"program"}, {}, {"code"})
        /\ buffer' = "mapped" /\ access' = "write"
        /\ Goto("emit") /\ Fine
     \/ Uses({"program"}) /\ NoCode /\ Goto("jit error") /\ Fails("compile")
  /\ SameProgram /\ NoOutput

\* Mutant: the buffer is left writable.
EmitWritable ==
  /\ At("emit")
  /\ Uses({"program", "code"}) /\ buffer' = "emitted" /\ UNCHANGED access
  /\ Goto(IF mode = "dump jit" THEN "open output" ELSE "lock") /\ Fine
  /\ SameProgram /\ NoOutput

\* The code is emitted and the instruction cache flushed, or the mapping undone.
Emit ==
  /\ At("emit")
  /\ access' = "execute"
  /\ \/ /\ Uses({"program", "code"}) /\ buffer' = "emitted"
        /\ Goto(IF mode = "dump jit" THEN "open output" ELSE "lock") /\ Fine
     \/ /\ Handle({"program", "code"}, {"code"}, {}) /\ buffer' = "none"
        /\ Goto("jit error") /\ Fails("emit")
  /\ SameProgram /\ NoOutput

OpenOutput ==
  /\ At("open output")
  /\ \/ Takes({"output"}) /\ Goto("write output") /\ file' = "empty" /\ NoCode /\ Fine
     \/ Gives({"code"}) /\ buffer' = "none" /\ Goto("jit error") /\ Fails("fopen output")
                        /\ UNCHANGED <<file, access>>
  /\ SameProgram /\ UNCHANGED reports

\* Mutant: after a short write the file is closed twice.
WriteOutputOnwards ==
  /\ At("write output")
  /\ \/ Uses({"output", "code"}) /\ file' = "buffered" /\ Fine
     \/ Handle({"code"}, {"output"}, {}) /\ file' = "partial" /\ Fails("fwrite")
  /\ Goto("close output")
  /\ SameProgram /\ NoCode /\ UNCHANGED reports

WriteOutput ==
  /\ At("write output")
  /\ \/ /\ Uses({"output", "code"}) /\ file' = "buffered"
        /\ Goto("close output") /\ Fine /\ NoCode
     \/ /\ Handle({"code"}, {"output", "code"}, {}) /\ file' = "partial"
        /\ Goto("jit error") /\ Fails("fwrite")
        /\ buffer' = "none" /\ UNCHANGED access
  /\ SameProgram /\ UNCHANGED reports

\* What fclose returns is not looked at, though it writes what is still buffered.
CloseOutput ==
  /\ At("close output")
  /\ \/ file' = "whole" /\ Fine
     \/ file' = "partial" /\ Fails("fclose output")
  /\ Gives({"output", "code"}) /\ buffer' = "none"
  /\ Goto("leave")
  /\ SameProgram /\ UNCHANGED <<access, reports>>

\* Mutant: the error is printed and not returned.
ComplainJitQuietly ==
  /\ At("jit error")
  /\ Complains("jit err", 0)
  /\ Goto(IF mode = "dump jit" THEN "leave" ELSE "free tape")
  /\ Uses({}) /\ SameProgram /\ NoCode /\ NoOutput

ComplainJit ==
  /\ At("jit error")
  /\ Complains("jit err", 1)
  /\ Goto(IF mode = "dump jit" THEN "leave" ELSE "free tape")
  /\ Uses({}) /\ SameProgram /\ NoCode /\ NoOutput
-----------------------------------------------------------------------------
(* Execution, native or by the profiled interpreter.                       *)

AllocateTape ==
  /\ At("tape")
  /\ \/ Takes({"tape"}) /\ Goto(IF mode = "profile" THEN "lock" ELSE "compile") /\ Fine
     \/ Uses({}) /\ Complains("failed to allocate tape", 1) /\ Goto("leave")
  /\ SameProgram /\ NoCode /\ NoOutput

LockStreams ==
  /\ At("lock")
  /\ Takes(Locks) /\ Goto("run") /\ Fine
  /\ SameProgram /\ NoCode /\ NoOutput

\* The program itself (BFNative, BFArmNative, BFRuntime), which may come to an error;
\* the interpreter's profile is there afterwards either way.
RunProgram ==
  /\ At("run")
  /\ IF mode = "profile" THEN Handle({"program", "tape"} \union Locks, {}, {"profile"})
     ELSE Uses({"code", "tape"} \union Locks)
  /\ Goto("unlock")
  /\ Fine \/ Fails("run")
  /\ SameProgram /\ NoCode /\ NoOutput

\* bf_jit_execute_program disposes of the code whatever came of it.
UnlockStreams ==
  /\ At("unlock")
  /\ IF mode = "profile" THEN Gives(Locks) /\ NoCode /\ Goto("profile")
     ELSE /\ Gives(Locks \union {"code"}) /\ buffer' = "none" /\ UNCHANGED access
          /\ Goto(IF "run" \in failed THEN "jit error" ELSE "free tape")
  /\ Fine /\ SameProgram /\ NoOutput

DumpProfile ==
  /\ At("profile")
  /\ IF "run" \in failed THEN Complains("runtime err", 1) /\ UNCHANGED reports
     ELSE Fine /\ reports' = Append(reports, "profile")
  /\ Handle({"profile"}, {"profile"}, {})
  /\ Goto("free tape")
  /\ SameProgram /\ NoCode /\ UNCHANGED file

FreeTape ==
  /\ At("free tape")
  /\ Gives({"tape"}) /\ Goto("leave") /\ Fine
  /\ SameProgram /\ NoCode /\ NoOutput

\* bf_program_dispose and free(src), on every way out once the program is parsed.
Leave ==
  /\ At("leave")
  /\ Gives({"program", "src"}) /\ Goto("exit") /\ Fine
  /\ SameProgram /\ NoCode /\ NoOutput

Exited == At("exit") /\ UNCHANGED vars

Read    == Arguments \/ OpenSource \/ MeasureSource \/ ReadSource \/ ComplainUnreadable
             \/ ParseFile \/ OptimizeProgram \/ DumpReport
Compile == MapBuffer \/ Emit \/ OpenOutput \/ WriteOutput \/ CloseOutput \/ ComplainJit
Execute == AllocateTape \/ LockStreams \/ RunProgram \/ UnlockStreams \/ DumpProfile \/ FreeTape

Step == Read \/ Compile \/ Execute \/ Leave

Next == Step \/ Exited

Spec == Init /\ [][Next]_vars
-----------------------------------------------------------------------------
TypeOK ==
  /\ mode \in Modes
  /\ held \subseteq Resources
  /\ misused \in BOOLEAN
  /\ buffer \in {"none", "mapped", "emitted"}
  /\ access \in {"write", "execute"}
  /\ file \in {"none", "empty", "buffered", "partial", "whole"}
  /\ exitCode \in {0, 1}

\* Nothing is used after it was given back, given back twice, or acquired over
\* itself, whichever calls fail on the way: a stream by bf_read_file, the mapping
\* by bf_jit_backend_compile, bf_jit_dump_program_code or bf_jit_execute_program,
\* the program and the source by each of main's returns.
NothingMisused == ~misused

\* And all of it has been given back when main returns.
NothingLeaks == At("exit") => held = {}

\* The code is called only when it is all emitted and flushed, in a mapping that is
\* still there and that this thread may execute.
CodeIsReady ==
  At("run") /\ mode = "execute" => buffer = "emitted" /\ access = "execute" /\ "code" \in held

\* What a run has printed of reports, or said of one it left out.
Printed == Len(reports) + Len(said)

OnlyLeftOut == \A i \in DOMAIN said : said[i] = "failed to collect"

\* main returns 1 only when it has said why, once, and 0 only with the job done,
\* except that a report that cannot be collected is left out (main.c:553, :1010,
\* :1053) and that bf_jit_dump_program_code overlooks an error of its fclose.
ExitTellsFailure ==
  At("exit") =>
    /\ exitCode = 1 => Len(said) = 1
    /\ exitCode = 0 => /\ failed \subseteq {"fclose output"}
                       /\ OnlyLeftOut
                       /\ mode = "dump jit" => file = "whole" \/ failed # {}
                       /\ mode \in {"multiply", "segments"} => Printed = 1
                       /\ mode = "control" => Printed = 2
=============================================================================
