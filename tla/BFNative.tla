------------------------------ MODULE BFNative ------------------------------
(***************************************************************************)
(* Native execution (bf_jit_execute_program, bfjit.c): the code generated  *)
(* for x86-64 (BFX86) runs on the caller's tape, one abstract instruction  *)
(* a step, and its return value is turned into success or an error.  What  *)
(* does not fit the buffer its size was estimated for is refused before.   *)
(*                                                                         *)
(* The runtime state on the native stack (tape, size, pointer) is tape,    *)
(* TapeSize and pointer.  An access off the tape, or through a register    *)
(* that does not hold the tape's address, is undefined: the process is not *)
(* followed any further, and the instruction stays where it is.            *)
(***************************************************************************)
EXTENDS BFX86

CONSTANTS
  TapeSize,   \* number of cells
  Programs,   \* root blocks compiled
  Inputs      \* what stdin may hold

ASSUME TapeAssumption     == TapeSize \in Nat \ {0}
ASSUME ProgramsAssumption == Programs \subseteq Seq(Node)
ASSUME InputsAssumption   == Inputs \subseteq Seq(Cell)

VARIABLES
  code, pc,       \* the generated instructions, and the one to run next; 0: not yet checked
  capacity,       \* bytes in the code buffer
  tape, pointer,  \* the runtime state
  input, io,      \* what is left of stdin; history: the bytes read and written
  bases,          \* which of rax and rsi hold the tape's address
  rcx, dl,        \* Junk where nothing meaningful is held
  error,          \* history: the reason whose error block has run, 0 for none
  result

vars == <<code, capacity, pc, tape, pointer, input, io, bases, rcx, dl, error, result>>

Index == 0 .. TapeSize - 1
Junk  == -1

Start(program, scope, stdin) ==
  /\ code = EmitProgram(program, scope)
  /\ capacity = CodeSize(program)
  /\ pc = 0
  /\ tape = [i \in Index |-> 0]
  /\ pointer = 0
  /\ input = stdin
  /\ io = <<>>
  /\ bases = {}
  /\ rcx = Junk
  /\ dl = Junk
  /\ error = 0
  /\ result = [status |-> "running", value |-> 0]

Init ==
  \E program \in Programs, scope \in Scopes, stdin \in Inputs : Start(program, scope, stdin)
-----------------------------------------------------------------------------
Running == result.status = "running"
Live    == Running /\ pc # 0
Instr   == code[pc]
At(op)  == Live /\ Instr.op = op
OnTape(i) == i \in Index

Next1       == pc' = pc + 1
Branch(cond) == pc' = IF cond THEN pc + Instr.to ELSE pc + 1
Clobbered(base) == bases' = bases \ {base}

KeepsTape == UNCHANGED <<tape, pointer>>
NoIo      == UNCHANGED <<input, io>>
GoesOn    == UNCHANGED <<code, capacity, error, result>>

\* jae/jb to an error label: its block goes on to the epilogue.
Check(ok, reason) ==
  /\ pc' = IF ok THEN pc + 1 ELSE Len(code)
  /\ error' = IF ok THEN error ELSE reason
  /\ UNCHANGED <<code, capacity, result>>

(***************************************************************************)
(* The instructions that go through a base register, the address they      *)
(* form, and when the access is the one that was meant.                    *)
(***************************************************************************)
MemoryOps == {"add", "store", "store_dl", "load_dl", "term", "jz", "jnz", "call_write"}

Address == rcx + Instr.off

Addressable == Instr.base \in bases /\ OnTape(Address)

Accesses(op) == At(op) /\ Addressable

\* bf_jit_emit_bytes refuses to write past the end of the buffer, and with it
\* bf_jit_compile the whole program: "native code buffer overflow".
Overflows == CodeBytes(code) > capacity

Compile ==
  /\ Running /\ pc = 0
  /\ IF Overflows THEN result' = [status |-> "failed", value |-> 0] /\ UNCHANGED pc
     ELSE pc' = 1 /\ UNCHANGED result
  /\ KeepsTape /\ NoIo /\ UNCHANGED <<code, capacity, bases, rcx, dl, error>>
-----------------------------------------------------------------------------
(* Guards and moves of the pointer, through rax.                           *)

CheckBelow ==
  /\ At("below")
  /\ Check(pointer >= -Instr.off, Instr.val)
  /\ Clobbered("rax")
  /\ KeepsTape /\ NoIo /\ UNCHANGED <<rcx, dl>>

CheckAbove ==
  /\ At("above")
  /\ Check(pointer + Instr.off < TapeSize, Instr.val)
  /\ Clobbered("rax")
  /\ KeepsTape /\ NoIo /\ UNCHANGED <<rcx, dl>>

\* The sum is compared unsigned: one below 0 is past the end as well.
AddPtr ==
  /\ At("add_ptr")
  /\ Check(OnTape(pointer + Instr.off), Instr.val)
  /\ pointer' = IF OnTape(pointer + Instr.off) THEN pointer + Instr.off ELSE pointer
  /\ Clobbered("rax")
  /\ NoIo /\ UNCHANGED <<tape, rcx, dl>>
-----------------------------------------------------------------------------
(* Loads, stores and branches on a cell.                                   *)

LoadState ==
  /\ At("load")
  /\ bases' = bases \union {Instr.base}
  /\ rcx' = pointer
  /\ Next1
  /\ KeepsTape /\ NoIo /\ GoesOn /\ UNCHANGED dl

Write(value) == tape' = [tape EXCEPT ![Address] = value]

AddToCell ==
  /\ Accesses("add")
  /\ Write(Byte(tape[Address] + Instr.val))
  /\ Next1
  /\ NoIo /\ GoesOn /\ UNCHANGED <<pointer, bases, rcx, dl>>

StoreCell ==
  /\ \/ Accesses("store") /\ Write(Instr.val)
     \/ Accesses("store_dl") /\ Write(dl)
  /\ Next1
  /\ NoIo /\ GoesOn /\ UNCHANGED <<pointer, bases, rcx, dl>>

LoadCounter ==
  /\ Accesses("load_dl")
  /\ dl' = tape[Address]
  /\ Next1
  /\ KeepsTape /\ NoIo /\ GoesOn /\ UNCHANGED <<bases, rcx>>

\* dl times the factor; a factor other than 1 and -1 is multiplied in eax.
AddTerm ==
  /\ Accesses("term")
  /\ Write(Byte(tape[Address] + dl * Instr.val))
  /\ IF Instr.val \in {1, -1} THEN UNCHANGED bases ELSE Clobbered("rax")
  /\ Next1
  /\ NoIo /\ GoesOn /\ UNCHANGED <<pointer, rcx, dl>>

BranchOnCell ==
  /\ \/ Accesses("jz") /\ Branch(tape[Address] = 0)
     \/ Accesses("jnz") /\ Branch(tape[Address] # 0)
  /\ KeepsTape /\ NoIo /\ GoesOn /\ UNCHANGED <<bases, rcx, dl>>

BranchOnCounter ==
  /\ At("jz_dl")
  /\ Branch(dl = 0)
  /\ KeepsTape /\ NoIo /\ GoesOn /\ UNCHANGED <<bases, rcx, dl>>
-----------------------------------------------------------------------------
(* Scans, which move the pointer's copy in rcx and store it at the end.    *)

Jumps ==
  /\ At("jump")
  /\ Branch(TRUE)
  /\ KeepsTape /\ NoIo /\ GoesOn /\ UNCHANGED <<bases, rcx, dl>>

AdvanceRcx ==
  /\ At("advance")
  /\ rcx' = rcx + Instr.off
  /\ Next1
  /\ KeepsTape /\ NoIo /\ GoesOn /\ UNCHANGED <<bases, dl>>

TryAdvanceRcx ==
  /\ At("try_advance")
  /\ Check(OnTape(rcx + Instr.off), Instr.val)
  /\ rcx' = IF OnTape(rcx + Instr.off) THEN rcx + Instr.off ELSE rcx
  /\ Clobbered("rax")
  /\ KeepsTape /\ NoIo /\ UNCHANGED dl

CheckScan ==
  /\ \/ At("check_rcx") /\ Check(OnTape(rcx), Instr.val)
     \/ At("check_back") /\ Check(rcx >= Instr.off, Instr.val)
  /\ KeepsTape /\ NoIo /\ UNCHANGED <<bases, rcx, dl>>

BranchIfOut ==
  /\ At("advance_out")
  /\ Branch(~OnTape(rcx + Instr.off))
  /\ Clobbered("rax")
  /\ KeepsTape /\ NoIo /\ GoesOn /\ UNCHANGED <<rcx, dl>>

StorePointer ==
  /\ At("store_ptr")
  /\ pointer' = rcx
  /\ Next1
  /\ NoIo /\ GoesOn /\ UNCHANGED <<tape, bases, rcx, dl>>
-----------------------------------------------------------------------------
(* Calls of the runtime, which leave nothing in the registers, and the end.*)

\* bf_runtime_read_byte; the byte is kept in dl.
CallRuntimeRead ==
  /\ At("call_read")
  /\ LET byte == IF input = <<>> THEN EofByte ELSE Head(input)
     IN  /\ dl' = byte
         /\ io' = Append(io, <<"read", byte>>)
  /\ input' = IF input = <<>> THEN input ELSE Tail(input)
  /\ bases' = {} /\ rcx' = Junk
  /\ Next1
  /\ KeepsTape /\ GoesOn

CallRuntimeWrite ==
  /\ Accesses("call_write")
  /\ io' = Append(io, <<"write", tape[Address]>>)
  /\ bases' = {} /\ rcx' = Junk /\ dl' = Junk
  /\ Next1
  /\ KeepsTape /\ GoesOn /\ UNCHANGED input

(***************************************************************************)
(* The epilogue returns the pointer, also to whom an error block has sent  *)
(* there with the negated reason in eax: eax is loaded again.              *)
(* bf_jit_execute_program takes a negative value for an error.             *)
(***************************************************************************)
ReturnValue == pointer

Return ==
  /\ At("epilogue")
  /\ result' = [status |-> IF ReturnValue < 0 THEN "failed" ELSE "done", value |-> ReturnValue]
  /\ KeepsTape /\ NoIo /\ UNCHANGED <<code, capacity, pc, bases, rcx, dl, error>>

Step ==
  \/ Compile
  \/ CheckBelow \/ CheckAbove \/ AddPtr
  \/ LoadState \/ AddToCell \/ StoreCell \/ LoadCounter \/ AddTerm
  \/ BranchOnCell \/ BranchOnCounter
  \/ Jumps \/ AdvanceRcx \/ TryAdvanceRcx \/ CheckScan \/ BranchIfOut \/ StorePointer
  \/ CallRuntimeRead \/ CallRuntimeWrite \/ Return

Finished == ~Running /\ UNCHANGED vars

Next == Step \/ Finished

\* The processor goes on executing.
Spec == Init /\ [][Next]_vars /\ WF_vars(Step)
-----------------------------------------------------------------------------
TypeOK ==
  /\ pc \in 0 .. Len(code)
  /\ tape \in [Index -> Cell]
  /\ pointer \in Index
  /\ input \in Seq(Cell)
  /\ bases \subseteq {"rax", "rsi"}
  /\ rcx \in {Junk} \union Nat
  /\ dl \in {Junk} \union Cell
  /\ error \in 0 .. 9
  /\ result.status \in {"running", "done", "failed"}

\* Every access of the generated code is to the tape: the guards emitted for it,
\* on the offsets merged from a run or a loop, keep it there, and the register
\* it goes through still holds the tape's address whatever was emitted between.
AccessesAreSafe == (Live /\ Instr.op \in MemoryOps) => Addressable

\* The terms of a multiply loop are added only for a counter that was loaded and
\* is not zero, the test left out for a NONNULL_MULTIPLY_LOOP included: with a
\* zero counter the far guard would refuse a program that never goes there.
CounterIsNonzero == At("term") => dl \notin {Junk, 0}

\* An error block's reason reaches bf_jit_execute_program, which has a message for
\* each (bfjit.c:86-117).
ErrorsAreReported == (~Running /\ error # 0) => result.value = -error
=============================================================================
