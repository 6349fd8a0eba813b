----------------------------- MODULE BFArmNative -----------------------------
(***************************************************************************)
(* Native execution on aarch64: the code BFArm generates runs on the       *)
(* caller's tape, one abstract instruction a step, as BFNative does for    *)
(* x86-64.                                                                 *)
(*                                                                         *)
(* Two of the generator's comparisons with the ends of the tape are not    *)
(* what they seem: a scan by one, and a scan from a negative pending       *)
(* offset, compare with a register nothing has loaded, and a negative      *)
(* pending offset is cut to the immediate's twelve bits.  fooled tells     *)
(* that such a comparison has come out other than it should.               *)
(***************************************************************************)
EXTENDS BFArm

CONSTANTS
  TapeSize,   \* number of cells
  Programs,   \* root blocks compiled
  Inputs      \* what stdin may hold

ASSUME TapeAssumption     == TapeSize \in Nat \ {0}
ASSUME ProgramsAssumption == Programs \subseteq Seq(Node)
ASSUME InputsAssumption   == Inputs \subseteq Seq(Cell)

VARIABLES
  code, pc,       \* the generated instructions, and the one to run next; 0: not yet checked
  capacity,       \* bytes in the code buffer
  tape, pointer,  \* the runtime state
  input, io,      \* what is left of stdin; history: the bytes read and written
  x10,            \* BOOLEAN: it holds the tape's address
  x8, x15,        \* a copy of the pointer, and the index of a cell, or Junk
  x12, w0,        \* the tape's size or a byte, and a byte read, or Junk
  fooled,         \* history
  result

registers == <<x10, x8, x15, x12, w0>>

vars == <<code, capacity, pc, tape, pointer, input, io, registers, fooled, result>>

Index == 0 .. TapeSize - 1

\* What a register nothing has loaded holds: no offset in a program leads from
\* here to the tape.
Junk == -1000

Start(program, scope, stdin) ==
  /\ code = EmitProgram(program, scope)
  /\ capacity = CodeSize(program)
  /\ pc = 0
  /\ tape = [i \in Index |-> 0]
  /\ pointer = 0
  /\ input = stdin
  /\ io = <<>>
  /\ x10 = FALSE
  /\ x8 = Junk /\ x15 = Junk /\ x12 = Junk /\ w0 = Junk
  /\ fooled = FALSE
  /\ result = [status |-> "running", value |-> 0]

Init ==
  \E program \in Programs, scope \in Scopes, stdin \in Inputs : Start(program, scope, stdin)
-----------------------------------------------------------------------------
Running == result.status = "running"
Live    == Running /\ pc # 0
Instr   == code[pc]
At(op)  == Live /\ Instr.op = op
OnTape(i) == i \in Index

Branch(cond) == pc' = IF cond THEN pc + Instr.to ELSE pc + 1
Next1        == pc' = pc + 1

KeepsTape == UNCHANGED <<tape, pointer>>
NoIo      == UNCHANGED <<input, io>>
GoesOn    == UNCHANGED <<code, capacity, fooled, result>>

\* b.hs or b.lo to an error block, which returns the negated reason in w0.
Check(ok) ==
  /\ pc' = IF ok THEN pc + 1 ELSE pc
  /\ result' = IF ok THEN result ELSE [status |-> "failed", value |-> -Instr.val]
  /\ UNCHANGED <<code, capacity>>

\* A comparison that comes out as ok where inside is what it should find out.
Compare(ok, inside) == Check(ok) /\ fooled' = (fooled \/ ok # inside)

MemoryOps == {"add", "store", "store_w0", "term", "load_counter", "jz", "jnz", "call_write"}

Address == IF Instr.base = "x15" THEN x15 + Instr.off ELSE x8 + Instr.off

Addressable == OnTape(Address) /\ (Instr.base # "x15" => x10)

Accesses(op) == At(op) /\ Addressable

Overflows == CodeBytes(code) > capacity

\* bf_jit_emit_u32 refuses to write past the end of the buffer; and emission may
\* stop at an if, on what an uninitialised variable holds.
Compile ==
  /\ Running /\ pc = 0
  /\ \E stops \in IF EmissionMayFail(code) THEN BOOLEAN ELSE {FALSE} :
       IF Overflows \/ stops
       THEN result' = [status |-> "failed", value |-> 0] /\ UNCHANGED pc
       ELSE pc' = 1 /\ UNCHANGED result
  /\ KeepsTape /\ NoIo /\ UNCHANGED <<code, capacity, registers, fooled>>
-----------------------------------------------------------------------------
(* Guards and moves of the pointer, through x8.                            *)

CheckBelow ==
  /\ At("below")
  /\ Check(pointer >= -Instr.off)
  /\ x8' = pointer
  /\ KeepsTape /\ NoIo /\ UNCHANGED <<x10, x15, x12, w0, fooled>>

CheckAbove ==
  /\ At("above")
  /\ Check(pointer + Instr.off < TapeSize)
  /\ x8' = pointer /\ x12' = TapeSize
  /\ KeepsTape /\ NoIo /\ UNCHANGED <<x10, x15, w0, fooled>>

\* The sum is compared unsigned: one below 0 is past the end as well.
AddPtr ==
  /\ At("add_ptr")
  /\ LET sum == pointer + Instr.off
     IN  /\ Check(OnTape(sum))
         /\ x8' = sum
         /\ pointer' = IF OnTape(sum) THEN sum ELSE pointer
  /\ NoIo /\ UNCHANGED <<tape, x10, x15, x12, w0, fooled>>
-----------------------------------------------------------------------------
(* Loads of the registers.                                                 *)

LoadState ==
  /\ At("load")
  /\ x10' = TRUE /\ x8' = pointer
  /\ Next1
  /\ KeepsTape /\ NoIo /\ GoesOn /\ UNCHANGED <<x15, x12, w0>>

SetCursor ==
  /\ \/ At("cursor") /\ x15' = IF x10 THEN x8 + Instr.off ELSE Junk
     \/ At("move_cursor") /\ x15' = x15 + Instr.off
  /\ Next1
  /\ KeepsTape /\ NoIo /\ GoesOn /\ UNCHANGED <<x10, x8, x12, w0>>

LoadX12 ==
  /\ \/ At("load_bound") /\ x12' = TapeSize
     \/ Accesses("load_counter") /\ x12' = tape[Address]
  /\ Next1
  /\ KeepsTape /\ NoIo /\ GoesOn /\ UNCHANGED <<x10, x8, x15, w0>>

AdvanceX8 ==
  /\ At("advance")
  /\ x8' = x8 + Instr.off
  /\ Next1
  /\ KeepsTape /\ NoIo /\ GoesOn /\ UNCHANGED <<x10, x15, x12, w0>>
-----------------------------------------------------------------------------
(* Accesses to the tape, and branches.                                     *)

Write(value) == tape' = [tape EXCEPT ![Address] = value]

WriteCell ==
  /\ \/ Accesses("add") /\ Write(Byte(tape[Address] + Instr.val))
     \/ Accesses("store") /\ Write(Instr.val)
     \/ Accesses("store_w0") /\ Write(w0)
     \/ Accesses("term") /\ Write(Byte(tape[Address] + x12 * Instr.val))
  /\ Next1
  /\ NoIo /\ GoesOn /\ UNCHANGED <<pointer, registers>>

Branches ==
  /\ \/ Accesses("jz") /\ Branch(tape[Address] = 0)
     \/ Accesses("jnz") /\ Branch(tape[Address] # 0)
     \/ At("jz_counter") /\ Branch(x12 = 0)
     \/ At("jump") /\ Branch(TRUE)
  /\ KeepsTape /\ NoIo /\ GoesOn /\ UNCHANGED registers
-----------------------------------------------------------------------------
(* Scans, which move x8 and store it at the end.                           *)

\* Whether x8 lies below the bound in x12, as far as that says anything.
BelowBound(index) == IF x12 = Junk THEN BOOLEAN ELSE {0 <= index /\ index < x12}

CheckBoundX12 ==
  /\ At("check_bound")
  /\ \E below \in BelowBound(x8) : Compare(below, OnTape(x8))
  /\ KeepsTape /\ NoIo /\ UNCHANGED registers

\* The branch to the tail of a scan by four.
BranchIfOut ==
  /\ At("advance_out")
  /\ \E below \in BelowBound(x8 + Instr.off) :
       Branch(~below) /\ fooled' = (fooled \/ below # OnTape(x8 + Instr.off))
  /\ KeepsTape /\ NoIo /\ UNCHANGED <<code, capacity, result, registers>>

CheckBackward ==
  /\ \/ At("check_back") /\ Check(x8 >= Instr.off) /\ UNCHANGED fooled
     \/ /\ At("check_back_imm")
        /\ Compare(x8 >= Instr.off % (MaxImm + 1), x8 >= Instr.off)
  /\ KeepsTape /\ NoIo /\ UNCHANGED registers

StorePointer ==
  /\ At("store_ptr")
  /\ pointer' = x8
  /\ Next1
  /\ NoIo /\ GoesOn /\ UNCHANGED <<tape, registers>>
-----------------------------------------------------------------------------
(* Calls of the runtime, which leave nothing in the registers, and the end.*)

Clobbered == x10' = FALSE /\ x8' = Junk /\ x15' = Junk /\ x12' = Junk

\* bf_runtime_read_byte, which returns the byte in w0.
CallRuntimeRead ==
  /\ At("call_read")
  /\ LET byte == IF input = <<>> THEN EofByte ELSE Head(input)
     IN  /\ w0' = byte
         /\ io' = Append(io, <<"read", byte>>)
  /\ input' = IF input = <<>> THEN input ELSE Tail(input)
  /\ Clobbered
  /\ Next1
  /\ KeepsTape /\ GoesOn

CallRuntimeWrite ==
  /\ Accesses("call_write")
  /\ io' = Append(io, <<"write", tape[Address]>>)
  /\ Clobbered /\ w0' = Junk
  /\ Next1
  /\ KeepsTape /\ GoesOn /\ UNCHANGED input

Return ==
  /\ At("epilogue")
  /\ result' = [status |-> "done", value |-> pointer]
  /\ KeepsTape /\ NoIo /\ UNCHANGED <<code, capacity, pc, registers, fooled>>

Step ==
  \/ Compile
  \/ CheckBelow \/ CheckAbove \/ AddPtr
  \/ LoadState \/ SetCursor \/ LoadX12 \/ AdvanceX8
  \/ WriteCell \/ Branches
  \/ CheckBoundX12 \/ BranchIfOut \/ CheckBackward \/ StorePointer
  \/ CallRuntimeRead \/ CallRuntimeWrite \/ Return

Finished == ~Running /\ UNCHANGED vars

Next == Step \/ Finished

\* The processor goes on executing.
Spec == Init /\ [][Next]_vars /\ WF_vars(Step)
-----------------------------------------------------------------------------
TypeOK ==
  /\ pc \in 0 .. Len(code)
  /\ tape \in [Index -> Cell]
  /\ input \in Seq(Cell)
  /\ pointer \in Index
  /\ x10 \in BOOLEAN /\ fooled \in BOOLEAN
  /\ x8 \in Int /\ x15 \in Int
  /\ x12 \in {Junk, TapeSize} \union Cell
  /\ w0 \in {Junk} \union Cell
  /\ result.status \in {"running", "done", "failed"}

\* Every access of the generated code is to the tape: the guards emitted for it,
\* on the offsets merged from a run or a loop, keep it there, and x10, x8 and the
\* cursor x15 are those of the place it is meant for, through whichever of the
\* three ways of addressing its offset calls for.
AccessesAreSafe == (Live /\ Instr.op \in MemoryOps) => (Addressable \/ fooled)

\* The terms of a multiply loop are added for the loop's counter, which is not
\* zero, though the guard emitted just before them has used its register for
\* the tape's size.
CounterIsNonzero == At("term") => x12 \in 1 .. CellCount - 1
=============================================================================
