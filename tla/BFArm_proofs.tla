----------------------------- MODULE BFArm_proofs -----------------------------
(***************************************************************************)
(* Proofs about the code generated for aarch64 (BFArm, BFArmNative):       *)
(* whatever program is compiled, every access of its code is to the tape,  *)
(* as long as no comparison has come out other than it should (fooled).    *)
(*                                                                         *)
(* The argument is that of BFNative_proofs, an annotation of the code with *)
(* the states the machine may be in at each instruction.  What is known of *)
(* a state is how far x8 and the cursor x15 are from the pointer: each way *)
(* of addressing a cell relies on another one of them.                     *)
(***************************************************************************)
EXTENDS BFArmNative, BFLoops, BFFolds_proofs
-----------------------------------------------------------------------------
(* The states of the machine, and what an instruction does to one.         *)

Machine == [tape    : [Index -> Cell],
            pointer : Index,
            x10     : BOOLEAN,
            x8      : Int,
            x15     : Int,
            x12     : {Junk, TapeSize} \union Cell,
            w0      : {Junk} \union Cell,
            fooled  : BOOLEAN]

State(t, p, r10, r8, r15, r12, r0, f) ==
  [tape |-> t, pointer |-> p, x10 |-> r10, x8 |-> r8, x15 |-> r15, x12 |-> r12, w0 |-> r0,
   fooled |-> f]

Now == State(tape, pointer, x10, x8, x15, x12, w0, fooled)

CheckOps == {"below", "above", "add_ptr", "check_bound", "check_back", "check_back_imm"}

Ops == CheckOps \union MemoryOps
         \union {"load", "cursor", "move_cursor", "load_bound", "advance", "jz_counter", "jump",
                 "advance_out", "store_ptr", "call_read", "epilogue"}

Bases == {"x15", "x10", "x9"}

AnyInstruction == [op : Ops, base : {""} \union Bases, off : Int, val : Int, to : Int]

Place(m, i) == IF i.base = "x15" THEN m.x15 + i.off ELSE m.x8 + i.off

Reaches(m, i) == OnTape(Place(m, i)) /\ (i.base # "x15" => m.x10)

(***************************************************************************)
(* The state m after one or the other has changed.                         *)
(***************************************************************************)
SetPtr(m, v) == State(m.tape, v, m.x10, m.x8, m.x15, m.x12, m.w0, m.fooled)
SetX8(m, v)  == State(m.tape, m.pointer, m.x10, v, m.x15, m.x12, m.w0, m.fooled)
SetX15(m, v) == State(m.tape, m.pointer, m.x10, m.x8, v, m.x12, m.w0, m.fooled)
SetX12(m, v) == State(m.tape, m.pointer, m.x10, m.x8, m.x15, v, m.w0, m.fooled)
Loaded(m)    == State(m.tape, m.pointer, TRUE, m.pointer, m.x15, m.x12, m.w0, m.fooled)
Called(m, v) == State(m.tape, m.pointer, FALSE, Junk, Junk, Junk, v, m.fooled)
PutAt(m, k, v) ==
  State([m.tape EXCEPT ![k] = v], m.pointer, m.x10, m.x8, m.x15, m.x12, m.w0, m.fooled)
Misled(m, wrong) ==
  State(m.tape, m.pointer, m.x10, m.x8, m.x15, m.x12, m.w0, m.fooled \/ wrong)

Counts == 1 .. CellCount - 1

(***************************************************************************)
(* The instruction i may be executed in the state m, and leads from it to  *)
(* a state of next, at the next instruction, or of there, where it jumps;  *)
(* or else to an error block.                                              *)
(***************************************************************************)
TakesMemory(i, m, next, there) ==
  LET k    == Place(m, i)
      cell == m.tape[k]
  IN  /\ Reaches(m, i) \/ m.fooled
      /\ i.op = "term" => m.x12 \in Counts
      /\ Reaches(m, i) =>
           /\ i.op = "add"          => PutAt(m, k, Byte(cell + i.val)) \in next
           /\ i.op = "store"        => PutAt(m, k, i.val) \in next
           /\ i.op = "store_w0"     => PutAt(m, k, m.w0) \in next
           /\ i.op = "term"         => PutAt(m, k, Byte(cell + m.x12 * i.val)) \in next
           /\ i.op = "load_counter" => SetX12(m, cell) \in next
           /\ i.op = "jz"           => IF cell = 0 THEN m \in there ELSE m \in next
           /\ i.op = "jnz"          => IF cell # 0 THEN m \in there ELSE m \in next
           /\ i.op = "call_write"   => Called(m, Junk) \in next

TakesCheck(i, m, next) ==
  LET sum == m.pointer + i.off
  IN  /\ i.op = "below"   => (m.pointer >= -i.off => SetX8(m, m.pointer) \in next)
      /\ i.op = "above"   => (sum < TapeSize => SetX12(SetX8(m, m.pointer), TapeSize) \in next)
      /\ i.op = "add_ptr" => (OnTape(sum) => SetPtr(SetX8(m, sum), sum) \in next)
      /\ i.op = "check_bound"    => Misled(m, ~OnTape(m.x8)) \in next
      /\ i.op = "check_back"     => (m.x8 >= i.off => m \in next)
      /\ i.op = "check_back_imm" => Misled(m, ~(m.x8 >= i.off)) \in next

Takes(i, m, next, there) ==
  /\ i.op \in MemoryOps => TakesMemory(i, m, next, there)
  /\ i.op \in CheckOps  => TakesCheck(i, m, next)
  /\ i.op = "load"        => Loaded(m) \in next
  /\ i.op = "cursor"      => SetX15(m, IF m.x10 THEN m.x8 + i.off ELSE Junk) \in next
  /\ i.op = "move_cursor" => SetX15(m, m.x15 + i.off) \in next
  /\ i.op = "load_bound"  => SetX12(m, TapeSize) \in next
  /\ i.op = "advance"     => SetX8(m, m.x8 + i.off) \in next
  /\ i.op = "jz_counter"  => IF m.x12 = 0 THEN m \in there ELSE m \in next
  /\ i.op = "jump"        => m \in there
  /\ i.op = "advance_out" => /\ Misled(m, ~OnTape(m.x8 + i.off)) \in next
                             /\ Misled(m, OnTape(m.x8 + i.off)) \in there
  /\ i.op = "store_ptr"   => SetPtr(m, m.x8) \in next
  /\ i.op = "call_read"   => \A byte \in Cell : Called(m, byte) \in next

Keeps(i, here, next, there) == \A m \in here : Takes(i, m, next, there)

AnyX12 == {Junk, TapeSize} \union Cell
AnyW0  == {Junk} \union Cell

\* x10 holds the tape's address, if told to; x8 and x15 are one of A and one of C
\* away from the pointer; the cells at the offsets O from the pointer are on the
\* tape, those at Z are not 0; x12 is one of D and w0 one of W.
Known(loaded, A, C, O, D, W, Z) ==
  {m \in Machine : /\ loaded => m.x10
                   /\ m.x8 - m.pointer \in A
                   /\ m.x15 - m.pointer \in C
                   /\ \A d \in O : OnTape(m.pointer + d)
                   /\ m.x12 \in D
                   /\ m.w0 \in W
                   /\ \A d \in Z : m.tape[m.pointer + d] # 0}

\* Where a body begins whose condition has just been found to hold.
Nonzero(off) == Known(FALSE, Int, Int, {off}, AnyX12, AnyW0, {off})
-----------------------------------------------------------------------------
\* The pieces of code of BFEmitter_proofs, for this machine.
Code == INSTANCE BFEmitter_proofs

Valid(c, known) == Code!Valid(c, known)
Fits(c, P, Q)   == Code!Fits(c, P, Q)

\* known[k] holds the states in which instruction k of the code may be reached; it
\* is empty where there is no instruction.
Annotated(c, known) ==
  /\ c \in Seq(AnyInstruction)
  /\ known \in [Int -> SUBSET Machine]
  /\ \A j \in Int : j \notin 1 .. Len(c) => known[j] = {}
  /\ known[1] = Machine
  /\ \A k \in 1 .. Len(c) : Keeps(c[k], known[k], known[k + 1], known[k + c[k].to])

Inv(known) ==
  /\ Annotated(code, known)
  /\ Now \in Machine
  /\ pc \in 0 .. Len(code)
  /\ Live => Now \in known[pc]
  /\ input \in Seq(Cell)
  /\ result.status \in {"running", "done", "failed"}
-----------------------------------------------------------------------------
(* Executing the code.                                                     *)

LEMMA JunkType == Junk \in Int
  BY DEF Junk

LEMMA MachineFields ==
  ASSUME NEW m \in Machine
  PROVE  /\ m.tape \in [Index -> Cell] /\ m.pointer \in Index /\ m.pointer \in Int
         /\ m.x10 \in BOOLEAN /\ m.x8 \in Int /\ m.x15 \in Int
         /\ m.x12 \in {Junk, TapeSize} \union Cell /\ m.w0 \in {Junk} \union Cell
         /\ m.fooled \in BOOLEAN
<1>1. m.pointer \in Index
  BY DEF Machine
<1>2. m.pointer \in Int
  BY <1>1 DEF Index
<1> QED  BY <1>1, <1>2 DEF Machine

LEMMA StateType ==
  ASSUME NEW t \in [Index -> Cell], NEW p \in Index, NEW r10 \in BOOLEAN,
         NEW r8 \in Int, NEW r15 \in Int, NEW r12 \in {Junk, TapeSize} \union Cell,
         NEW r0 \in {Junk} \union Cell, NEW f \in BOOLEAN
  PROVE  State(t, p, r10, r8, r15, r12, r0, f) \in Machine
  BY DEF State, Machine

\* The changed states are states of the machine.
LEMMA Changed ==
  ASSUME NEW m \in Machine
  PROVE  /\ \A v \in Index : SetPtr(m, v) \in Machine
         /\ \A v \in Int : SetX8(m, v) \in Machine
         /\ \A v \in Int : SetX15(m, v) \in Machine
         /\ \A v \in {Junk, TapeSize} \union Cell : SetX12(m, v) \in Machine
         /\ Loaded(m) \in Machine
         /\ \A v \in {Junk} \union Cell : Called(m, v) \in Machine
         /\ \A k \in Index, v \in Cell : PutAt(m, k, v) \in Machine
         /\ \A wrong \in BOOLEAN : Misled(m, wrong) \in Machine
<1>1. /\ \A v \in Index : SetPtr(m, v) \in Machine
      /\ \A v \in Int : SetX8(m, v) \in Machine
      /\ \A v \in Int : SetX15(m, v) \in Machine
      /\ \A v \in {Junk, TapeSize} \union Cell : SetX12(m, v) \in Machine
  BY MachineFields, StateType DEF SetPtr, SetX8, SetX15, SetX12
<1>2. Loaded(m) \in Machine
  BY MachineFields, StateType DEF Loaded
<1>3. \A v \in {Junk} \union Cell : Called(m, v) \in Machine
  BY MachineFields, StateType, JunkType DEF Called
<1>4. \A k \in Index, v \in Cell : PutAt(m, k, v) \in Machine
  <2> TAKE k \in Index, v \in Cell
  <2>1. [m.tape EXCEPT ![k] = v] \in [Index -> Cell]  BY MachineFields
  <2> QED  BY <2>1, MachineFields, StateType DEF PutAt
<1>5. \A wrong \in BOOLEAN : Misled(m, wrong) \in Machine
  <2> TAKE wrong \in BOOLEAN
  <2>1. (m.fooled \/ wrong) \in BOOLEAN  OBVIOUS
  <2> QED  BY <2>1, MachineFields, StateType DEF Misled
<1> QED  BY <1>1, <1>2, <1>3, <1>4, <1>5

\* A running program is at one of its instructions, whose demands are met.
LEMMA LiveTakes ==
  ASSUME NEW known, Inv(known), Live
  PROVE  /\ pc + 1 \in Int /\ pc + Instr.to \in Int
         /\ Instr.off \in Int /\ Instr.val \in Int
         /\ Now \in Machine
         /\ known[pc + 1] \subseteq Machine /\ known[pc + Instr.to] \subseteq Machine
         /\ Takes(Instr, Now, known[pc + 1], known[pc + Instr.to])
<1>1. pc \in 1 .. Len(code) /\ code \in Seq(AnyInstruction) /\ Now \in known[pc]
  BY DEF Inv, Live, Annotated
<1>2. Instr \in AnyInstruction
  BY <1>1 DEF Instr
<1>3. Instr.to \in Int /\ Instr.off \in Int /\ Instr.val \in Int
  BY <1>2 DEF AnyInstruction
<1>4. known[pc + 1] \subseteq Machine /\ known[pc + Instr.to] \subseteq Machine
  BY <1>1, <1>3 DEF Inv, Annotated
<1>5. Keeps(Instr, known[pc], known[pc + 1], known[pc + Instr.to])
  BY <1>1 DEF Inv, Annotated, Instr
<1>6. Takes(Instr, Now, known[pc + 1], known[pc + Instr.to])
  BY <1>1, <1>5 DEF Keeps
<1>7. pc + 1 \in Int /\ pc + Instr.to \in Int
  BY <1>1, <1>3
<1> QED  BY <1>1, <1>3, <1>4, <1>6, <1>7 DEF Inv

\* A step to an instruction in a state known there.
LEMMA Arrives ==
  ASSUME NEW known, Inv(known), NEW j \in Int,
         code' = code, pc' = j, Now' \in known[j], input' \in Seq(Cell), result' = result
  PROVE  Inv(known)'
<1>1. j \in 1 .. Len(code) /\ known[j] \subseteq Machine
  BY DEF Inv, Annotated
<1>2. Annotated(code, known)'
  BY DEF Inv, Annotated, Keeps
<1> QED  BY <1>1, <1>2 DEF Inv

\* A step that ends the run.
LEMMA Ends ==
  ASSUME NEW known, Inv(known), code' = code, pc' = pc, Now' \in Machine,
         input' \in Seq(Cell), result'.status \in {"done", "failed"}
  PROVE  Inv(known)'
<1>1. Annotated(code, known)'
  BY DEF Inv, Annotated, Keeps
<1>2. ~Live'
  BY DEF Live, Running
<1> QED  BY <1>1, <1>2 DEF Inv

LEMMA CompileKeepsInv ==
  ASSUME NEW known, Inv(known), Compile
  PROVE  Inv(known)'
<1>1. Now' = Now /\ code' = code /\ input' \in Seq(Cell) /\ Now \in Machine
  BY DEF Compile, KeepsTape, NoIo, registers, Now, State, Inv
<1>2. CASE result' = [status |-> "failed", value |-> 0] /\ pc' = pc
  BY <1>1, <1>2, Ends
<1>3. CASE pc' = 1 /\ result' = result
  <2>1. Now \in known[1]
    BY DEF Inv, Annotated
  <2> QED  BY <1>1, <1>3, <2>1, Arrives
<1> QED  BY <1>2, <1>3 DEF Compile

\* A check: what it is about holds, or the program goes to an error block.
LEMMA ChecksKeepInv ==
  ASSUME NEW known, Inv(known), Live, NEW ok, Check(ok), NoIo,
         Now' \in Machine, ok => Now' \in known[pc + 1]
  PROVE  Inv(known)'
<1>1. code' = code /\ input' \in Seq(Cell) /\ pc + 1 \in Int
  BY LiveTakes DEF Check, NoIo, Inv
<1>2. CASE ok
  <2>1. pc' = pc + 1 /\ result' = result  BY <1>2 DEF Check
  <2> QED  BY <1>1, <1>2, <2>1, Arrives
<1>3. CASE ~ok
  <2>1. pc' = pc /\ result'.status = "failed"  BY <1>3 DEF Check
  <2> QED  BY <1>1, <2>1, Ends
<1> QED  BY <1>2, <1>3

LEMMA CheckBelowKeepsInv ==
  ASSUME NEW known, Inv(known), CheckBelow
  PROVE  Inv(known)'
<1> DEFINE ok == pointer >= -Instr.off
<1>1. Live /\ Instr.op = "below" /\ Check(ok) /\ NoIo
  BY DEF CheckBelow, At
<1>2. Now' = SetX8(Now, pointer) /\ pointer = Now.pointer
  BY DEF CheckBelow, KeepsTape, Now, State, SetX8
<1>3. Now' \in Machine
  BY <1>1, <1>2, LiveTakes, MachineFields, Changed
<1>4. ok => Now' \in known[pc + 1]
  BY <1>1, <1>2, LiveTakes DEF Takes, TakesCheck, CheckOps
<1> HIDE DEF ok
<1> QED  BY <1>1, <1>3, <1>4, ChecksKeepInv

LEMMA CheckAboveKeepsInv ==
  ASSUME NEW known, Inv(known), CheckAbove
  PROVE  Inv(known)'
<1> DEFINE ok == pointer + Instr.off < TapeSize
<1>1. Live /\ Instr.op = "above" /\ Check(ok) /\ NoIo
  BY DEF CheckAbove, At
<1>2. Now' = SetX12(SetX8(Now, pointer), TapeSize) /\ pointer = Now.pointer
  BY DEF CheckAbove, KeepsTape, Now, State, SetX8, SetX12
<1>3. Now' \in Machine
  <2>1. SetX8(Now, pointer) \in Machine
    BY <1>1, <1>2, LiveTakes, MachineFields, Changed
  <2> QED  BY <1>2, <2>1, Changed
<1>4. ok => Now' \in known[pc + 1]
  BY <1>1, <1>2, LiveTakes DEF Takes, TakesCheck, CheckOps
<1> HIDE DEF ok
<1> QED  BY <1>1, <1>3, <1>4, ChecksKeepInv

LEMMA AddPtrKeepsInv ==
  ASSUME NEW known, Inv(known), AddPtr
  PROVE  Inv(known)'
<1> DEFINE sum == pointer + Instr.off
<1>1. /\ Live /\ Instr.op = "add_ptr" /\ Check(OnTape(sum)) /\ NoIo
      /\ pointer = Now.pointer
  BY DEF AddPtr, At, NoIo, Now, State
<1>2. Now' = IF OnTape(sum) THEN SetPtr(SetX8(Now, sum), sum) ELSE SetX8(Now, sum)
  BY DEF AddPtr, Now, State, SetX8, SetPtr
<1>3. Now' \in Machine
  <2>1. sum \in Int
    BY <1>1, LiveTakes, MachineFields
  <2> HIDE DEF sum
  <2>2. SetX8(Now, sum) \in Machine
    BY <1>1, <2>1, LiveTakes, Changed
  <2>3. OnTape(sum) => SetPtr(SetX8(Now, sum), sum) \in Machine
    BY <2>2, Changed DEF OnTape
  <2> QED  BY <1>2, <2>2, <2>3
<1>4. OnTape(sum) => Now' \in known[pc + 1]
  BY <1>1, <1>2, LiveTakes DEF Takes, TakesCheck, CheckOps
<1> HIDE DEF sum
<1> QED  BY <1>1, <1>3, <1>4, ChecksKeepInv

\* A step of which nothing can go wrong, to the next instruction or by a jump.
LEMMA OnwardKeepsInv ==
  ASSUME NEW known, Inv(known), Live, code' = code, result' = result, input' \in Seq(Cell),
         \/ pc' = pc + 1 /\ Now' \in known[pc + 1]
         \/ pc' = pc + Instr.to /\ Now' \in known[pc + Instr.to]
  PROVE  Inv(known)'
<1>1. pc + 1 \in Int /\ pc + Instr.to \in Int
  BY LiveTakes
<1> QED  BY <1>1, Arrives

LEMMA LoadStateKeepsInv ==
  ASSUME NEW known, Inv(known), LoadState
  PROVE  Inv(known)'
<1>1. /\ Live /\ Instr.op = "load" /\ code' = code /\ result' = result
      /\ pc' = pc + 1 /\ input' \in Seq(Cell)
  BY DEF LoadState, At, GoesOn, Next1, NoIo, Inv
<1>2. Now' = Loaded(Now)
  BY DEF LoadState, KeepsTape, GoesOn, Now, State, Loaded
<1>3. Now' \in known[pc + 1]
  BY <1>1, <1>2, LiveTakes DEF Takes
<1> QED  BY <1>1, <1>3, OnwardKeepsInv

LEMMA SetCursorKeepsInv ==
  ASSUME NEW known, Inv(known), SetCursor
  PROVE  Inv(known)'
<1>1. /\ Live /\ code' = code /\ result' = result /\ pc' = pc + 1 /\ input' \in Seq(Cell)
      /\ Now' = SetX15(Now, x15') /\ Now.x8 = x8 /\ Now.x10 = x10 /\ Now.x15 = x15
  BY DEF SetCursor, At, GoesOn, Next1, NoIo, Inv, KeepsTape, Now, State, SetX15
<1>2. CASE At("cursor") /\ x15' = IF x10 THEN x8 + Instr.off ELSE Junk
  <2>1. Instr.op = "cursor"  BY <1>2 DEF At
  <2>2. Now' \in known[pc + 1]
    BY <1>1, <1>2, <2>1, LiveTakes DEF Takes
  <2> QED  BY <1>1, <2>2, OnwardKeepsInv
<1>3. CASE At("move_cursor") /\ x15' = x15 + Instr.off
  <2>1. Instr.op = "move_cursor"  BY <1>3 DEF At
  <2>2. Now' \in known[pc + 1]
    BY <1>1, <1>3, <2>1, LiveTakes DEF Takes
  <2> QED  BY <1>1, <2>2, OnwardKeepsInv
<1> QED  BY <1>2, <1>3 DEF SetCursor

\* What holds of an instruction that accesses the tape.
LEMMA AccessTakes ==
  ASSUME NEW known, Inv(known), Live, Instr.op \in MemoryOps
  PROVE  /\ Address = Place(Now, Instr) /\ (Addressable <=> Reaches(Now, Instr))
         /\ TakesMemory(Instr, Now, known[pc + 1], known[pc + Instr.to])
         /\ tape = Now.tape /\ x12 = Now.x12 /\ w0 = Now.w0 /\ fooled = Now.fooled
         /\ Addressable \/ fooled
<1>1. TakesMemory(Instr, Now, known[pc + 1], known[pc + Instr.to])
  BY LiveTakes DEF Takes
<1>2. /\ tape = Now.tape /\ x12 = Now.x12 /\ w0 = Now.w0 /\ fooled = Now.fooled
      /\ Address = Place(Now, Instr) /\ x10 = Now.x10
  BY DEF Now, State, Address, Place
<1>3. Addressable <=> Reaches(Now, Instr)
  BY <1>2 DEF Addressable, Reaches
<1>4. Addressable \/ fooled
  BY <1>1, <1>2, <1>3 DEF TakesMemory
<1> QED  BY <1>1, <1>2, <1>3, <1>4

\* An access goes on with a tape and registers known at the next instruction.
LEMMA AccessReaches ==
  ASSUME NEW known, Inv(known), NEW op \in MemoryOps, Accesses(op)
  PROVE  /\ Live /\ Instr.op = op /\ Instr.op \in MemoryOps
         /\ Address = Place(Now, Instr) /\ Reaches(Now, Instr)
         /\ TakesMemory(Instr, Now, known[pc + 1], known[pc + Instr.to])
<1>1. Live /\ Instr.op = op /\ Instr.op \in MemoryOps /\ Addressable
  BY DEF Accesses, At
<1> QED  BY <1>1, AccessTakes

LEMMA LoadX12KeepsInv ==
  ASSUME NEW known, Inv(known), LoadX12
  PROVE  Inv(known)'
<1>1. /\ code' = code /\ result' = result /\ pc' = pc + 1 /\ input' \in Seq(Cell)
      /\ Now' = SetX12(Now, x12') /\ Now.tape = tape
  BY DEF LoadX12, GoesOn, Next1, NoIo, Inv, KeepsTape, Now, State, SetX12
<1>2. CASE At("load_bound") /\ x12' = TapeSize
  <2>1. Live /\ Instr.op = "load_bound"  BY <1>2 DEF At
  <2>2. Now' \in known[pc + 1]
    BY <1>1, <1>2, <2>1, LiveTakes DEF Takes
  <2> QED  BY <1>1, <2>1, <2>2, OnwardKeepsInv
<1>3. CASE Accesses("load_counter") /\ x12' = tape[Address]
  <2>1. "load_counter" \in MemoryOps  BY DEF MemoryOps
  <2>2. Now' \in known[pc + 1] /\ Live
    BY <1>1, <1>3, <2>1, AccessReaches DEF TakesMemory
  <2> QED  BY <1>1, <2>2, OnwardKeepsInv
<1> QED  BY <1>2, <1>3 DEF LoadX12

LEMMA AdvanceX8KeepsInv ==
  ASSUME NEW known, Inv(known), AdvanceX8
  PROVE  Inv(known)'
<1>1. /\ Live /\ Instr.op = "advance" /\ code' = code /\ result' = result
      /\ pc' = pc + 1 /\ input' \in Seq(Cell)
  BY DEF AdvanceX8, At, GoesOn, Next1, NoIo, Inv
<1>2. Now' = SetX8(Now, Now.x8 + Instr.off)
  BY DEF AdvanceX8, KeepsTape, GoesOn, Now, State, SetX8
<1>3. Now' \in known[pc + 1]
  BY <1>1, <1>2, LiveTakes DEF Takes
<1> QED  BY <1>1, <1>3, OnwardKeepsInv

\* A write of one value or another to the cell an instruction accesses.
LEMMA WriteKeepsInv ==
  ASSUME NEW known, Inv(known), NEW op \in MemoryOps, Accesses(op), NEW value, Write(value),
         Next1, NoIo, GoesOn, UNCHANGED <<pointer, registers>>,
         PutAt(Now, Address, value) \in known[pc + 1]
  PROVE  Inv(known)'
<1>1. /\ Live /\ code' = code /\ result' = result /\ pc' = pc + 1 /\ input' \in Seq(Cell)
  BY DEF Accesses, At, GoesOn, Next1, NoIo, Inv
<1>2. Now' = PutAt(Now, Address, value)
  BY DEF Write, GoesOn, registers, Now, State, PutAt
<1> QED  BY <1>1, <1>2, OnwardKeepsInv

LEMMA WriteCellKeepsInv ==
  ASSUME NEW known, Inv(known), WriteCell
  PROVE  Inv(known)'
<1>1. /\ tape = Now.tape /\ x12 = Now.x12 /\ w0 = Now.w0
  BY DEF Now, State
<1>2. /\ "add" \in MemoryOps /\ "store" \in MemoryOps /\ "store_w0" \in MemoryOps
      /\ "term" \in MemoryOps
  BY DEF MemoryOps
<1>3. Next1 /\ NoIo /\ GoesOn /\ UNCHANGED <<pointer, registers>>
  BY DEF WriteCell
<1>4. CASE Accesses("add") /\ Write(Byte(tape[Address] + Instr.val))
  <2>1. PutAt(Now, Address, Byte(tape[Address] + Instr.val)) \in known[pc + 1]
    BY <1>1, <1>2, <1>4, AccessReaches DEF TakesMemory
  <2> QED  BY <1>2, <1>3, <1>4, <2>1, WriteKeepsInv
<1>5. CASE Accesses("store") /\ Write(Instr.val)
  <2>1. PutAt(Now, Address, Instr.val) \in known[pc + 1]
    BY <1>1, <1>2, <1>5, AccessReaches DEF TakesMemory
  <2> QED  BY <1>2, <1>3, <1>5, <2>1, WriteKeepsInv
<1>6. CASE Accesses("store_w0") /\ Write(w0)
  <2>1. PutAt(Now, Address, w0) \in known[pc + 1]
    BY <1>1, <1>2, <1>6, AccessReaches DEF TakesMemory
  <2> QED  BY <1>2, <1>3, <1>6, <2>1, WriteKeepsInv
<1>7. CASE Accesses("term") /\ Write(Byte(tape[Address] + x12 * Instr.val))
  <2>1. PutAt(Now, Address, Byte(tape[Address] + x12 * Instr.val)) \in known[pc + 1]
    BY <1>1, <1>2, <1>7, AccessReaches DEF TakesMemory
  <2> QED  BY <1>2, <1>3, <1>7, <2>1, WriteKeepsInv
<1> QED  BY <1>4, <1>5, <1>6, <1>7 DEF WriteCell

LEMMA BranchesKeepInv ==
  ASSUME NEW known, Inv(known), Branches
  PROVE  Inv(known)'
<1>1. /\ code' = code /\ result' = result /\ input' \in Seq(Cell)
      /\ Now' = Now /\ Now.tape = tape /\ Now.x12 = x12
  BY DEF Branches, GoesOn, NoIo, Inv, KeepsTape, registers, Now, State
<1>2. CASE Accesses("jz") /\ Branch(tape[Address] = 0)
  <2>1. "jz" \in MemoryOps  BY DEF MemoryOps
  <2>2. /\ Live
        /\ IF tape[Address] = 0 THEN Now \in known[pc + Instr.to] ELSE Now \in known[pc + 1]
    BY <1>1, <1>2, <2>1, AccessReaches DEF TakesMemory
  <2>3. IF tape[Address] = 0 THEN pc' = pc + Instr.to ELSE pc' = pc + 1
    BY <1>2 DEF Branch
  <2> QED  BY <1>1, <2>2, <2>3, OnwardKeepsInv
<1>3. CASE Accesses("jnz") /\ Branch(tape[Address] # 0)
  <2>1. "jnz" \in MemoryOps  BY DEF MemoryOps
  <2>2. /\ Live
        /\ IF tape[Address] # 0 THEN Now \in known[pc + Instr.to] ELSE Now \in known[pc + 1]
    BY <1>1, <1>3, <2>1, AccessReaches DEF TakesMemory
  <2>3. IF tape[Address] # 0 THEN pc' = pc + Instr.to ELSE pc' = pc + 1
    BY <1>3 DEF Branch
  <2> QED  BY <1>1, <2>2, <2>3, OnwardKeepsInv
<1>4. CASE At("jz_counter") /\ Branch(x12 = 0)
  <2>1. Live /\ Instr.op = "jz_counter"  BY <1>4 DEF At
  <2>2. IF x12 = 0 THEN Now \in known[pc + Instr.to] ELSE Now \in known[pc + 1]
    BY <1>1, <2>1, LiveTakes DEF Takes
  <2>3. IF x12 = 0 THEN pc' = pc + Instr.to ELSE pc' = pc + 1
    BY <1>4 DEF Branch
  <2> QED  BY <1>1, <2>1, <2>2, <2>3, OnwardKeepsInv
<1>5. CASE At("jump") /\ Branch(TRUE)
  <2>1. Live /\ Instr.op = "jump"  BY <1>5 DEF At
  <2>2. Now \in known[pc + Instr.to]
    BY <2>1, LiveTakes DEF Takes
  <2>3. pc' = pc + Instr.to
    BY <1>5 DEF Branch
  <2> QED  BY <1>1, <2>1, <2>2, <2>3, OnwardKeepsInv
<1> QED  BY <1>2, <1>3, <1>4, <1>5 DEF Branches

\* A comparison in a scan that is passed leaves fooled as Misled says.
LEMMA ComparesKeepInv ==
  ASSUME NEW known, Inv(known), Live, NEW ok \in BOOLEAN, NEW inside \in BOOLEAN,
         Compare(ok, inside), KeepsTape, NoIo, UNCHANGED registers,
         Misled(Now, ~inside) \in known[pc + 1]
  PROVE  Inv(known)'
<1>1. Now' = Misled(Now, ok # inside) /\ Check(ok)
  BY DEF Compare, KeepsTape, registers, Now, State, Misled
<1>2. Now' \in Machine
  <2>1. (ok # inside) \in BOOLEAN  OBVIOUS
  <2> QED  BY <1>1, <2>1, LiveTakes, Changed
<1>3. ok => Now' \in known[pc + 1]
  <2> SUFFICES ASSUME ok PROVE Now' \in known[pc + 1]
    OBVIOUS
  <2>1. (ok # inside) = ~inside  OBVIOUS
  <2> QED  BY <1>1, <2>1
<1> QED  BY <1>1, <1>2, <1>3, ChecksKeepInv

LEMMA CheckBoundKeepsInv ==
  ASSUME NEW known, Inv(known), CheckBoundX12
  PROVE  Inv(known)'
<1>1. Live /\ Instr.op = "check_bound" /\ KeepsTape /\ NoIo /\ UNCHANGED registers
  BY DEF CheckBoundX12, At
<1>2. PICK below \in BelowBound(x8) : Compare(below, OnTape(x8))
  BY DEF CheckBoundX12
<1>3. below \in BOOLEAN /\ OnTape(x8) \in BOOLEAN
  <2>1. below \in BOOLEAN
    BY DEF BelowBound
  <2>2. OnTape(x8) \in BOOLEAN
    BY DEF OnTape
  <2> QED  BY <2>1, <2>2
<1>4. Misled(Now, ~OnTape(x8)) \in known[pc + 1]
  <2>1. x8 = Now.x8  BY DEF Now, State
  <2> QED  BY <1>1, <2>1, LiveTakes DEF Takes, TakesCheck, CheckOps
<1> QED  BY <1>1, <1>2, <1>3, <1>4, ComparesKeepInv

LEMMA CheckBackwardKeepsInv ==
  ASSUME NEW known, Inv(known), CheckBackward
  PROVE  Inv(known)'
<1>1. KeepsTape /\ NoIo /\ UNCHANGED registers
  BY DEF CheckBackward
<1>2. x8 = Now.x8
  BY DEF Now, State
<1>3. CASE At("check_back") /\ Check(x8 >= Instr.off) /\ UNCHANGED fooled
  <2>1. Live /\ Instr.op = "check_back"  BY <1>3 DEF At
  <2>2. Now' = Now
    BY <1>1, <1>3 DEF KeepsTape, registers, Now, State
  <2>3. Now' \in Machine /\ (x8 >= Instr.off => Now' \in known[pc + 1])
    BY <1>2, <2>1, <2>2, LiveTakes DEF Takes, TakesCheck, CheckOps
  <2> QED  BY <1>1, <1>3, <2>1, <2>3, ChecksKeepInv
<1>4. CASE /\ At("check_back_imm")
           /\ Compare(x8 >= Instr.off % (MaxImm + 1), x8 >= Instr.off)
  <2>1. Live /\ Instr.op = "check_back_imm"  BY <1>4 DEF At
  <2> DEFINE ok     == x8 >= Instr.off % (MaxImm + 1)
             inside == x8 >= Instr.off
  <2>2. ok \in BOOLEAN /\ inside \in BOOLEAN
    OBVIOUS
  <2>3. Misled(Now, ~inside) \in known[pc + 1]
    BY <1>2, <2>1, LiveTakes DEF Takes, TakesCheck, CheckOps
  <2>4. Compare(ok, inside)
    BY <1>4
  <2> HIDE DEF ok, inside
  <2> QED  BY <1>1, <2>1, <2>2, <2>3, <2>4, ComparesKeepInv
<1> QED  BY <1>3, <1>4 DEF CheckBackward

LEMMA BranchIfOutKeepsInv ==
  ASSUME NEW known, Inv(known), BranchIfOut
  PROVE  Inv(known)'
<1> DEFINE inside == OnTape(x8 + Instr.off)
<1>1. /\ Live /\ Instr.op = "advance_out" /\ code' = code /\ result' = result
      /\ input' \in Seq(Cell) /\ Now.x8 = x8
  BY DEF BranchIfOut, At, NoIo, Inv, Now, State
<1>2. Misled(Now, ~inside) \in known[pc + 1] /\ Misled(Now, inside) \in known[pc + Instr.to]
  BY <1>1, LiveTakes DEF Takes
<1>3. inside \in BOOLEAN
  BY DEF OnTape
<1>4. PICK below \in BelowBound(x8 + Instr.off) :
        Branch(~below) /\ fooled' = (fooled \/ below # inside)
  BY DEF BranchIfOut
<1>5. below \in BOOLEAN
  BY DEF BelowBound
<1>6. Now' = Misled(Now, below # inside)
  BY <1>4 DEF BranchIfOut, KeepsTape, registers, Now, State, Misled
<1> HIDE DEF inside
<1>7. CASE below
  <2>1. (below # inside) = ~inside  BY <1>3, <1>5, <1>7
  <2>2. pc' = pc + 1  BY <1>4, <1>7 DEF Branch
  <2> QED  BY <1>1, <1>2, <1>6, <2>1, <2>2, OnwardKeepsInv
<1>8. CASE ~below
  <2>1. (below # inside) = inside  BY <1>3, <1>5, <1>8
  <2>2. pc' = pc + Instr.to  BY <1>4, <1>8 DEF Branch
  <2> QED  BY <1>1, <1>2, <1>6, <2>1, <2>2, OnwardKeepsInv
<1> QED  BY <1>7, <1>8

LEMMA StorePointerKeepsInv ==
  ASSUME NEW known, Inv(known), StorePointer
  PROVE  Inv(known)'
<1>1. /\ Live /\ Instr.op = "store_ptr" /\ code' = code /\ result' = result
      /\ pc' = pc + 1 /\ input' \in Seq(Cell)
  BY DEF StorePointer, At, GoesOn, Next1, NoIo, Inv
<1>2. Now' = SetPtr(Now, Now.x8)
  BY DEF StorePointer, GoesOn, registers, Now, State, SetPtr
<1>3. Now' \in known[pc + 1]
  BY <1>1, <1>2, LiveTakes DEF Takes
<1> QED  BY <1>1, <1>3, OnwardKeepsInv

LEMMA CallRuntimeReadKeepsInv ==
  ASSUME NEW known, Inv(known), CallRuntimeRead
  PROVE  Inv(known)'
<1>1. /\ Live /\ Instr.op = "call_read" /\ code' = code /\ result' = result /\ pc' = pc + 1
  BY DEF CallRuntimeRead, At, GoesOn, Next1
<1>2. input \in Seq(Cell)
  BY DEF Inv
<1>3. input' \in Seq(Cell) /\ w0' \in Cell
  <2>1. CASE input = <<>>
    <3>1. w0' = EofByte /\ input' = input
      BY <2>1 DEF CallRuntimeRead
    <3> QED  BY <1>2, <3>1, ByteIsCell DEF EofByte
  <2>2. CASE input # <<>>
    <3>1. w0' = Head(input) /\ input' = Tail(input)
      BY <2>2 DEF CallRuntimeRead
    <3> QED  BY <1>2, <2>2, <3>1
  <2> QED  BY <2>1, <2>2
<1>4. Now' = Called(Now, w0')
  BY DEF CallRuntimeRead, Clobbered, KeepsTape, GoesOn, Now, State, Called
<1>5. Now' \in known[pc + 1]
  BY <1>1, <1>3, <1>4, LiveTakes DEF Takes
<1> QED  BY <1>1, <1>3, <1>5, OnwardKeepsInv

LEMMA CallRuntimeWriteKeepsInv ==
  ASSUME NEW known, Inv(known), CallRuntimeWrite
  PROVE  Inv(known)'
<1>1. /\ Accesses("call_write") /\ code' = code /\ result' = result /\ pc' = pc + 1
      /\ input' \in Seq(Cell)
  BY DEF CallRuntimeWrite, GoesOn, Next1, Inv
<1>2. Now' = Called(Now, Junk)
  BY DEF CallRuntimeWrite, Clobbered, KeepsTape, GoesOn, Now, State, Called
<1>3. "call_write" \in MemoryOps
  BY DEF MemoryOps
<1>4. Live /\ Now' \in known[pc + 1]
  BY <1>1, <1>2, <1>3, AccessReaches DEF TakesMemory
<1> QED  BY <1>1, <1>4, OnwardKeepsInv

LEMMA ReturnKeepsInv ==
  ASSUME NEW known, Inv(known), Return
  PROVE  Inv(known)'
<1>1. Now' = Now /\ code' = code /\ pc' = pc /\ input' = input /\ result'.status = "done"
  BY DEF Return, KeepsTape, NoIo, registers, Now, State
<1>2. Now' \in Machine /\ input' \in Seq(Cell)
  BY <1>1 DEF Inv
<1> QED  BY <1>1, <1>2, Ends

LEMMA NextKeepsInv ==
  ASSUME NEW known, Inv(known), [Next]_vars
  PROVE  Inv(known)'
<1>1. CASE Step
  BY <1>1, CompileKeepsInv, CheckBelowKeepsInv, CheckAboveKeepsInv, AddPtrKeepsInv,
     LoadStateKeepsInv, SetCursorKeepsInv, LoadX12KeepsInv, AdvanceX8KeepsInv,
     WriteCellKeepsInv, BranchesKeepInv, CheckBoundKeepsInv, BranchIfOutKeepsInv,
     CheckBackwardKeepsInv, StorePointerKeepsInv, CallRuntimeReadKeepsInv,
     CallRuntimeWriteKeepsInv, ReturnKeepsInv DEF Step
<1>2. CASE UNCHANGED vars
  <2>1. /\ Now' = Now /\ code' = code /\ pc' = pc /\ input' = input /\ result' = result
        /\ Live' = Live
    BY <1>2 DEF vars, registers, Now, State, Live, Running
  <2>2. Annotated(code, known)'
    BY <2>1 DEF Inv, Annotated, Keeps
  <2> QED  BY <2>1, <2>2 DEF Inv
<1> QED  BY <1>1, <1>2 DEF Next, Finished

\* What the invariant says of the properties.
LEMMA InvIsSafe ==
  ASSUME NEW known, Inv(known)
  PROVE  TypeOK /\ AccessesAreSafe /\ CounterIsNonzero
<1>1. TypeOK
  <2>1. /\ tape = Now.tape /\ pointer = Now.pointer /\ x10 = Now.x10 /\ x8 = Now.x8
        /\ x15 = Now.x15 /\ x12 = Now.x12 /\ w0 = Now.w0 /\ fooled = Now.fooled
    BY DEF Now, State
  <2>2. Now \in Machine  BY DEF Inv
  <2> HIDE DEF Now
  <2> QED  BY <2>1, <2>2, MachineFields DEF Inv, TypeOK
<1>2. AccessesAreSafe
  BY AccessTakes DEF AccessesAreSafe
<1>3. CounterIsNonzero
  <2> SUFFICES ASSUME At("term") PROVE x12 \in 1 .. CellCount - 1
    BY DEF CounterIsNonzero
  <2>1. Live /\ Instr.op = "term" /\ Instr.op \in MemoryOps
    BY DEF At, MemoryOps
  <2> QED  BY <2>1, AccessTakes DEF TakesMemory, Counts
<1> QED  BY <1>1, <1>2, <1>3
-----------------------------------------------------------------------------
(* Pieces of code (BFEmitter_proofs).                                      *)

\* Executing may go anywhere from fewer states, and to more.
LEMMA KeepsMonotone ==
  ASSUME NEW i, NEW here, NEW next, NEW there, Keeps(i, here, next, there),
         NEW less, less \subseteq here, NEW more, next \subseteq more,
         NEW else, there \subseteq else
  PROVE  Keeps(i, less, more, else)
<1> SUFFICES ASSUME NEW m \in less PROVE Takes(i, m, more, else)
  BY DEF Keeps
<1>1. Takes(i, m, next, there)
  BY DEF Keeps
<1>2. i.op \in MemoryOps => TakesMemory(i, m, more, else)
  <2> SUFFICES ASSUME i.op \in MemoryOps PROVE TakesMemory(i, m, more, else)
    OBVIOUS
  <2>1. TakesMemory(i, m, next, there)  BY <1>1 DEF Takes
  <2> QED  BY <2>1 DEF TakesMemory
<1>3. i.op \in CheckOps => TakesCheck(i, m, more)
  <2> SUFFICES ASSUME i.op \in CheckOps PROVE TakesCheck(i, m, more)
    OBVIOUS
  <2>1. TakesCheck(i, m, next)  BY <1>1 DEF Takes
  <2> QED  BY <2>1 DEF TakesCheck
<1> QED  BY <1>1, <1>2, <1>3 DEF Takes

LEMMA KeepsIsMonotone == Code!KeepsIsMonotone
<1>1. \A i \in AnyInstruction : i.to \in Int
  BY DEF AnyInstruction
<1>2. \A i, next, there : Keeps(i, {}, next, there)
  BY DEF Keeps
<1> QED  BY <1>1, <1>2, KeepsMonotone DEF Code!KeepsIsMonotone

\* What the lemmas of BFEmitter_proofs rest on, for this machine.
LEMMA CodeAssumptions ==
  /\ Code!KeepsIsMonotone
  /\ CellCount \in Nat \ {0}
  /\ \A n \in Node : /\ n.kind \in Code!Kinds
                     /\ n.arg \in Int
                     /\ n.body \in Seq(Node)
                     /\ n.terms \in Seq(Code!Terms)
  /\ Scopes \subseteq [active : BOOLEAN, min : Int, max : Int]
  BY KeepsIsMonotone, CellCountAssumption, NodeAssumption, ScopesAssumption
     DEF Kinds, Code!Kinds, Terms, Code!Terms

LEMMA FitsWeaker ==
  ASSUME NEW c, NEW P, NEW Q, Fits(c, P, Q), NEW R, R \subseteq P, NEW S, Q \subseteq S
  PROVE  Fits(c, R, S)
  BY CodeAssumptions, Code!FitsWeaker DEF Fits

LEMMA FitsNothing ==
  ASSUME NEW P, P \subseteq Machine
  PROVE  Fits(<<>>, P, P)
  BY CodeAssumptions, Code!FitsNothing DEF Fits

LEMMA FitsOne ==
  ASSUME NEW i \in AnyInstruction, NEW P, P \subseteq Machine, NEW Q, Q \subseteq Machine,
         Keeps(i, P, Q, {})
  PROVE  Fits(<<i>>, P, Q)
  BY CodeAssumptions, Code!FitsOne DEF Fits

LEMMA FitsThen ==
  ASSUME NEW c, NEW P, NEW Q, Fits(c, P, Q), NEW d, NEW R, Fits(d, Q, R)
  PROVE  Fits(c \o d, P, R)
  BY CodeAssumptions, Code!FitsThen DEF Fits

\* A jump over a piece of code.
LEMMA FitsBehindJump ==
  ASSUME NEW i \in AnyInstruction, NEW c, NEW P, P \subseteq Machine, NEW Q,
         NEW R, R \subseteq Machine,
         Fits(c, Q, R), i.to = Len(c) + 1, Keeps(i, P, Q, R)
  PROVE  Fits(<<i>> \o c, P, R)
  BY CodeAssumptions, Code!FitsBehindJump DEF Fits

LEMMA FitsLoop ==
  ASSUME NEW t, NEW c, NEW i \in AnyInstruction, NEW k \in AnyInstruction,
         NEW P, P \subseteq Machine, NEW R, R \subseteq Machine, NEW Q,
         NEW S, S \subseteq Machine,
         Fits(t, P, R), Fits(c, Q, P),
         i.to = Len(t) + Len(c) + 2, k.to = -(Len(t) + Len(c) + Len(t) + 1),
         Keeps(i, R, Q, S), Keeps(k, R, S, P)
  PROVE  Fits(((t \o <<i>>) \o c) \o t \o <<k>>, P, S)
  BY CodeAssumptions, Code!FitsLoop DEF Fits

\* A row of instructions of which each keeps what is known.
LEMMA FitsRow ==
  ASSUME NEW P, P \subseteq Machine, NEW c \in Seq(AnyInstruction),
         \A k \in 1 .. Len(c) : Keeps(c[k], P, P, {})
  PROVE  Fits(c, P, P)
  BY CodeAssumptions, Code!FitsRow DEF Fits

LEMMA FitsIsCode ==
  ASSUME NEW P, NEW Q, NEW c, Fits(c, P, Q)
  PROVE  c \in Seq(AnyInstruction)
  BY CodeAssumptions, Code!FitsIsCode DEF Fits

LEMMA KnownFields ==
  ASSUME NEW L, NEW A, NEW C, NEW O, NEW D, NEW W, NEW Z, NEW m \in Known(L, A, C, O, D, W, Z)
  PROVE  /\ m \in Machine
         /\ L => m.x10
         /\ m.x8 - m.pointer \in A
         /\ m.x15 - m.pointer \in C
         /\ \A d \in O : m.pointer + d \in Index
         /\ m.x12 \in D
         /\ m.w0 \in W
         /\ \A d \in Z : m.tape[m.pointer + d] # 0
  BY DEF Known, OnTape

LEMMA KnownMachine ==
  ASSUME NEW L, NEW A, NEW C, NEW O, NEW D, NEW W, NEW Z
  PROVE  Known(L, A, C, O, D, W, Z) \subseteq Machine
  BY DEF Known

LEMMA KnownLess ==
  ASSUME NEW L, NEW A, NEW C, NEW O, NEW D, NEW W, NEW Z,
         NEW K, K => L, NEW B, A \subseteq B, NEW E, C \subseteq E, NEW P \in SUBSET O,
         NEW F, D \subseteq F, NEW V, W \subseteq V, NEW Y \in SUBSET Z
  PROVE  Known(L, A, C, O, D, W, Z) \subseteq Known(K, B, E, P, F, V, Y)
  BY DEF Known

\* At first nothing is known.
LEMMA KnownAll ==
  /\ Machine = Known(FALSE, Int, Int, {}, AnyX12, AnyW0, {})
  /\ Machine \subseteq Known(FALSE, Int, Int, {0}, AnyX12, AnyW0, {})
<1>1. ASSUME NEW m \in Machine
      PROVE  /\ m.pointer + 0 \in Index /\ m.x12 \in AnyX12 /\ m.w0 \in AnyW0
             /\ m.x8 - m.pointer \in Int /\ m.x15 - m.pointer \in Int
  <2>1. /\ m.pointer \in Index /\ m.pointer \in Int /\ m.x8 \in Int /\ m.x15 \in Int
        /\ m.x12 \in AnyX12 /\ m.w0 \in AnyW0
    BY MachineFields DEF AnyX12, AnyW0
  <2>2. m.pointer + 0 = m.pointer /\ m.x8 - m.pointer \in Int /\ m.x15 - m.pointer \in Int
    BY <2>1
  <2> QED  BY <2>1, <2>2
<1> QED  BY <1>1 DEF Known, OnTape
-----------------------------------------------------------------------------
(* What the instructions keep.                                             *)

LEMMA BelowFits ==
  ASSUME NEW L, NEW A, NEW C, NEW O, NEW D, NEW W, NEW Z,
         NEW min \in Int, min < 0, NEW reason \in 1 .. 9
  PROVE  Fits(<<Below(min, reason)>>, Known(L, A, C, O, D, W, Z),
              Known(L, {0}, C, O \union (min .. 0), D, W, Z))
<1> DEFINE i == Below(min, reason)
           P == Known(L, A, C, O, D, W, Z)
           Q == Known(L, {0}, C, O \union (min .. 0), D, W, Z)
<1>1. i \in AnyInstruction
  BY DEF Below, Instruction, AnyInstruction, Ops, CheckOps
<1>2. i.op = "below" /\ i.off = min /\ i.val = reason
  BY DEF Below, Instruction
<1>3. ASSUME NEW m \in P, m.pointer >= -min PROVE SetX8(m, m.pointer) \in Q
  <2>1. m \in Machine /\ m.pointer \in Index /\ m.pointer \in Int
    BY KnownFields, MachineFields
  <2>2. \A d \in min .. 0 : m.pointer + d \in Index
    BY <1>3, <2>1, TapeAssumption DEF Index
  <2>3. SetX8(m, m.pointer) \in Machine /\ m.pointer - m.pointer = 0
    BY <2>1, Changed
  <2> QED  BY <2>2, <2>3, KnownFields DEF Known, OnTape, State, SetX8
<1>4. Keeps(i, P, Q, {})
  <2> HIDE DEF i, P, Q
  <2> QED  BY <1>2, <1>3 DEF Keeps, Takes, TakesCheck, MemoryOps, CheckOps
<1>5. P \subseteq Machine /\ Q \subseteq Machine
  BY KnownMachine
<1> HIDE DEF i, P, Q
<1>6. Fits(<<i>>, P, Q)
  BY <1>1, <1>4, <1>5, FitsOne
<1> QED  BY <1>6 DEF i, P, Q

LEMMA AboveFits ==
  ASSUME NEW L, NEW A, NEW C, NEW O, NEW D, NEW W, NEW Z,
         NEW max \in Int, max > 0, NEW reason \in 1 .. 9
  PROVE  Fits(<<Above(max, reason)>>, Known(L, A, C, O, D, W, Z),
              Known(L, {0}, C, O \union (0 .. max), {TapeSize}, W, Z))
<1> DEFINE i == Above(max, reason)
           P == Known(L, A, C, O, D, W, Z)
           Q == Known(L, {0}, C, O \union (0 .. max), {TapeSize}, W, Z)
<1>1. i \in AnyInstruction
  BY DEF Above, Instruction, AnyInstruction, Ops, CheckOps
<1>2. i.op = "above" /\ i.off = max /\ i.val = reason
  BY DEF Above, Instruction
<1>3. ASSUME NEW m \in P, m.pointer + max < TapeSize
      PROVE  SetX12(SetX8(m, m.pointer), TapeSize) \in Q
  <2>1. m \in Machine /\ m.pointer \in Index /\ m.pointer \in Int
    BY KnownFields, MachineFields
  <2>2. \A d \in 0 .. max : m.pointer + d \in Index
    BY <1>3, <2>1, TapeAssumption DEF Index
  <2>3. SetX8(m, m.pointer) \in Machine /\ m.pointer - m.pointer = 0
    BY <2>1, Changed
  <2>4. SetX12(SetX8(m, m.pointer), TapeSize) \in Machine
    BY <2>3, Changed
  <2> QED  BY <2>2, <2>3, <2>4, KnownFields DEF Known, OnTape, State, SetX8, SetX12
<1>4. Keeps(i, P, Q, {})
  <2> HIDE DEF i, P, Q
  <2> QED  BY <1>2, <1>3 DEF Keeps, Takes, TakesCheck, MemoryOps, CheckOps
<1>5. P \subseteq Machine /\ Q \subseteq Machine
  BY KnownMachine
<1> HIDE DEF i, P, Q
<1>6. Fits(<<i>>, P, Q)
  BY <1>1, <1>4, <1>5, FitsOne
<1> QED  BY <1>6 DEF i, P, Q

LEMMA LoadFits ==
  ASSUME NEW L, NEW A, NEW C, NEW O, NEW D, NEW W, NEW Z
  PROVE  Fits(<<Load>>, Known(L, A, C, O, D, W, Z), Known(TRUE, {0}, C, O, D, W, Z))
<1> DEFINE P == Known(L, A, C, O, D, W, Z)
           Q == Known(TRUE, {0}, C, O, D, W, Z)
<1>1. Load \in AnyInstruction
  BY DEF Load, Instruction, AnyInstruction, Ops
<1>2. Load.op = "load"
  BY DEF Load, Instruction
<1>3. ASSUME NEW m \in P PROVE Loaded(m) \in Q
  <2>1. m \in Machine /\ m.pointer \in Int
    BY KnownFields, MachineFields
  <2>2. Loaded(m) \in Machine /\ m.pointer - m.pointer = 0
    BY <2>1, Changed
  <2> QED  BY <2>2, KnownFields DEF Known, OnTape, State, Loaded
<1>4. Keeps(Load, P, Q, {})
  <2> HIDE DEF P, Q
  <2> QED  BY <1>2, <1>3 DEF Keeps, Takes, MemoryOps, CheckOps
<1>5. P \subseteq Machine /\ Q \subseteq Machine
  BY KnownMachine
<1> HIDE DEF P, Q
<1>6. Fits(<<Load>>, P, Q)
  BY <1>1, <1>4, <1>5, FitsOne
<1> QED  BY <1>6 DEF P, Q

\* The cursor is set from x8, and moved.
LEMMA CursorFits ==
  ASSUME NEW a \in Int, NEW C, NEW O, NEW D, NEW W, NEW Z, NEW off \in Int
  PROVE  Fits(<<Cursor(off)>>, Known(TRUE, {a}, C, O, D, W, Z),
              Known(TRUE, {a}, {a + off}, O, D, W, Z))
<1> DEFINE i == Cursor(off)
           P == Known(TRUE, {a}, C, O, D, W, Z)
           Q == Known(TRUE, {a}, {a + off}, O, D, W, Z)
<1>1. i \in AnyInstruction
  BY DEF Cursor, Instruction, AnyInstruction, Ops
<1>2. i.op = "cursor" /\ i.off = off
  BY DEF Cursor, Instruction
<1>3. ASSUME NEW m \in P PROVE m.x10 /\ SetX15(m, m.x8 + off) \in Q
  <2>1. m \in Machine /\ m.pointer \in Int /\ m.x8 \in Int /\ m.x8 - m.pointer = a /\ m.x10
    BY KnownFields, MachineFields
  <2> DEFINE v == m.x8 + off
  <2>2. v \in Int /\ v - m.pointer = a + off
    BY <2>1
  <2> HIDE DEF v
  <2>3. SetX15(m, v) \in Machine
    BY <2>1, <2>2, Changed
  <2>4. SetX15(m, v) \in Q
    BY <2>1, <2>2, <2>3, KnownFields DEF Known, OnTape, State, SetX15
  <2> QED  BY <2>1, <2>4 DEF v
<1>4. Keeps(i, P, Q, {})
  <2> HIDE DEF i, P, Q
  <2> QED  BY <1>2, <1>3 DEF Keeps, Takes, MemoryOps, CheckOps
<1>5. P \subseteq Machine /\ Q \subseteq Machine
  BY KnownMachine
<1> HIDE DEF i, P, Q
<1>6. Fits(<<i>>, P, Q)
  BY <1>1, <1>4, <1>5, FitsOne
<1> QED  BY <1>6 DEF i, P, Q

LEMMA MoveCursorFits ==
  ASSUME NEW L, NEW A, NEW c \in Int, NEW O, NEW D, NEW W, NEW Z, NEW delta \in Int
  PROVE  Fits(<<MoveCursor(delta)>>, Known(L, A, {c}, O, D, W, Z),
              Known(L, A, {c + delta}, O, D, W, Z))
<1> DEFINE i == MoveCursor(delta)
           P == Known(L, A, {c}, O, D, W, Z)
           Q == Known(L, A, {c + delta}, O, D, W, Z)
<1>1. i \in AnyInstruction
  BY DEF MoveCursor, Instruction, AnyInstruction, Ops
<1>2. i.op = "move_cursor" /\ i.off = delta
  BY DEF MoveCursor, Instruction
<1>3. ASSUME NEW m \in P PROVE SetX15(m, m.x15 + delta) \in Q
  <2>1. m \in Machine /\ m.pointer \in Int /\ m.x15 \in Int /\ m.x15 - m.pointer = c
    BY KnownFields, MachineFields
  <2> DEFINE v == m.x15 + delta
  <2>2. v \in Int /\ v - m.pointer = c + delta
    BY <2>1
  <2> HIDE DEF v
  <2>3. SetX15(m, v) \in Machine
    BY <2>1, <2>2, Changed
  <2>4. SetX15(m, v) \in Q
    BY <2>1, <2>2, <2>3, KnownFields DEF Known, OnTape, State, SetX15
  <2> QED  BY <2>4 DEF v
<1>4. Keeps(i, P, Q, {})
  <2> HIDE DEF i, P, Q
  <2> QED  BY <1>2, <1>3 DEF Keeps, Takes, MemoryOps, CheckOps
<1>5. P \subseteq Machine /\ Q \subseteq Machine
  BY KnownMachine
<1> HIDE DEF i, P, Q
<1>6. Fits(<<i>>, P, Q)
  BY <1>1, <1>4, <1>5, FitsOne
<1> QED  BY <1>6 DEF i, P, Q

LEMMA AddX8Fits ==
  ASSUME NEW L, NEW a \in Int, NEW C, NEW O, NEW D, NEW W, NEW Z, NEW delta \in Int
  PROVE  Fits(<<AddX8(delta)>>, Known(L, {a}, C, O, D, W, Z),
              Known(L, {a + delta}, C, O, D, W, Z))
<1> DEFINE i == AddX8(delta)
           P == Known(L, {a}, C, O, D, W, Z)
           Q == Known(L, {a + delta}, C, O, D, W, Z)
<1>1. i \in AnyInstruction
  BY DEF AddX8, Instruction, AnyInstruction, Ops
<1>2. i.op = "advance" /\ i.off = delta
  BY DEF AddX8, Instruction
<1>3. ASSUME NEW m \in P PROVE SetX8(m, m.x8 + delta) \in Q
  <2>1. m \in Machine /\ m.pointer \in Int /\ m.x8 \in Int /\ m.x8 - m.pointer = a
    BY KnownFields, MachineFields
  <2> DEFINE v == m.x8 + delta
  <2>2. v \in Int /\ v - m.pointer = a + delta
    BY <2>1
  <2> HIDE DEF v
  <2>3. SetX8(m, v) \in Machine
    BY <2>1, <2>2, Changed
  <2>4. SetX8(m, v) \in Q
    BY <2>1, <2>2, <2>3, KnownFields DEF Known, OnTape, State, SetX8
  <2> QED  BY <2>4 DEF v
<1>4. Keeps(i, P, Q, {})
  <2> HIDE DEF i, P, Q
  <2> QED  BY <1>2, <1>3 DEF Keeps, Takes, MemoryOps, CheckOps
<1>5. P \subseteq Machine /\ Q \subseteq Machine
  BY KnownMachine
<1> HIDE DEF i, P, Q
<1>6. Fits(<<i>>, P, Q)
  BY <1>1, <1>4, <1>5, FitsOne
<1> QED  BY <1>6 DEF i, P, Q

\* The pointer is moved, checked or as x8, which is on the tape, and stored.
LEMMA MovePtrFits ==
  ASSUME NEW delta \in Int
  PROVE  Fits(<<MovePtr(delta)>>, Machine, Machine)
<1> DEFINE i == MovePtr(delta)
<1>1. i \in AnyInstruction
  BY DEF MovePtr, Instruction, AnyInstruction, Ops, CheckOps
<1>2. i.op = "add_ptr" /\ i.off = delta /\ i.val = 1
  BY DEF MovePtr, Instruction
<1>3. ASSUME NEW m \in Machine, m.pointer + delta \in Index
      PROVE  SetPtr(SetX8(m, m.pointer + delta), m.pointer + delta) \in Machine
  <2>1. m.pointer + delta \in Int  BY <1>3 DEF Index
  <2>2. SetX8(m, m.pointer + delta) \in Machine  BY <2>1, Changed
  <2> QED  BY <1>3, <2>2, Changed
<1>4. Keeps(i, Machine, Machine, {})
  <2> HIDE DEF i
  <2> QED  BY <1>2, <1>3 DEF Keeps, Takes, TakesCheck, MemoryOps, CheckOps, OnTape
<1> QED  BY <1>1, <1>4, FitsOne

LEMMA StorePtrType == StorePtr \in AnyInstruction /\ StorePtr.op = "store_ptr"
  BY DEF StorePtr, Instruction, AnyInstruction, Ops

LEMMA StorePtrKeeps ==
  ASSUME NEW P, \A m \in P : m \in Machine /\ m.x8 \in Index
  PROVE  Keeps(StorePtr, P, Machine, {})
<1>1. ASSUME NEW m \in P PROVE SetPtr(m, m.x8) \in Machine
  BY Changed
<1> QED  BY <1>1, StorePtrType DEF Keeps, Takes, MemoryOps, CheckOps

LEMMA StorePtrFits ==
  ASSUME NEW L, NEW a \in Int, NEW C, NEW O, a \in O, NEW D, NEW W, NEW Z
  PROVE  Fits(<<StorePtr>>, Known(L, {a}, C, O, D, W, Z), Machine)
<1> DEFINE P == Known(L, {a}, C, O, D, W, Z)
<1>1. \A m \in P : m \in Machine /\ m.x8 \in Index
  <2> TAKE m \in P
  <2>1. /\ m \in Machine /\ m.pointer \in Int /\ m.x8 \in Int
        /\ m.x8 - m.pointer = a /\ m.pointer + a \in Index
    BY KnownFields, MachineFields
  <2>2. m.x8 = m.pointer + a  BY <2>1
  <2> QED  BY <2>1, <2>2
<1>2. P \subseteq Machine
  BY KnownMachine
<1> HIDE DEF P
<1>3. Keeps(StorePtr, P, Machine, {})
  BY <1>1, StorePtrKeeps
<1>4. Fits(<<StorePtr>>, P, Machine)
  BY <1>2, <1>3, StorePtrType, FitsOne
<1> QED  BY <1>4 DEF P

\* Calls leave nothing in the registers, but the byte that was read.
LEMMA CallReadFits ==
  ASSUME NEW L, NEW A, NEW C, NEW O, NEW D, NEW W, NEW Z
  PROVE  Fits(<<CallRead>>, Known(L, A, C, O, D, W, Z),
              Known(FALSE, Int, Int, O, AnyX12, Cell, {}))
<1> DEFINE P == Known(L, A, C, O, D, W, Z)
           Q == Known(FALSE, Int, Int, O, AnyX12, Cell, {})
<1>1. CallRead \in AnyInstruction
  BY DEF CallRead, Instruction, AnyInstruction, Ops
<1>2. CallRead.op = "call_read"
  BY DEF CallRead, Instruction
<1>3. ASSUME NEW m \in P, NEW byte \in Cell PROVE Called(m, byte) \in Q
  <2>1. m \in Machine /\ m.pointer \in Int
    BY KnownFields, MachineFields
  <2>2. Called(m, byte) \in Machine
    BY <2>1, Changed
  <2>3. Junk - m.pointer \in Int /\ Junk \in AnyX12
    BY <2>1, JunkType DEF AnyX12
  <2> QED  BY <2>2, <2>3, KnownFields DEF Known, OnTape, State, Called
<1>4. Keeps(CallRead, P, Q, {})
  <2> HIDE DEF P, Q
  <2> QED  BY <1>2, <1>3 DEF Keeps, Takes, MemoryOps, CheckOps
<1>5. P \subseteq Machine /\ Q \subseteq Machine
  BY KnownMachine
<1> HIDE DEF P, Q
<1>6. Fits(<<CallRead>>, P, Q)
  BY <1>1, <1>4, <1>5, FitsOne
<1> QED  BY <1>6 DEF P, Q
-----------------------------------------------------------------------------
(* What the instructions that access the tape keep.                        *)

\* The instruction's cell is the one at the offset z from the pointer, as far as
\* x10 holds the tape's address, x8 is one of A and the cursor one of C away.
Hits(i, z, L, A, C) ==
  IF i.base = "x15" THEN \A c \in C : c + i.off = z
  ELSE L /\ \A a \in A : a + i.off = z

LEMMA HitIsReached ==
  ASSUME NEW L, NEW A, NEW C, NEW O, NEW D, NEW W, NEW Z,
         NEW m \in Known(L, A, C, O, D, W, Z),
         NEW i, i.off \in Int, NEW z \in O, z \in Int, Hits(i, z, L, A, C)
  PROVE  /\ Place(m, i) = m.pointer + z /\ m.pointer + z \in Index
         /\ Reaches(m, i) /\ m.tape[m.pointer + z] \in Cell
<1>1. /\ m \in Machine /\ m.pointer \in Int /\ m.x8 \in Int /\ m.x15 \in Int
      /\ m.tape \in [Index -> Cell]
      /\ m.x8 - m.pointer \in A /\ m.x15 - m.pointer \in C /\ m.pointer + z \in Index
      /\ L => m.x10
  BY KnownFields, MachineFields
<1>2. Place(m, i) = m.pointer + z /\ (i.base # "x15" => m.x10)
  <2>1. CASE i.base = "x15"
    <3>1. (m.x15 - m.pointer) + i.off = z  BY <1>1, <2>1 DEF Hits
    <3>2. m.x15 + i.off = m.pointer + z  BY <1>1, <3>1
    <3> QED  BY <2>1, <3>2 DEF Place
  <2>2. CASE i.base # "x15"
    <3>1. (m.x8 - m.pointer) + i.off = z /\ L  BY <1>1, <2>2 DEF Hits
    <3>2. m.x8 + i.off = m.pointer + z  BY <1>1, <3>1
    <3> QED  BY <1>1, <2>2, <3>1, <3>2 DEF Place
  <2> QED  BY <2>1, <2>2
<1>3. m.tape[m.pointer + z] \in Cell
  BY <1>1
<1> QED  BY <1>1, <1>2, <1>3 DEF Reaches, OnTape

Writes == {"add", "store", "store_w0", "term"}

LEMMA WritesKeep ==
  ASSUME NEW L, NEW A, NEW C, NEW O, NEW D, NEW W,
         NEW i \in AnyInstruction, i.op \in Writes,
         NEW z \in O, z \in Int, Hits(i, z, L, A, C),
         i.op = "store" => i.val \in Cell,
         i.op = "store_w0" => W \subseteq Cell,
         i.op = "term" => D \subseteq Counts
  PROVE  Keeps(i, Known(L, A, C, O, D, W, {}), Known(L, A, C, O, D, W, {}), {})
<1> DEFINE P == Known(L, A, C, O, D, W, {})
<1>1. i.op \in MemoryOps \ CheckOps
  BY DEF Writes, MemoryOps, CheckOps
<1>2. i.off \in Int /\ i.val \in Int
  BY DEF AnyInstruction
<1>3. ASSUME NEW m \in P PROVE TakesMemory(i, m, P, {})
  <2> DEFINE k    == Place(m, i)
             cell == m.tape[k]
  <2>1. k = m.pointer + z /\ k \in Index /\ Reaches(m, i) /\ cell \in Cell
    BY <1>2, HitIsReached
  <2>2. m \in Machine /\ m.x12 \in D /\ m.w0 \in W
    BY KnownFields
  <2> HIDE DEF k
  <2>3. cell \in Int
    BY <2>1, CellCountAssumption DEF Cell
  <2> HIDE DEF cell
  <2>4. ASSUME NEW v \in Cell PROVE PutAt(m, k, v) \in P
    <3>1. PutAt(m, k, v) \in Machine
      BY <2>1, <2>2, Changed
    <3> QED  BY <3>1, KnownFields DEF Known, OnTape, State, PutAt
  <2>5. i.op = "add" => PutAt(m, k, Byte(cell + i.val)) \in P
    <3>1. cell + i.val \in Int  BY <1>2, <2>3
    <3> HIDE DEF P
    <3> QED  BY <2>4, <3>1, ByteIsCell
  <2>6. i.op = "term" => m.x12 \in Counts /\ PutAt(m, k, Byte(cell + m.x12 * i.val)) \in P
    <3> SUFFICES ASSUME i.op = "term"
                 PROVE  m.x12 \in Counts /\ PutAt(m, k, Byte(cell + m.x12 * i.val)) \in P
      OBVIOUS
    <3>1. m.x12 \in Counts  BY <2>2
    <3>2. m.x12 \in Int  BY <3>1, CellCountAssumption DEF Counts
    <3>3. m.x12 * i.val \in Int  BY <1>2, <3>2
    <3> DEFINE sum == cell + m.x12 * i.val
    <3>4. sum \in Int  BY <2>3, <3>3
    <3> HIDE DEF sum, P
    <3>5. PutAt(m, k, Byte(sum)) \in P  BY <2>4, <3>4, ByteIsCell
    <3> QED  BY <3>1, <3>5 DEF sum
  <2>7. i.op = "store" => PutAt(m, k, i.val) \in P
    <3> HIDE DEF P
    <3> QED  BY <2>4
  <2>8. i.op = "store_w0" => PutAt(m, k, m.w0) \in P
    <3> HIDE DEF P
    <3> QED  BY <2>2, <2>4
  <2>9. i.op \in Writes
    OBVIOUS
  <2> HIDE DEF P
  <2> QED  BY <2>1, <2>5, <2>6, <2>7, <2>8, <2>9 DEF TakesMemory, Writes, k, cell
<1>4. ASSUME NEW m \in P PROVE Takes(i, m, P, {})
  <2>1. /\ i.op \notin CheckOps
        /\ i.op \notin {"load", "cursor", "move_cursor", "load_bound", "advance", "jz_counter",
                        "jump", "advance_out", "store_ptr", "call_read"}
    BY DEF Writes, CheckOps
  <2>2. TakesMemory(i, m, P, {})  BY <1>3
  <2> HIDE DEF P
  <2> QED  BY <2>1, <2>2 DEF Takes
<1> QED  BY <1>4 DEF Keeps

\* A counter that is known not to be 0 is loaded so.
LEMMA LoadCounterType ==
  /\ LoadCounter \in AnyInstruction /\ LoadCounter.op = "load_counter"
  /\ LoadCounter.base = "x15" /\ LoadCounter.off = 0
  BY DEF LoadCounter, Instruction, AnyInstruction, Ops, MemoryOps, Bases

LEMMA LoadCounterKeeps ==
  ASSUME NEW L, NEW A, NEW c \in Int, NEW O, c \in O, NEW D, NEW W, NEW Z, NEW Q,
         \A m \in Known(L, A, {c}, O, D, W, Z) :
           m.tape[m.pointer + c] \in Cell => SetX12(m, m.tape[m.pointer + c]) \in Q
  PROVE  Keeps(LoadCounter, Known(L, A, {c}, O, D, W, Z), Q, {})
<1> DEFINE P == Known(L, A, {c}, O, D, W, Z)
<1>1. Hits(LoadCounter, c, L, A, {c}) /\ LoadCounter.off \in Int
  BY LoadCounterType DEF Hits
<1>2. ASSUME NEW m \in P
      PROVE  /\ Reaches(m, LoadCounter)
             /\ SetX12(m, m.tape[Place(m, LoadCounter)]) \in Q
  <2>1. /\ Place(m, LoadCounter) = m.pointer + c /\ Reaches(m, LoadCounter)
        /\ m.tape[m.pointer + c] \in Cell
    BY <1>1, HitIsReached
  <2> QED  BY <2>1
<1> HIDE DEF P
<1>3. Keeps(LoadCounter, P, Q, {})
  BY <1>2, LoadCounterType DEF Keeps, Takes, TakesMemory, MemoryOps, CheckOps
<1> QED  BY <1>3 DEF P

LEMMA LoadCounterFits ==
  ASSUME NEW L, NEW A, NEW c \in Int, NEW O, c \in O, NEW D, NEW W, NEW Z, c \in Z
  PROVE  Fits(<<LoadCounter>>, Known(L, A, {c}, O, D, W, Z), Known(L, A, {c}, O, Counts, W, {}))
<1> DEFINE P == Known(L, A, {c}, O, D, W, Z)
           Q == Known(L, A, {c}, O, Counts, W, {})
<1>1. ASSUME NEW m \in P, m.tape[m.pointer + c] \in Cell
      PROVE  SetX12(m, m.tape[m.pointer + c]) \in Q
  <2> DEFINE v == m.tape[m.pointer + c]
  <2>1. v \in Cell /\ v # 0
    BY <1>1, KnownFields
  <2>2. v \in Counts
    BY <2>1, CellCountAssumption DEF Cell, Counts
  <2> HIDE DEF v
  <2>3. SetX12(m, v) \in Machine
    BY <2>1, KnownFields, Changed
  <2>4. SetX12(m, v) \in Q
    BY <2>2, <2>3, KnownFields DEF Known, OnTape, State, SetX12
  <2> QED  BY <2>4 DEF v
<1> HIDE DEF Q
<1>2. Keeps(LoadCounter, P, Q, {})
  BY <1>1, LoadCounterKeeps
<1>3. P \subseteq Machine /\ Q \subseteq Machine
  BY KnownMachine DEF Q
<1> HIDE DEF P
<1>4. Fits(<<LoadCounter>>, P, Q)
  BY <1>2, <1>3, LoadCounterType, FitsOne
<1> QED  BY <1>4 DEF P, Q

\* A counter that has been loaded is tested.
Counted(A, c, O) ==
  {m \in Known(TRUE, A, {c}, O, Cell, AnyW0, {}) : m.x12 = m.tape[m.pointer + c]}

LEMMA CountFits ==
  ASSUME NEW A, A \subseteq Int, NEW c \in Int, NEW O, c \in O
  PROVE  Fits(<<LoadCounter>>, Known(TRUE, A, {c}, O, AnyX12, AnyW0, {}), Counted(A, c, O))
<1> DEFINE P == Known(TRUE, A, {c}, O, AnyX12, AnyW0, {})
           Q == Counted(A, c, O)
<1>1. ASSUME NEW m \in P, m.tape[m.pointer + c] \in Cell
      PROVE  SetX12(m, m.tape[m.pointer + c]) \in Q
  <2> DEFINE v == m.tape[m.pointer + c]
  <2>1. v \in Cell
    BY <1>1
  <2>2. SetX12(m, v) \in Machine
    <3> HIDE DEF v
    <3> QED  BY <2>1, KnownFields, Changed
  <2>3. SetX12(m, v) \in Known(TRUE, A, {c}, O, Cell, AnyW0, {})
    <3> HIDE DEF v
    <3> QED  BY <2>1, <2>2, KnownFields DEF Known, OnTape, State, SetX12
  <2>4. /\ SetX12(m, v).x12 = v /\ SetX12(m, v).tape = m.tape
        /\ SetX12(m, v).pointer = m.pointer
    BY DEF State, SetX12
  <2> QED  BY <2>3, <2>4 DEF Counted
<1> HIDE DEF Q
<1>2. Keeps(LoadCounter, P, Q, {})
  BY <1>1, LoadCounterKeeps
<1>3. P \subseteq Machine /\ Q \subseteq Machine
  BY KnownMachine DEF Q, Counted
<1> HIDE DEF P
<1>4. Fits(<<LoadCounter>>, P, Q)
  BY <1>2, <1>3, LoadCounterType, FitsOne
<1> QED  BY <1>4 DEF P, Q

LEMMA IfCounterZeroKeeps ==
  ASSUME NEW A, NEW c \in Int, NEW O, NEW to \in Int
  PROVE  /\ IfCounterZero(to) \in AnyInstruction /\ IfCounterZero(to).to = to
         /\ Keeps(IfCounterZero(to), Counted(A, c, O),
                  Known(TRUE, A, {c}, O, AnyX12, AnyW0, {c}), Machine)
<1> DEFINE i == IfCounterZero(to)
           P == Counted(A, c, O)
           Q == Known(TRUE, A, {c}, O, AnyX12, AnyW0, {c})
<1>1. i \in AnyInstruction
  BY DEF IfCounterZero, Instruction, AnyInstruction, Ops
<1>2. i.op = "jz_counter" /\ i.to = to
  BY DEF IfCounterZero, Instruction
<1>3. ASSUME NEW m \in P PROVE m \in Machine /\ (m.x12 # 0 => m \in Q)
  <2>1. m \in Known(TRUE, A, {c}, O, Cell, AnyW0, {}) /\ m.x12 = m.tape[m.pointer + c]
    BY DEF Counted
  <2>2. m \in Machine /\ m.x12 \in AnyX12
    BY <2>1, KnownFields, MachineFields DEF AnyX12
  <2> QED  BY <2>1, <2>2 DEF Known
<1>4. Keeps(i, P, Q, Machine)
  <2> HIDE DEF i, P, Q
  <2> QED  BY <1>2, <1>3 DEF Keeps, Takes, MemoryOps, CheckOps
<1> QED  BY <1>1, <1>2, <1>4

\* A branch on a cell finds out whether it is 0.
LEMMA BranchesKeep ==
  ASSUME NEW L, NEW A, NEW C, NEW O, NEW D, NEW W, NEW z \in O, z \in Int,
         NEW i \in AnyInstruction, Hits(i, z, L, A, C)
  PROVE  /\ i.op = "jz" => Keeps(i, Known(L, A, C, O, D, W, {}),
                                 Known(L, A, C, O, D, W, {z}), Machine)
         /\ i.op = "jnz" => Keeps(i, Known(L, A, C, O, D, W, {}), Machine, Machine)
<1> DEFINE P == Known(L, A, C, O, D, W, {})
           Q == Known(L, A, C, O, D, W, {z})
<1>1. i.off \in Int
  BY DEF AnyInstruction
<1>2. ASSUME NEW m \in P
      PROVE  /\ Reaches(m, i) /\ m \in Machine
             /\ m.tape[Place(m, i)] # 0 => m \in Q
  <2>1. Place(m, i) = m.pointer + z /\ Reaches(m, i)
    BY <1>1, HitIsReached
  <2>2. m.tape[m.pointer + z] # 0 => m \in Q
    BY DEF Known
  <2> QED  BY <2>1, <2>2, KnownFields
<1> HIDE DEF P, Q
<1>3. i.op = "jz" => Keeps(i, P, Q, Machine)
  BY <1>2 DEF Keeps, Takes, TakesMemory, MemoryOps, CheckOps
<1>4. i.op = "jnz" => Keeps(i, P, Machine, Machine)
  BY <1>2 DEF Keeps, Takes, TakesMemory, MemoryOps, CheckOps
<1> QED  BY <1>3, <1>4 DEF P, Q

LEMMA CallWriteFits ==
  ASSUME NEW L, NEW A, NEW C, NEW O, NEW D, NEW W, NEW Z, NEW z \in O, z \in Int,
         NEW i \in AnyInstruction, i.op = "call_write", Hits(i, z, L, A, C)
  PROVE  Fits(<<i>>, Known(L, A, C, O, D, W, Z), Machine)
<1> DEFINE P == Known(L, A, C, O, D, W, Z)
<1>1. i.off \in Int
  BY DEF AnyInstruction
<1>2. ASSUME NEW m \in P PROVE Reaches(m, i) /\ Called(m, Junk) \in Machine
  <2>1. Reaches(m, i)
    BY <1>1, HitIsReached
  <2>2. Called(m, Junk) \in Machine
    BY KnownFields, Changed
  <2> QED  BY <2>1, <2>2
<1> HIDE DEF P
<1>3. Keeps(i, P, Machine, {})
  BY <1>2 DEF Keeps, Takes, TakesMemory, MemoryOps, CheckOps
<1>4. P \subseteq Machine
  BY KnownMachine DEF P
<1>5. Fits(<<i>>, P, Machine)
  BY <1>3, <1>4, FitsOne
<1> QED  BY <1>5 DEF P
-----------------------------------------------------------------------------
(* Guards.                                                                 *)

\* A guard that checks anything loads the pointer into x8; one that does not leaves
\* it where it was.  B is where it may be then.
LEMMA RangeGuardFits ==
  ASSUME NEW L, NEW A, NEW B, 0 \in B, NEW C, NEW O, NEW W, NEW Z,
         NEW scope, ~scope.active, NEW min \in Int, NEW max \in Int,
         A \subseteq B \/ min < 0 \/ max > 0,
         NEW below \in 1 .. 9, NEW above \in 1 .. 9
  PROVE  Fits(RangeGuard(scope, min, max, below, above),
              Known(L, A, C, O, AnyX12, W, Z),
              Known(L, B, C, O \union (min .. max), AnyX12, W, Z))
<1> DEFINE lower == When(min < 0, <<Below(min, below)>>)
           upper == When(max > 0, <<Above(max, above)>>)
           E == IF min < 0 THEN {0} ELSE A
           F == IF max > 0 THEN {0} ELSE E
           P == O \union (min .. 0)
           Q == P \union (0 .. max)
           K1 == Known(L, A, C, O, AnyX12, W, Z)
           K2 == Known(L, E, C, P, AnyX12, W, Z)
           K3 == Known(L, F, C, Q, AnyX12, W, Z)
           K4 == Known(L, B, C, O \union (min .. max), AnyX12, W, Z)
<1>1. RangeGuard(scope, min, max, below, above) = lower \o upper
  BY DEF RangeGuard, Covers
<1>2. ASSUME NEW m \in Machine PROVE m.pointer + 0 \in Index
  <2>1. m.pointer \in Index /\ m.pointer \in Int  BY MachineFields
  <2>2. m.pointer + 0 = m.pointer  BY <2>1
  <2> QED  BY <2>1, <2>2
<1>3. Fits(lower, K1, K2)
  <2>1. CASE min < 0
    <3>1. lower = <<Below(min, below)>> /\ E = {0}  BY <2>1 DEF When
    <3>2. Fits(<<Below(min, below)>>, K1, Known(L, {0}, C, P, AnyX12, W, Z))
      <4> HIDE DEF lower, upper
      <4> QED  BY <2>1, BelowFits
    <3> HIDE DEF lower, E, P, K1
    <3> QED  BY <3>1, <3>2
  <2>2. CASE ~(min < 0)
    <3>1. lower = <<>> /\ E = A  BY <2>2 DEF When
    <3>2. K1 \subseteq K2
      <4>1. \A d \in min .. 0 : d = 0  BY <2>2
      <4> QED  BY <1>2, <3>1, <4>1 DEF Known, OnTape
    <3>3. Fits(<<>>, K1, K1)  BY KnownMachine, FitsNothing
    <3>4. K1 \subseteq K1  OBVIOUS
    <3> HIDE DEF lower, K1, K2
    <3> QED  BY <3>1, <3>2, <3>3, <3>4, FitsWeaker
  <2> QED  BY <2>1, <2>2
<1>4. Fits(upper, K2, K3)
  <2> HIDE DEF P, E
  <2>1. CASE max > 0
    <3>1. upper = <<Above(max, above)>> /\ F = {0}  BY <2>1 DEF When
    <3>2. Fits(<<Above(max, above)>>, K2, Known(L, {0}, C, Q, {TapeSize}, W, Z))
      <4> HIDE DEF lower, upper
      <4> QED  BY <2>1, AboveFits
    <3>3. Known(L, {0}, C, Q, {TapeSize}, W, Z) \subseteq K3
      <4>1. TapeSize \in AnyX12  BY DEF AnyX12
      <4> QED  BY <3>1, <4>1 DEF Known
    <3>4. K2 \subseteq K2  OBVIOUS
    <3> HIDE DEF upper, Q, K2, K3
    <3> QED  BY <3>1, <3>2, <3>3, <3>4, FitsWeaker
  <2>2. CASE ~(max > 0)
    <3>1. upper = <<>> /\ F = E  BY <2>2 DEF When
    <3>2. K2 \subseteq K3
      <4>1. \A d \in 0 .. max : d = 0  BY <2>2
      <4> QED  BY <1>2, <3>1, <4>1 DEF Known, OnTape
    <3>3. Fits(<<>>, K2, K2)  BY KnownMachine, FitsNothing
    <3>4. K2 \subseteq K2  OBVIOUS
    <3> HIDE DEF upper, K2, K3
    <3> QED  BY <3>1, <3>2, <3>3, <3>4, FitsWeaker
  <2> QED  BY <2>1, <2>2
<1>5. K3 \subseteq K4
  <2>1. O \union (min .. max) \subseteq Q  OBVIOUS
  <2>2. F \subseteq B  OBVIOUS
  <2> HIDE DEF Q, F
  <2> QED  BY <2>1, <2>2 DEF Known
<1> HIDE DEF lower, upper, K1, K2, K3, K4
<1>6. Fits(lower \o upper, K1, K3)
  BY <1>3, <1>4, FitsThen
<1>7. K1 \subseteq K1  OBVIOUS
<1>8. Fits(lower \o upper, K1, K4)
  BY <1>5, <1>6, <1>7, FitsWeaker
<1> QED  BY <1>1, <1>8 DEF K1, K4

Bounded(S) == S \subseteq Int /\ S # {} /\ \E b \in Nat : \A d \in S : -b <= d /\ d <= b

LEMMA GuardAllFits ==
  ASSUME NEW L, NEW A, NEW B, 0 \in B, NEW C, NEW O, NEW W, NEW Z,
         NEW scope, ~scope.active, NEW S, Bounded(S),
         A \subseteq B \/ (\E d \in S : d # 0),
         NEW below \in 1 .. 9, NEW above \in 1 .. 9
  PROVE  Fits(GuardAll(scope, S, below, above), Known(L, A, C, O, AnyX12, W, Z),
              Known(L, B, C, O \union S, AnyX12, W, Z))
<1> DEFINE min == Least(S)
           max == Greatest(S)
<1>1. PICK b \in Nat : \A d \in S : -b <= d /\ d <= b
  BY DEF Bounded
<1>2. S \subseteq Int /\ S # {}
  BY DEF Bounded
<1>3. min \in S /\ (\A y \in S : min <= y)
  <2>1. -b \in Int  OBVIOUS
  <2> QED  BY <1>1, <1>2, <2>1, LeastOfBounded
<1>4. max \in S /\ (\A y \in S : y <= max)
  <2>1. b \in Int  OBVIOUS
  <2> QED  BY <1>1, <1>2, <2>1, GreatestOfBounded
<1>5. GuardAll(scope, S, below, above) = RangeGuard(scope, min, max, below, above)
  BY DEF GuardAll
<1> HIDE DEF min, max
<1>6. min \in Int /\ max \in Int
  BY <1>2, <1>3, <1>4
<1>7. \A y \in S : y \in min .. max
  BY <1>2, <1>3, <1>4, <1>6
<1>8. A \subseteq B \/ min < 0 \/ max > 0
  <2>1. ASSUME NEW d \in S, d # 0 PROVE min < 0 \/ max > 0
    <3>1. d \in min .. max  BY <1>7
    <3> QED  BY <1>6, <2>1, <3>1
  <2> QED  BY <2>1
<1>9. Fits(RangeGuard(scope, min, max, below, above), Known(L, A, C, O, AnyX12, W, Z),
           Known(L, B, C, O \union (min .. max), AnyX12, W, Z))
  BY <1>6, <1>8, RangeGuardFits
<1>10. Known(L, B, C, O \union (min .. max), AnyX12, W, Z)
         \subseteq Known(L, B, C, O \union S, AnyX12, W, Z)
  BY <1>7 DEF Known
<1>11. Known(L, A, C, O, AnyX12, W, Z) \subseteq Known(L, A, C, O, AnyX12, W, Z)
  OBVIOUS
<1> QED  BY <1>5, <1>9, <1>10, <1>11, FitsWeaker

\* The states in which the cells at the offsets O are on the tape, and in which x10
\* and x8 have been loaded.
Guarded(O) == Known(FALSE, Int, Int, O, AnyX12, AnyW0, {})
Ready(O)   == Known(TRUE, {0}, Int, O, AnyX12, AnyW0, {})

\* The guards of a piece of code, from any state.
LEMMA GuardsFit ==
  ASSUME NEW scope, ~scope.active, NEW below \in 1 .. 9, NEW above \in 1 .. 9
  PROVE  /\ \A off \in Int :
              Fits(RangeGuard(scope, off, off, below, above), Machine, Guarded({off}))
         /\ \A S : Bounded(S) => Fits(GuardAll(scope, S, below, above), Machine, Guarded(S))
<1>1. 0 \in Int /\ Int \subseteq Int
  OBVIOUS
<1>2. ASSUME NEW off \in Int
      PROVE  Fits(RangeGuard(scope, off, off, below, above), Machine, Guarded({off}))
  <2>1. {} \union (off .. off) = {off}
    OBVIOUS
  <2>2. Fits(RangeGuard(scope, off, off, below, above),
             Known(FALSE, Int, Int, {}, AnyX12, AnyW0, {}),
             Known(FALSE, Int, Int, {} \union (off .. off), AnyX12, AnyW0, {}))
    BY <1>1, RangeGuardFits
  <2> QED  BY <2>1, <2>2, KnownAll DEF Guarded
<1>3. ASSUME NEW S, Bounded(S)
      PROVE  Fits(GuardAll(scope, S, below, above), Machine, Guarded(S))
  <2>1. {} \union S = S
    OBVIOUS
  <2>2. Fits(GuardAll(scope, S, below, above),
             Known(FALSE, Int, Int, {}, AnyX12, AnyW0, {}),
             Known(FALSE, Int, Int, {} \union S, AnyX12, AnyW0, {}))
    BY <1>1, <1>3, GuardAllFits
  <2> QED  BY <2>1, <2>2, KnownAll DEF Guarded
<1> QED  BY <1>2, <1>3
-----------------------------------------------------------------------------
(* Accesses at an offset from the pointer.                                 *)

IsAccess(i, op, base, off, val) ==
  i \in AnyInstruction /\ i.op = op /\ i.base = base /\ i.off = off /\ i.val = val

LEMMA InstructionType ==
  ASSUME NEW op \in MemoryOps, NEW base \in Bases, NEW off \in Int, NEW val \in Int, NEW to \in Int
  PROVE  /\ IsAccess(Instruction(op, base, off, val, to), op, base, off, val)
         /\ Instruction(op, base, off, val, to).to = to
<1> DEFINE T == {""} \union Bases
           i == Instruction(op, base, off, val, to)
<1>1. op \in Ops /\ base \in T
  BY DEF Ops
<1>2. AnyInstruction = [op : Ops, base : T, off : Int, val : Int, to : Int]
  BY DEF AnyInstruction
<1>3. i = [op |-> op, base |-> base, off |-> off, val |-> val, to |-> to]
  BY DEF Instruction
<1> HIDE DEF T, i
<1>4. i \in AnyInstruction
  BY <1>1, <1>2, <1>3
<1>5. i.op = op /\ i.base = base /\ i.off = off /\ i.val = val /\ i.to = to
  BY <1>3
<1> QED  BY <1>4, <1>5 DEF IsAccess, i

LEMMA AccessTypes ==
  ASSUME NEW base \in Bases, NEW off \in Int, NEW v \in Int
  PROVE  /\ IsAccess(AddTo(base, off, v), "add", base, off, v)
         /\ IsAccess(Store(base, off, v), "store", base, off, v)
         /\ IsAccess(Term(base, off, v), "term", base, off, v)
         /\ IsAccess(StoreW0(base, off), "store_w0", base, off, 0)
         /\ IsAccess(CallWrite(base, off), "call_write", base, off, 0)
<1>1. /\ "add" \in MemoryOps /\ "store" \in MemoryOps /\ "term" \in MemoryOps
      /\ "store_w0" \in MemoryOps /\ "call_write" \in MemoryOps /\ 0 \in Int
  BY DEF MemoryOps
<1> QED  BY <1>1, InstructionType DEF AddTo, Store, Term, StoreW0, CallWrite

LEMMA BranchTypes ==
  ASSUME NEW base \in Bases, NEW off \in Int, NEW to \in Int
  PROVE  /\ IsAccess(IfZero(base, off, to), "jz", base, off, 0) /\ IfZero(base, off, to).to = to
         /\ IsAccess(IfNonzero(base, off, to), "jnz", base, off, 0)
         /\ IfNonzero(base, off, to).to = to
         /\ IsAccess(IfZeroUnset(to), "jz", "x10", 0, 1) /\ IfZeroUnset(to).to = to
<1>1. "jz" \in MemoryOps /\ "jnz" \in MemoryOps /\ "x10" \in Bases /\ 0 \in Int /\ 1 \in Int
  BY DEF MemoryOps, Bases
<1> QED  BY <1>1, InstructionType DEF IfZero, IfNonzero, IfZeroUnset

LEMMA BaseType ==
  /\ "x10" \in Bases /\ "x15" \in Bases /\ "x9" \in Bases
  /\ \A off : Base(off) \in Bases /\ (Near(off) => Base(off) = "x15")
  BY DEF Base, Bases

LEMMA BaseHits ==
  ASSUME NEW off \in Int, NEW i, i.base = Base(off), i.off = off
  PROVE  Hits(i, off, TRUE, {0}, {0})
  BY DEF Hits

\* An access that changes a cell, and leaves everything known.
LEMMA WriteFits ==
  ASSUME NEW L, NEW A, NEW C, NEW O, NEW D, NEW W,
         NEW i \in AnyInstruction, i.op \in Writes,
         NEW z \in O, z \in Int, Hits(i, z, L, A, C),
         i.op = "store" => i.val \in Cell,
         i.op = "store_w0" => W \subseteq Cell,
         i.op = "term" => D \subseteq Counts
  PROVE  Fits(<<i>>, Known(L, A, C, O, D, W, {}), Known(L, A, C, O, D, W, {}))
<1> DEFINE P == Known(L, A, C, O, D, W, {})
<1>1. Keeps(i, P, P, {})
  BY WritesKeep
<1>2. P \subseteq Machine
  BY KnownMachine
<1> HIDE DEF P
<1>3. Fits(<<i>>, P, P)
  BY <1>1, <1>2, FitsOne
<1> QED  BY <1>3 DEF P

\* From any state of P to any state.
LEMMA FitsAnywhere ==
  ASSUME NEW c, NEW P, NEW L, NEW A, NEW C, NEW O, NEW D, NEW W, NEW Z,
         Fits(c, P, Known(L, A, C, O, D, W, Z))
  PROVE  Fits(c, P, Machine)
<1>1. P \subseteq P /\ Known(L, A, C, O, D, W, Z) \subseteq Machine
  BY KnownMachine
<1> QED  BY <1>1, FitsWeaker

\* x10, x8 and the cursor have been loaded.
AtCursor(c, O) == Known(TRUE, {0}, {c}, O, AnyX12, AnyW0, {})

LEMMA LoadCursorFits ==
  ASSUME NEW off \in Int, NEW C, NEW O, NEW W, NEW L, NEW A, NEW D, NEW Z
  PROVE  /\ Fits(<<Load, Cursor(off)>>, Known(L, A, C, O, D, W, Z),
                 Known(TRUE, {0}, {off}, O, D, W, Z))
         /\ <<Load, Cursor(off)>> = <<Load>> \o <<Cursor(off)>>
<1>1. 0 + off = off /\ 0 \in Int
  OBVIOUS
<1>2. Fits(<<Load>>, Known(L, A, C, O, D, W, Z), Known(TRUE, {0}, C, O, D, W, Z))
  BY LoadFits
<1>3. Fits(<<Cursor(off)>>, Known(TRUE, {0}, C, O, D, W, Z),
           Known(TRUE, {0}, {0 + off}, O, D, W, Z))
  BY <1>1, CursorFits
<1>4. Load \in AnyInstruction /\ Cursor(off) \in AnyInstruction
  BY DEF Load, Cursor, Instruction, AnyInstruction, Ops
<1>5. <<Load, Cursor(off)>> = <<Load>> \o <<Cursor(off)>>
  BY <1>4, Tuples
<1>6. Fits(<<Load>> \o <<Cursor(off)>>, Known(L, A, C, O, D, W, Z),
           Known(TRUE, {0}, {off}, O, D, W, Z))
  BY <1>1, <1>2, <1>3, FitsThen
<1> QED  BY <1>5, <1>6
-----------------------------------------------------------------------------
(* Runs of simple nodes.                                                   *)

Effects(S) == [off : S, kind : {"add", "set", "none"}, value : Cell]

LEMMA EffectAtKeeps ==
  ASSUME NEW O, O \subseteq Int, NEW e \in Effects(O), NEW base \in Bases, NEW off \in Int, NEW c,
         \A i : i.base = base /\ i.off = off => Hits(i, e.off, TRUE, {0}, {c})
  PROVE  /\ EffectAt(e, base, off) \in AnyInstruction
         /\ Keeps(EffectAt(e, base, off), AtCursor(c, O), AtCursor(c, O), {})
<1> DEFINE i == EffectAt(e, base, off)
           v == e.value
<1>1. e.off \in O /\ e.off \in Int /\ v \in Cell /\ v \in Int
  <2>1. e.off \in O /\ v \in Cell  BY DEF Effects
  <2>2. v \in Int  BY <2>1, CellCountAssumption DEF Cell
  <2> QED  BY <2>1, <2>2
<1>2. i = AddTo(base, off, v) \/ i = Store(base, off, v)
  BY DEF EffectAt
<1> HIDE DEF i, v
<1>3. IsAccess(i, "add", base, off, v) \/ IsAccess(i, "store", base, off, v)
  BY <1>1, <1>2, AccessTypes
<1>4. /\ i \in AnyInstruction /\ i.base = base /\ i.off = off /\ i.val = v
      /\ i.op = "add" \/ i.op = "store"
  BY <1>3 DEF IsAccess
<1>5. i.op \in Writes /\ i.op # "store_w0" /\ i.op # "term"
  BY <1>4 DEF Writes
<1>6. Hits(i, e.off, TRUE, {0}, {c})
  BY <1>4
<1>7. Keeps(i, Known(TRUE, {0}, {c}, O, AnyX12, AnyW0, {}),
            Known(TRUE, {0}, {c}, O, AnyX12, AnyW0, {}), {})
  BY <1>1, <1>4, <1>5, <1>6, WritesKeep
<1> QED  BY <1>4, <1>7 DEF AtCursor, i

\* Pieces of code one after another.
LEMMA FlattenFits ==
  ASSUME NEW seqs \in Seq(Seq(AnyInstruction)), NEW P,
         \A k \in 1 .. Len(seqs) + 1 : P[k] \subseteq Machine,
         \A k \in 1 .. Len(seqs) : Fits(seqs[k], P[k], P[k + 1])
  PROVE  Fits(FlattenSeq(seqs), P[1], P[Len(seqs) + 1])
<1>1. CASE seqs = <<>>
  <2>1. FlattenSeq(seqs) = <<>> /\ Len(seqs) = 0  BY <1>1 DEF FlattenSeq
  <2>2. P[1] \subseteq Machine  BY <2>1
  <2> QED  BY <2>1, <2>2, FitsNothing
<1>2. CASE seqs # <<>>
  <2>1. PICK f : Flattens(f, seqs, AnyInstruction) /\ FlattenSeq(seqs) = f[Len(seqs)]
    BY <1>2, FlattenSteps
  <2>2. Len(seqs) \in Nat /\ Len(seqs) # 0
    BY <1>2
  <2> DEFINE G == {n \in 0 .. Len(seqs) - 1 : Fits(f[n + 1], P[1], P[n + 2])}
             N == Len(seqs) - 1
  <2>3. 0 \in G
    <3>1. 1 \in 1 .. Len(seqs) /\ 0 \in 0 .. Len(seqs) - 1 /\ 0 + 1 = 1 /\ 0 + 2 = 1 + 1
      BY <2>2
    <3>2. f[1] = seqs[1] /\ Fits(seqs[1], P[1], P[1 + 1])  BY <2>1, <3>1 DEF Flattens
    <3> QED  BY <3>1, <3>2
  <2>4. ASSUME NEW n \in 0 .. N - 1, n \in G PROVE n + 1 \in G
    <3>1. /\ n + 2 \in 2 .. Len(seqs) /\ n + 2 \in 1 .. Len(seqs) /\ (n + 2) - 1 = n + 1
          /\ n + 1 \in 0 .. Len(seqs) - 1 /\ (n + 1) + 1 = n + 2 /\ (n + 1) + 2 = (n + 2) + 1
      BY <2>2
    <3>2. f[n + 2] = f[n + 1] \o seqs[n + 2]
      BY <2>1, <3>1 DEF Flattens
    <3>3. Fits(f[n + 1], P[1], P[n + 2]) /\ Fits(seqs[n + 2], P[n + 2], P[(n + 2) + 1])
      BY <2>4, <3>1
    <3>4. Fits(f[n + 2], P[1], P[(n + 2) + 1])
      BY <3>2, <3>3, FitsThen
    <3> QED  BY <3>1, <3>4
  <2>5. N \in Nat  BY <2>2
  <2>6. N \in G
    <3> HIDE DEF G, N
    <3> QED  BY <2>3, <2>4, <2>5, InductionTo
  <2>7. N + 1 = Len(seqs) /\ N + 2 = Len(seqs) + 1  BY <2>2
  <2> QED  BY <2>1, <2>6, <2>7
<1> QED  BY <1>1, <1>2

\* The cursor goes from the cell of one effect to that of the next.
LEMMA AtCursorFits ==
  ASSUME NEW O, O \subseteq Int, NEW effects, Collapse(effects) \in Seq(Effects(O))
  PROVE  \E c \in Int : Fits(RunAtCursor(effects), AtCursor(0, O), AtCursor(c, O))
<1> DEFINE all     == Collapse(effects)
           from(k) == IF k = 1 THEN 0 ELSE all[k - 1].off
           move(k) == When(all[k].off # from(k), <<MoveCursor(all[k].off - from(k))>>)
           act(k)  == <<EffectAt(all[k], "x15", 0)>>
           seqs    == [k \in DOMAIN all |-> move(k) \o act(k)]
           P       == [k \in 1 .. Len(all) + 1 |-> AtCursor(from(k), O)]
<1>1. RunAtCursor(effects) = FlattenSeq(seqs)
  BY Zenon DEF RunAtCursor
<1>2. all \in Seq(Effects(O)) /\ DOMAIN all = 1 .. Len(all) /\ Len(all) \in Nat
  OBVIOUS
<1> HIDE DEF all
<1>3. \A k \in 1 .. Len(all) : all[k] \in Effects(O) /\ all[k].off \in Int
  <2> TAKE k \in 1 .. Len(all)
  <2>1. all[k] \in Effects(O)  BY <1>2
  <2> QED  BY <2>1 DEF Effects
<1>4. \A k \in 1 .. Len(all) + 1 : from(k) \in Int
  <2> TAKE k \in 1 .. Len(all) + 1
  <2>1. k # 1 => k - 1 \in 1 .. Len(all)  BY <1>2
  <2> QED  BY <1>3, <2>1
<1>5. \A k \in 1 .. Len(all) : k \in 1 .. Len(all) + 1 /\ k + 1 \in 1 .. Len(all) + 1
                               /\ from(k + 1) = all[k].off
  BY <1>2
<1> HIDE DEF from
<1>6. ASSUME NEW k \in 1 .. Len(all)
      PROVE  Fits(move(k) \o act(k), AtCursor(from(k), O), AtCursor(from(k + 1), O))
  <2> DEFINE c == from(k)
             d == all[k].off
  <2>1. c \in Int /\ d \in Int /\ from(k + 1) = d /\ c + (d - c) = d /\ d - c \in Int
    <3>1. c \in Int /\ d \in Int /\ from(k + 1) = d
      BY <1>3, <1>4, <1>5
    <3> HIDE DEF c, d
    <3> QED  BY <3>1
  <2>2. Fits(move(k), AtCursor(c, O), AtCursor(d, O))
    <3>1. CASE d # c
      <4>1. move(k) = <<MoveCursor(d - c)>>  BY <3>1 DEF When
      <4> HIDE DEF move, c, d
      <4>2. Fits(<<MoveCursor(d - c)>>, AtCursor(c, O), AtCursor(c + (d - c), O))
        BY <2>1, MoveCursorFits DEF AtCursor
      <4> QED  BY <2>1, <4>1, <4>2
    <3>2. CASE d = c
      <4>1. move(k) = <<>>  BY <3>2 DEF When
      <4> HIDE DEF move, c, d
      <4> QED  BY <3>2, <4>1, KnownMachine, FitsNothing DEF AtCursor
    <3> QED  BY <3>1, <3>2
  <2>3. Fits(act(k), AtCursor(d, O), AtCursor(d, O))
    <3>1. all[k] \in Effects(O) /\ "x15" \in Bases /\ 0 \in Int
      <4>1. "x15" \in Bases  BY DEF Bases
      <4> QED  BY <1>3, <4>1
    <3>2. \A i : i.base = "x15" /\ i.off = 0 => Hits(i, all[k].off, TRUE, {0}, {d})
      BY <2>1 DEF Hits
    <3> DEFINE i == EffectAt(all[k], "x15", 0)
    <3>3. i \in AnyInstruction /\ Keeps(i, AtCursor(d, O), AtCursor(d, O), {})
      <4> HIDE DEF d
      <4> QED  BY <3>1, <3>2, EffectAtKeeps
    <3>4. AtCursor(d, O) \subseteq Machine  BY KnownMachine DEF AtCursor
    <3> HIDE DEF d, i
    <3>5. Fits(<<i>>, AtCursor(d, O), AtCursor(d, O))
      BY <3>3, <3>4, FitsOne
    <3> QED  BY <3>5 DEF i
  <2> HIDE DEF move, act, c, d
  <2>4. Fits(move(k) \o act(k), AtCursor(c, O), AtCursor(d, O))
    BY <2>2, <2>3, FitsThen
  <2> QED  BY <2>1, <2>4 DEF c
<1> HIDE DEF move, act
<1>7. /\ \A k \in 1 .. Len(all) : seqs[k] = move(k) \o act(k) /\ seqs[k] \in Seq(AnyInstruction)
      /\ seqs \in Seq(Seq(AnyInstruction)) /\ Len(seqs) = Len(all)
  <2>1. ASSUME NEW k \in 1 .. Len(all)
        PROVE  seqs[k] = move(k) \o act(k) /\ seqs[k] \in Seq(AnyInstruction)
    <3>1. seqs[k] = move(k) \o act(k)  BY <1>2
    <3> HIDE DEF seqs
    <3> QED  BY <1>6, <3>1, FitsIsCode
  <2>2. seqs \in [1 .. Len(all) -> Seq(AnyInstruction)]
    <3>1. seqs = [k \in 1 .. Len(all) |-> seqs[k]]  BY <1>2
    <3> HIDE DEF seqs
    <3> QED  BY <2>1, <3>1
  <2> HIDE DEF seqs
  <2>3. seqs \in Seq(Seq(AnyInstruction)) /\ Len(seqs) = Len(all)
    BY <1>2, <2>2
  <2> QED  BY <2>1, <2>3
<1> HIDE DEF seqs
<1>8. \A k \in 1 .. Len(seqs) + 1 : P[k] = AtCursor(from(k), O) /\ P[k] \subseteq Machine
  BY <1>7, KnownMachine DEF AtCursor
<1>9. \A k \in 1 .. Len(seqs) : Fits(seqs[k], P[k], P[k + 1])
  <2> TAKE k \in 1 .. Len(seqs)
  <2>1. P[k] = AtCursor(from(k), O) /\ P[k + 1] = AtCursor(from(k + 1), O)
    BY <1>5, <1>7, <1>8
  <2> HIDE DEF P
  <2> QED  BY <1>6, <1>7, <2>1
<1> HIDE DEF P
<1>10. Fits(FlattenSeq(seqs), P[1], P[Len(seqs) + 1])
  BY <1>7, <1>8, <1>9, FlattenFits
<1>11. /\ P[1] = AtCursor(0, O)
       /\ P[Len(seqs) + 1] = AtCursor(from(Len(seqs) + 1), O) /\ from(Len(seqs) + 1) \in Int
  <2>1. 1 \in 1 .. Len(seqs) + 1 /\ Len(seqs) + 1 \in 1 .. Len(seqs) + 1  BY <1>2, <1>7
  <2>2. from(1) = 0  BY DEF from
  <2> QED  BY <1>4, <1>7, <1>8, <2>1, <2>2
<1> QED  BY <1>1, <1>10, <1>11

\* The planning BFEmitter_proofs is about is that of the backend.
LEMMA SamePlan ==
  /\ \A effects : Code!Collapse(effects) = Collapse(effects)
  /\ \A n : Code!HasMultiplyTail(n) = HasMultiplyTail(n)
  /\ \A block, i : Code!RunEnd(block, i) = RunEnd(block, i)
  /\ \A block, i, pending : Code!EffectsOf(block, i, pending) = EffectsOf(block, i, pending)
<1>1. ASSUME NEW effects PROVE Code!Collapse(effects) = Collapse(effects)
  BY Zenon DEF Code!Collapse, Collapse, Code!Merged, Merged, Code!Byte, Byte,
         Code!FoldLeft, FoldLeft, Code!MapThenFoldSet, MapThenFoldSet,
         Code!Max, Max, Code!Last, Last, Code!Front, Front
<1>2. ASSUME NEW n PROVE Code!HasMultiplyTail(n) = HasMultiplyTail(n)
  BY Zenon DEF Code!HasMultiplyTail, HasMultiplyTail, Code!EffectsOf, EffectsOf,
         Code!FoldLeftDomain, FoldLeftDomain, Code!FoldLeft, FoldLeft,
         Code!MapThenFoldSet, MapThenFoldSet, Code!Max, Max, Code!IsSimple, IsSimple,
         Code!Effect, Effect, Code!Byte, Byte, Code!RunEnd, RunEnd, Code!Least, Least,
         Code!PointerDelta, PointerDelta, Code!FoldSeq, FoldSeq,
         Code!FoldFunction, FoldFunction, Code!FoldFunctionOnSet, FoldFunctionOnSet
<1>3. ASSUME NEW block, NEW i PROVE Code!RunEnd(block, i) = RunEnd(block, i)
  BY Zenon DEF Code!RunEnd, RunEnd, Code!Least, Least, Code!IsSimple, IsSimple
<1>4. ASSUME NEW block, NEW i, NEW pending
      PROVE  Code!EffectsOf(block, i, pending) = EffectsOf(block, i, pending)
  BY Zenon DEF Code!EffectsOf, EffectsOf,
         Code!FoldLeftDomain, FoldLeftDomain, Code!FoldLeft, FoldLeft,
         Code!MapThenFoldSet, MapThenFoldSet, Code!Max, Max, Code!IsSimple, IsSimple,
         Code!Effect, Effect, Code!Byte, Byte, Code!RunEnd, RunEnd, Code!Least, Least,
         Code!PointerDelta, PointerDelta, Code!FoldSeq, FoldSeq,
         Code!FoldFunction, FoldFunction, Code!FoldFunctionOnSet, FoldFunctionOnSet
<1> QED  BY <1>1, <1>2, <1>3, <1>4

LEMMA CollapseType ==
  ASSUME NEW S, NEW effects \in Seq(Effects(S))
  PROVE  Collapse(effects) \in Seq(Effects(S))
  BY SamePlan, CodeAssumptions, Code!CollapseType DEF Effects, Code!Effects, Cell, Code!Cell

\* The offsets of a run's effects, which a guard covers.
LEMMA EffectOffsets ==
  ASSUME NEW effects \in Seq(Effects(Int)), effects # <<>>
  PROVE  LET S == {effects[k].off : k \in DOMAIN effects}
         IN  Bounded(S) /\ effects \in Seq(Effects(S))
<1> DEFINE S    == {effects[k].off : k \in DOMAIN effects}
           offs == [k \in 1 .. Len(effects) |-> effects[k].off]
<1>1. \A k \in 1 .. Len(effects) : effects[k].off \in Int
  <2> TAKE k \in 1 .. Len(effects)
  <2>1. effects[k] \in Effects(Int)  OBVIOUS
  <2> QED  BY <2>1 DEF Effects
<1>2. S \subseteq Int /\ S # {} /\ DOMAIN effects = 1 .. Len(effects)
  <2>1. 1 \in DOMAIN effects /\ DOMAIN effects = 1 .. Len(effects)  OBVIOUS
  <2>2. effects[1].off \in S  BY <2>1
  <2> QED  BY <1>1, <2>1, <2>2
<1>3. \E b \in Nat : \A d \in S : -b <= d /\ d <= b
  <2>1. offs \in Seq(Int) /\ Len(offs) = Len(effects)
    BY <1>1
  <2>2. \A k \in 1 .. Len(effects) : offs[k] = effects[k].off
    OBVIOUS
  <2> HIDE DEF offs
  <2>3. PICK b \in Nat : \A k \in 1 .. Len(offs) : -b <= offs[k] /\ offs[k] <= b
    BY <2>1, BoundsOfSequence
  <2> QED  BY <1>2, <2>1, <2>2, <2>3
<1>4. effects \in Seq(Effects(S))
  <2>1. \A k \in 1 .. Len(effects) : effects[k] \in Effects(S)
    <3> TAKE k \in 1 .. Len(effects)
    <3>1. effects[k] \in Effects(Int) /\ effects[k].off \in S  OBVIOUS
    <3> HIDE DEF S
    <3> QED  BY <3>1 DEF Effects
  <2> HIDE DEF S
  <2> QED  BY <2>1
<1> HIDE DEF S
<1>5. Bounded(S)
  BY <1>2, <1>3 DEF Bounded
<1> QED  BY <1>4, <1>5 DEF S

\* A run of simple nodes, behind one guard for all its cells.
LEMMA RunFits ==
  ASSUME NEW scope, ~scope.active, NEW effects \in Seq(Effects(Int)), effects # <<>>
  PROVE  Fits(RunCode(effects, scope), Machine, Machine)
<1> DEFINE S     == {effects[k].off : k \in DOMAIN effects}
           all   == Collapse(effects)
           guard == GuardAll(scope, S, 8, 9)
           load  == <<Load, Cursor(0)>>
           row   == [k \in DOMAIN all |-> EffectAt(all[k], Base(all[k].off), all[k].off)]
           long  == <<Cursor(0)>> \o RunAtCursor(effects)
           P     == AtCursor(0, S)
<1>1. RunCode(effects, scope) = guard \o load \o (IF Len(effects) > 2 THEN long ELSE row)
  BY DEF RunCode
<1>2. Bounded(S) /\ effects \in Seq(Effects(S))
  BY EffectOffsets
<1> HIDE DEF S
<1>3. S \subseteq Int
  BY <1>2 DEF Bounded
<1>4. all \in Seq(Effects(S))
  BY <1>2, CollapseType
<1>5. Fits(guard, Machine, Guarded(S))
  <2>1. 8 \in 1 .. 9 /\ 9 \in 1 .. 9  OBVIOUS
  <2> QED  BY <1>2, <2>1, GuardsFit
<1>6. Fits(load, Guarded(S), P)
  <2>1. 0 \in Int  OBVIOUS
  <2> QED  BY <2>1, LoadCursorFits DEF Guarded, AtCursor
<1>7. P \subseteq Machine
  BY KnownMachine DEF AtCursor
<1>8. Fits(row, P, Machine)
  <2> HIDE DEF all, P
  <2>1. DOMAIN all = 1 .. Len(all) /\ Len(all) \in Nat
    BY <1>4
  <2>2. ASSUME NEW k \in 1 .. Len(all)
        PROVE  row[k] \in AnyInstruction /\ Keeps(row[k], P, P, {})
    <3> DEFINE e == all[k]
               base == Base(e.off)
    <3>1. e \in Effects(S)  BY <1>4
    <3>2. e.off \in S /\ e.off \in Int
      <4> HIDE DEF e
      <4>1. e.off \in S  BY <3>1 DEF Effects
      <4> QED  BY <1>3, <4>1
    <3>3. base \in Bases /\ \A i : i.base = base /\ i.off = e.off => Hits(i, e.off, TRUE, {0}, {0})
      <4> HIDE DEF e
      <4>1. base \in Bases  BY BaseType
      <4> QED  BY <3>2, <4>1, BaseHits
    <3>4. row[k] = EffectAt(e, base, e.off)  BY <2>1
    <3> HIDE DEF e, base, row
    <3>5. EffectAt(e, base, e.off) \in AnyInstruction
          /\ Keeps(EffectAt(e, base, e.off), AtCursor(0, S), AtCursor(0, S), {})
      BY <1>3, <3>1, <3>2, <3>3, EffectAtKeeps
    <3> QED  BY <3>4, <3>5 DEF P
  <2>3. row \in Seq(AnyInstruction) /\ Len(row) = Len(all)
    <3>1. row \in [1 .. Len(all) -> AnyInstruction]
      <4>1. row = [k \in 1 .. Len(all) |-> row[k]]  BY <2>1
      <4> HIDE DEF row
      <4> QED  BY <2>2, <4>1
    <3> HIDE DEF row
    <3> QED  BY <2>1, <3>1
  <2> HIDE DEF row
  <2>4. Fits(row, P, P)
    BY <1>7, <2>2, <2>3, FitsRow
  <2>5. P \subseteq P  OBVIOUS
  <2> QED  BY <1>7, <2>4, <2>5, FitsWeaker
<1>9. Fits(long, P, Machine)
  <2>1. 0 \in Int /\ 0 + 0 = 0  OBVIOUS
  <2>2. Fits(<<Cursor(0)>>, P, P)
    <3>1. Fits(<<Cursor(0)>>, Known(TRUE, {0}, {0}, S, AnyX12, AnyW0, {}),
               Known(TRUE, {0}, {0 + 0}, S, AnyX12, AnyW0, {}))
      BY <2>1, CursorFits
    <3> QED  BY <2>1, <3>1 DEF AtCursor
  <2>3. PICK c \in Int : Fits(RunAtCursor(effects), P, AtCursor(c, S))
    BY <1>3, <1>4, AtCursorFits
  <2> HIDE DEF P
  <2>4. Fits(long, P, AtCursor(c, S))
    BY <2>2, <2>3, FitsThen
  <2> QED  BY <2>4, FitsAnywhere DEF AtCursor
<1> HIDE DEF guard, load, row, long, P
<1>10. Fits(guard \o load, Machine, P)
  BY <1>5, <1>6, FitsThen
<1>11. Fits(IF Len(effects) > 2 THEN long ELSE row, P, Machine)
  BY <1>8, <1>9
<1> DEFINE last == IF Len(effects) > 2 THEN long ELSE row
<1>12. Fits((guard \o load) \o last, Machine, Machine)
  <2> HIDE DEF last
  <2> QED  BY <1>10, <1>11, FitsThen DEF last
<1>13. RunCode(effects, scope) = (guard \o load) \o last
  BY <1>1
<1> QED  BY <1>12, <1>13
-----------------------------------------------------------------------------
(* Nodes without a body.                                                   *)

\* A guard and what follows it.
LEMMA BehindGuard ==
  ASSUME NEW scope, ~scope.active, NEW off \in Int, NEW below \in 1 .. 9, NEW above \in 1 .. 9,
         NEW c, NEW Q, Fits(c, Guarded({off}), Q)
  PROVE  Fits(RangeGuard(scope, off, off, below, above) \o c, Machine, Q)
<1> DEFINE guard == RangeGuard(scope, off, off, below, above)
<1>1. Fits(guard, Machine, Guarded({off}))
  BY GuardsFit
<1> HIDE DEF guard
<1>2. Fits(guard \o c, Machine, Q)
  BY <1>1, FitsThen
<1> QED  BY <1>2 DEF guard

LEMMA LoadType ==
  /\ Load \in AnyInstruction /\ CallRead \in AnyInstruction /\ LoadBound \in AnyInstruction
  /\ \A off \in Int : Cursor(off) \in AnyInstruction /\ AddX8(off) \in AnyInstruction
  BY DEF Load, CallRead, LoadBound, Cursor, AddX8, Instruction, AnyInstruction, Ops

LEMMA InputFits ==
  ASSUME NEW scope, ~scope.active, NEW off \in Int
  PROVE  Fits(InputCode(off, scope), Machine, Machine)
<1> DEFINE O == {off}
           G == Known(FALSE, Int, Int, O, AnyX12, AnyW0, {})
           B == Known(FALSE, Int, Int, O, AnyX12, Cell, {})
           R == Known(TRUE, {0}, Int, O, AnyX12, Cell, {})
           P == Known(TRUE, {0}, {0}, O, AnyX12, Cell, {})
           s == StoreW0("x10", 0)
           t == StoreW0(Base(off), off)
           here  == <<CallRead, Load, s>>
           there == <<CallRead, Load, Cursor(0), t>>
           tail  == IF off = 0 THEN here ELSE there
<1>1. InputCode(off, scope) = RangeGuard(scope, off, off, 8, 9) \o tail
  BY DEF InputCode
<1>2. Fits(<<CallRead>>, G, B)
  BY CallReadFits
<1>3. Fits(<<Load>>, B, R)
  BY LoadFits
<1>4. /\ s \in AnyInstruction /\ s.op = "store_w0" /\ s.base = "x10" /\ s.off = 0
      /\ t \in AnyInstruction /\ t.op = "store_w0" /\ t.base = Base(off) /\ t.off = off
  <2>1. "x10" \in Bases /\ Base(off) \in Bases /\ 0 \in Int  BY BaseType
  <2> QED  BY <2>1, AccessTypes DEF IsAccess
<1>5. "store_w0" \in Writes /\ "store_w0" # "store" /\ "store_w0" # "term" /\ off \in O
  BY DEF Writes
<1> HIDE DEF s, t, O
<1>6. ASSUME off = 0 PROVE Fits(tail, G, Machine)
  <2>1. Hits(s, off, TRUE, {0}, Int)
    BY <1>4, <1>6 DEF Hits
  <2>2. Fits(<<s>>, R, R)
    BY <1>4, <1>5, <2>1, WriteFits
  <2>3. here = (<<CallRead>> \o <<Load>>) \o <<s>>
    BY <1>4, LoadType, Tuples
  <2> HIDE DEF here
  <2>4. Fits(here, G, R)
    <3> HIDE DEF G, B, R
    <3>1. Fits(<<CallRead>> \o <<Load>>, G, R)  BY <1>2, <1>3, FitsThen
    <3> QED  BY <2>2, <2>3, <3>1, FitsThen
  <2>5. Fits(here, G, Machine)
    BY <2>4, FitsAnywhere
  <2> QED  BY <1>6, <2>5
<1>7. ASSUME off # 0 PROVE Fits(tail, G, Machine)
  <2>1. Hits(t, off, TRUE, {0}, {0})
    BY <1>4, BaseHits
  <2>2. Fits(<<t>>, P, P)
    BY <1>4, <1>5, <2>1, WriteFits
  <2>3. Fits(<<Cursor(0)>>, R, P)
    <3>1. 0 \in Int /\ 0 + 0 = 0  OBVIOUS
    <3>2. Fits(<<Cursor(0)>>, R, Known(TRUE, {0}, {0 + 0}, O, AnyX12, Cell, {}))
      BY <3>1, CursorFits
    <3> QED  BY <3>1, <3>2
  <2>4. there = ((<<CallRead>> \o <<Load>>) \o <<Cursor(0)>>) \o <<t>>
    <3>1. 0 \in Int  OBVIOUS
    <3> QED  BY <1>4, <3>1, LoadType, FourTuple
  <2> HIDE DEF there
  <2>5. Fits(there, G, P)
    <3> HIDE DEF G, B, R, P
    <3>1. Fits(<<CallRead>> \o <<Load>>, G, R)  BY <1>2, <1>3, FitsThen
    <3>2. Fits((<<CallRead>> \o <<Load>>) \o <<Cursor(0)>>, G, P)  BY <2>3, <3>1, FitsThen
    <3> QED  BY <2>2, <2>4, <3>2, FitsThen
  <2>6. Fits(there, G, Machine)
    BY <2>5, FitsAnywhere
  <2> QED  BY <1>7, <2>6
<1>8. Fits(tail, G, Machine)
  BY <1>6, <1>7
<1>9. G = Guarded({off})
  BY DEF Guarded, O
<1>10. 8 \in 1 .. 9 /\ 9 \in 1 .. 9
  OBVIOUS
<1> HIDE DEF tail, G
<1> QED  BY <1>1, <1>8, <1>9, <1>10, BehindGuard

LEMMA OutputFits ==
  ASSUME NEW scope, ~scope.active, NEW off \in Int
  PROVE  Fits(OutputCode(off, scope), Machine, Machine)
<1> DEFINE O == {off}
           G == Known(FALSE, Int, Int, O, AnyX12, AnyW0, {})
           R == Known(TRUE, {0}, Int, O, AnyX12, AnyW0, {})
           P == Known(TRUE, {0}, {0}, O, AnyX12, AnyW0, {})
           s == CallWrite("x10", 0)
           t == CallWrite(Base(off), off)
           here  == <<Load, s>>
           there == <<Load, Cursor(0), t>>
           tail  == IF off = 0 THEN here ELSE there
<1>1. OutputCode(off, scope) = RangeGuard(scope, off, off, 8, 9) \o tail
  BY DEF OutputCode
<1>2. Fits(<<Load>>, G, R)
  BY LoadFits
<1>3. /\ s \in AnyInstruction /\ s.op = "call_write" /\ s.base = "x10" /\ s.off = 0
      /\ t \in AnyInstruction /\ t.op = "call_write" /\ t.base = Base(off) /\ t.off = off
  <2>1. "x10" \in Bases /\ Base(off) \in Bases /\ 0 \in Int  BY BaseType
  <2> QED  BY <2>1, AccessTypes DEF IsAccess
<1>4. off \in O
  OBVIOUS
<1> HIDE DEF s, t, O
<1>5. ASSUME off = 0 PROVE Fits(tail, G, Machine)
  <2>1. Hits(s, off, TRUE, {0}, Int)
    BY <1>3, <1>5 DEF Hits
  <2>2. Fits(<<s>>, R, Machine)
    BY <1>3, <1>4, <2>1, CallWriteFits
  <2>3. here = <<Load>> \o <<s>>
    BY <1>3, LoadType, Tuples
  <2> HIDE DEF here, G, R
  <2>4. Fits(here, G, Machine)
    BY <1>2, <2>2, <2>3, FitsThen
  <2> QED  BY <1>5, <2>4
<1>6. ASSUME off # 0 PROVE Fits(tail, G, Machine)
  <2>1. Hits(t, off, TRUE, {0}, {0})
    BY <1>3, BaseHits
  <2>2. Fits(<<t>>, P, Machine)
    BY <1>3, <1>4, <2>1, CallWriteFits
  <2>3. Fits(<<Cursor(0)>>, R, P)
    <3>1. 0 \in Int /\ 0 + 0 = 0  OBVIOUS
    <3>2. Fits(<<Cursor(0)>>, R, Known(TRUE, {0}, {0 + 0}, O, AnyX12, AnyW0, {}))
      BY <3>1, CursorFits
    <3> QED  BY <3>1, <3>2
  <2>4. there = (<<Load>> \o <<Cursor(0)>>) \o <<t>>
    <3>1. 0 \in Int  OBVIOUS
    <3> QED  BY <1>3, <3>1, LoadType, Tuples
  <2> HIDE DEF there, G, R, P
  <2>5. Fits(there, G, Machine)
    <3>1. Fits(<<Load>> \o <<Cursor(0)>>, G, P)  BY <1>2, <2>3, FitsThen
    <3> QED  BY <2>2, <2>4, <3>1, FitsThen
  <2> QED  BY <1>6, <2>5
<1>7. Fits(tail, G, Machine)
  BY <1>5, <1>6
<1>8. G = Guarded({off})
  BY DEF Guarded, O
<1>9. 8 \in 1 .. 9 /\ 9 \in 1 .. 9
  OBVIOUS
<1> HIDE DEF tail, G
<1> QED  BY <1>1, <1>7, <1>8, <1>9, BehindGuard

\* A cell is cleared.
LEMMA ClearFits ==
  ASSUME NEW scope, ~scope.active, NEW off \in Int
  PROVE  Fits(RangeGuard(scope, off, off, 8, 9) \o <<Load>>
                \o (IF off = 0 THEN <<Store("x10", 0, 0)>>
                    ELSE <<Cursor(0), Store(Base(off), off, 0)>>), Machine, Machine)
<1> DEFINE O == {off}
           G == Known(FALSE, Int, Int, O, AnyX12, AnyW0, {})
           R == Known(TRUE, {0}, Int, O, AnyX12, AnyW0, {})
           P == Known(TRUE, {0}, {0}, O, AnyX12, AnyW0, {})
           guard == RangeGuard(scope, off, off, 8, 9)
           s == Store("x10", 0, 0)
           t == Store(Base(off), off, 0)
           here  == <<s>>
           there == <<Cursor(0), t>>
           tail  == IF off = 0 THEN here ELSE there
<1>1. Fits(<<Load>>, G, R)
  BY LoadFits
<1>2. /\ s \in AnyInstruction /\ s.op = "store" /\ s.base = "x10" /\ s.off = 0 /\ s.val = 0
      /\ t \in AnyInstruction /\ t.op = "store" /\ t.base = Base(off) /\ t.off = off /\ t.val = 0
  <2>1. "x10" \in Bases /\ Base(off) \in Bases /\ 0 \in Int  BY BaseType
  <2> QED  BY <2>1, AccessTypes DEF IsAccess
<1>3. "store" \in Writes /\ "store" # "store_w0" /\ "store" # "term" /\ off \in O
  BY DEF Writes
<1>4. 0 \in Cell
  BY CellCountAssumption DEF Cell
<1> HIDE DEF s, t, O
<1>5. ASSUME off = 0 PROVE Fits(tail, R, Machine)
  <2>1. Hits(s, off, TRUE, {0}, Int)
    BY <1>2, <1>5 DEF Hits
  <2>2. Fits(<<s>>, R, R)
    BY <1>2, <1>3, <1>4, <2>1, WriteFits
  <2>3. Fits(here, R, Machine)
    BY <2>2, FitsAnywhere
  <2> QED  BY <1>5, <2>3
<1>6. ASSUME off # 0 PROVE Fits(tail, R, Machine)
  <2>1. Hits(t, off, TRUE, {0}, {0})
    BY <1>2, BaseHits
  <2>2. Fits(<<t>>, P, P)
    BY <1>2, <1>3, <1>4, <2>1, WriteFits
  <2>3. Fits(<<Cursor(0)>>, R, P)
    <3>1. 0 \in Int /\ 0 + 0 = 0  OBVIOUS
    <3>2. Fits(<<Cursor(0)>>, R, Known(TRUE, {0}, {0 + 0}, O, AnyX12, AnyW0, {}))
      BY <3>1, CursorFits
    <3> QED  BY <3>1, <3>2
  <2>4. there = <<Cursor(0)>> \o <<t>>
    <3>1. 0 \in Int  OBVIOUS
    <3> QED  BY <1>2, <3>1, LoadType, Tuples
  <2> HIDE DEF there
  <2>5. Fits(there, R, P)
    <3> HIDE DEF R, P
    <3> QED  BY <2>2, <2>3, <2>4, FitsThen
  <2>6. Fits(there, R, Machine)
    BY <2>5, FitsAnywhere
  <2> QED  BY <1>6, <2>6
<1>7. Fits(tail, R, Machine)
  BY <1>5, <1>6
<1>8. Fits(guard, Machine, G)
  <2>1. 8 \in 1 .. 9 /\ 9 \in 1 .. 9
    OBVIOUS
  <2> QED  BY <2>1, GuardsFit DEF Guarded, O
<1> HIDE DEF tail, guard, G, R
<1>9. Fits(guard \o <<Load>>, Machine, R)
  BY <1>1, <1>8, FitsThen
<1>10. Fits((guard \o <<Load>>) \o tail, Machine, Machine)
  BY <1>7, <1>9, FitsThen
<1> QED  BY <1>10 DEF guard, tail, s, t

\* The terms of a multiply loop, and its counter.  An address that is computed for a
\* term starts from x8, which has been moved to the counter then.
LEMMA ProductsFit ==
  ASSUME NEW n \in Node, NEW off \in Int, NEW O \in SUBSET Int, off \in O,
         \A d \in TermOffsets(n) : off + d \in O,
         NEW A, (\A d \in TermOffsets(n) : Near(d)) \/ A = {off}
  PROVE  Fits(Products(n), Known(TRUE, A, {off}, O, Counts, AnyW0, {}),
              Known(TRUE, A, {off}, O, Counts, AnyW0, {}))
<1> DEFINE P   == Known(TRUE, A, {off}, O, Counts, AnyW0, {})
           row == [k \in DOMAIN n.terms |->
                     Term(Base(n.terms[k].offset), n.terms[k].offset, n.terms[k].factor)]
           end == Store("x15", 0, 0)
<1>1. n.terms \in Seq(Terms)
  BY NodeAssumption
<1>2. ASSUME NEW k \in DOMAIN n.terms
      PROVE  row[k] \in AnyInstruction /\ Keeps(row[k], P, P, {})
  <2> DEFINE d == n.terms[k].offset
             f == n.terms[k].factor
             z == off + d
             i == Term(Base(d), d, f)
  <2>1. n.terms[k] \in Terms  BY <1>1
  <2>2. d \in TermOffsets(n)  BY DEF TermOffsets
  <2>3. d \in Int /\ f \in Int  BY <2>1 DEF Terms
  <2>4. z \in O /\ z \in Int  BY <2>2, <2>3
  <2>5. row[k] = i  OBVIOUS
  <2>6. A = {off} \/ Base(d) = "x15"  BY <2>2, BaseType
  <2> HIDE DEF d, f, row, i
  <2>7. Base(d) \in Bases  BY BaseType
  <2>8. i \in AnyInstruction /\ i.op = "term" /\ i.base = Base(d) /\ i.off = d
    BY <2>3, <2>7, AccessTypes DEF IsAccess, i
  <2>9. Hits(i, z, TRUE, A, {off})
    <3>1. CASE A = {off}  BY <2>8, <3>1 DEF Hits
    <3>2. CASE Base(d) = "x15"  BY <2>8, <3>2 DEF Hits
    <3> QED  BY <2>6, <3>1, <3>2
  <2>10. "term" \in Writes /\ "term" # "store" /\ "term" # "store_w0" /\ Counts \subseteq Counts
    BY DEF Writes
  <2> HIDE DEF z
  <2>11. Keeps(i, P, P, {})
    BY <2>4, <2>8, <2>9, <2>10, WritesKeep
  <2> QED  BY <2>5, <2>8, <2>11
<1>3. row \in Seq(AnyInstruction) /\ Len(row) = Len(n.terms) /\ DOMAIN n.terms = 1 .. Len(row)
  <2>1. Len(n.terms) \in Nat /\ DOMAIN n.terms = 1 .. Len(n.terms)  BY <1>1
  <2>2. row \in [1 .. Len(n.terms) -> AnyInstruction]
    <3>1. DOMAIN row = 1 .. Len(n.terms)  BY <2>1
    <3>2. \A k \in 1 .. Len(n.terms) : row[k] \in AnyInstruction  BY <1>2, <2>1
    <3>3. row = [k \in 1 .. Len(n.terms) |-> row[k]]  BY <2>1
    <3> HIDE DEF row
    <3> QED  BY <3>2, <3>3
  <2> HIDE DEF row
  <2>3. row \in Seq(AnyInstruction)  BY <2>1, <2>2
  <2> QED  BY <2>1, <2>2, <2>3
<1>4. P \subseteq Machine
  BY KnownMachine
<1>5. Fits(<<end>>, P, P)
  <2>1. /\ end \in AnyInstruction /\ end.op = "store" /\ end.base = "x15" /\ end.off = 0
        /\ end.val = 0
    <3>1. "x15" \in Bases /\ 0 \in Int  BY BaseType
    <3> QED  BY <3>1, AccessTypes DEF IsAccess
  <2>2. "store" \in Writes /\ "store" # "store_w0" /\ "store" # "term"
    BY DEF Writes
  <2>3. 0 \in Cell
    BY CellCountAssumption DEF Cell
  <2> HIDE DEF end
  <2>4. Hits(end, off, TRUE, A, {off})
    BY <2>1 DEF Hits
  <2> QED  BY <2>1, <2>2, <2>3, <2>4, WriteFits
<1>6. Products(n) = row \o <<end>>
  BY DEF Products
<1> HIDE DEF P, row, end
<1>7. Fits(row, P, P)
  BY <1>2, <1>3, <1>4, FitsRow
<1>8. Fits(row \o <<end>>, P, P)
  BY <1>5, <1>7, FitsThen
<1> QED  BY <1>6, <1>8 DEF P

\* The offsets of a multiply loop are integers between two bounds.
LEMMA TermWindowBounded ==
  ASSUME NEW n \in Node, n.terms # <<>>, NEW off \in Int
  PROVE  /\ Bounded(TermWindow(n, off))
         /\ \A d \in TermOffsets(n) : off + d \in TermWindow(n, off)
         /\ off # 0 => off \in TermWindow(n, off)
<1> DEFINE W == TermWindow(n, off)
<1>1. TermOffsets(n) \subseteq Int
  BY TermOffsetsBounded
<1>2. PICK b \in Nat : \A d \in TermOffsets(n) : -b <= d /\ d <= b
  BY TermOffsetsBounded
<1>3. (\A d \in TermOffsets(n) : off + d \in W) /\ (off # 0 => off \in W)
  BY DEF TermWindow
<1>4. ASSUME NEW e \in W PROVE e = off \/ \E d \in TermOffsets(n) : e = off + d
  BY DEF TermWindow
<1>5. W \subseteq Int
  BY <1>1, <1>4
<1>6. W # {}
  <2>1. n.terms \in Seq(Terms)  BY NodeAssumption
  <2>2. 1 \in DOMAIN n.terms  BY <2>1
  <2>3. n.terms[1].offset \in TermOffsets(n)  BY <2>2 DEF TermOffsets
  <2> QED  BY <1>3, <2>3
<1> HIDE DEF W
<1>7. PICK c \in Nat : c = IF off >= 0 THEN b + off ELSE b - off
  OBVIOUS
<1>8. \A e \in W : -c <= e /\ e <= c
  <2> SUFFICES ASSUME NEW e \in W PROVE -c <= e /\ e <= c
    OBVIOUS
  <2>1. CASE e = off  BY <1>7, <2>1
  <2>2. CASE e # off
    <3>1. PICK d \in TermOffsets(n) : e = off + d  BY <1>4, <2>2
    <3>2. d \in Int /\ -b <= d /\ d <= b  BY <1>1, <1>2
    <3> QED  BY <1>7, <3>1, <3>2
  <2> QED  BY <2>1, <2>2
<1>9. Bounded(W)
  BY <1>5, <1>6, <1>8 DEF Bounded
<1> QED  BY <1>3, <1>9 DEF W

\* x8 and the cursor are moved to the counter.
LEMMA MovedFits ==
  ASSUME NEW off \in Int, NEW C, NEW O, NEW D, NEW W, NEW Z
  PROVE  Fits(When(off # 0, <<AddX8(off)>>) \o <<Cursor(0)>>,
              Known(TRUE, {0}, C, O, D, W, Z), Known(TRUE, {off}, {off}, O, D, W, Z))
<1> DEFINE add == When(off # 0, <<AddX8(off)>>)
           P == Known(TRUE, {0}, C, O, D, W, Z)
           Q == Known(TRUE, {off}, C, O, D, W, Z)
           R == Known(TRUE, {off}, {off}, O, D, W, Z)
<1>1. Fits(add, P, Q)
  <2>1. CASE off # 0
    <3>1. add = <<AddX8(off)>> /\ 0 + off = off /\ 0 \in Int  BY <2>1 DEF When
    <3> HIDE DEF add
    <3>2. Fits(<<AddX8(off)>>, P, Known(TRUE, {0 + off}, C, O, D, W, Z))
      BY <3>1, AddX8Fits
    <3> QED  BY <3>1, <3>2
  <2>2. CASE off = 0
    <3>1. add = <<>>  BY <2>2 DEF When
    <3> HIDE DEF add
    <3> QED  BY <2>2, <3>1, KnownMachine, FitsNothing
  <2> QED  BY <2>1, <2>2
<1>2. Fits(<<Cursor(0)>>, Q, R)
  <2>1. 0 \in Int /\ off + 0 = off  OBVIOUS
  <2>2. Fits(<<Cursor(0)>>, Q, Known(TRUE, {off}, {off + 0}, O, D, W, Z))
    BY <2>1, CursorFits
  <2> QED  BY <2>1, <2>2
<1> HIDE DEF add, P, Q, R
<1>3. Fits(add \o <<Cursor(0)>>, P, R)
  BY <1>1, <1>2, FitsThen
<1> QED  BY <1>3 DEF add, P, R

\* Where x8 is when the counter is loaded.
Placed(fast, off) == IF fast THEN {0} ELSE {off}

LEMMA PlaceFits ==
  ASSUME NEW off \in Int, NEW L, NEW A, NEW C, NEW O, NEW D, NEW W, NEW Z, NEW fast
  PROVE  Fits(<<Load>> \o (IF fast THEN <<Cursor(off)>>
                           ELSE When(off # 0, <<AddX8(off)>>) \o <<Cursor(0)>>),
              Known(L, A, C, O, D, W, Z),
              Known(TRUE, Placed(fast, off), {off}, O, D, W, Z))
<1> DEFINE moved == When(off # 0, <<AddX8(off)>>) \o <<Cursor(0)>>
           P == Known(L, A, C, O, D, W, Z)
           Q == Known(TRUE, {0}, C, O, D, W, Z)
<1>1. Fits(<<Load>>, P, Q)
  BY LoadFits
<1>2. CASE fast
  <2>1. 0 + off = off /\ 0 \in Int
    OBVIOUS
  <2>2. Fits(<<Cursor(off)>>, Q, Known(TRUE, {0}, {0 + off}, O, D, W, Z))
    BY <2>1, CursorFits
  <2>3. Fits(<<Cursor(off)>>, Q, Known(TRUE, {0}, {off}, O, D, W, Z))
    BY <2>1, <2>2
  <2> HIDE DEF P, Q
  <2>4. Fits(<<Load>> \o <<Cursor(off)>>, P, Known(TRUE, {0}, {off}, O, D, W, Z))
    BY <1>1, <2>3, FitsThen
  <2> QED  BY <1>2, <2>4 DEF P, Placed
<1>3. CASE ~fast
  <2>1. Fits(moved, Q, Known(TRUE, {off}, {off}, O, D, W, Z))
    BY MovedFits
  <2> HIDE DEF P, Q, moved
  <2>2. Fits(<<Load>> \o moved, P, Known(TRUE, {off}, {off}, O, D, W, Z))
    BY <1>1, <2>1, FitsThen
  <2> QED  BY <1>3, <2>2 DEF P, Placed, moved
<1> QED  BY <1>2, <1>3

LEMMA NonnullFits ==
  ASSUME NEW scope, ~scope.active, NEW off \in Int, NEW n \in Node, n.terms # <<>>,
         n.kind = "NONNULL_MULTIPLY_LOOP"
  PROVE  Fits(MultiplyCode(n, off, scope), Nonzero(off), Machine)
<1> DEFINE V == TermWindow(n, off)
           O == {off}
           Q == O \union V
           fast == \A d \in TermOffsets(n) : Near(d)
           E == Placed(fast, off)
           window == GuardAll(scope, V, 4, 5)
           moved  == When(off # 0, <<AddX8(off)>>) \o <<Cursor(0)>>
           place  == <<Load>> \o (IF fast THEN <<Cursor(off)>> ELSE moved)
           count  == <<LoadCounter>>
           apply  == Products(n)
           K1 == Known(FALSE, Int, Int, Q, AnyX12, AnyW0, O)
           K2 == Known(TRUE, E, {off}, Q, AnyX12, AnyW0, O)
           K3 == Known(TRUE, E, {off}, Q, Counts, AnyW0, {})
<1>1. MultiplyCode(n, off, scope) = window \o place \o count \o apply
  BY Zenon DEF MultiplyCode
<1>2. Bounded(V) /\ \A d \in TermOffsets(n) : off + d \in V
  BY TermWindowBounded
<1> HIDE DEF V
<1>3. Q \in SUBSET Int /\ off \in Q /\ off \in O /\ \A d \in TermOffsets(n) : off + d \in Q
  BY <1>2 DEF Bounded
<1>4. fast \/ E = {off}
  BY DEF Placed
<1> HIDE DEF E, fast
<1>5. Fits(window, Nonzero(off), K1)
  <2>1. 4 \in 1 .. 9 /\ 5 \in 1 .. 9 /\ 0 \in Int /\ Int \subseteq Int
    OBVIOUS
  <2>2. Nonzero(off) = Known(FALSE, Int, Int, O, AnyX12, AnyW0, O)
    BY DEF Nonzero
  <2> HIDE DEF O
  <2>3. Fits(window, Known(FALSE, Int, Int, O, AnyX12, AnyW0, O),
             Known(FALSE, Int, Int, O \union V, AnyX12, AnyW0, O))
    BY <1>2, <2>1, GuardAllFits
  <2> QED  BY <2>2, <2>3
<1> HIDE DEF O, Q
<1>6. Fits(place, K1, K2)
  BY PlaceFits DEF E
<1>7. Fits(count, K2, K3)
  BY <1>3, LoadCounterFits
<1>8. Fits(apply, K3, Machine)
  <2>1. Fits(apply, K3, K3)
    BY <1>3, <1>4, ProductsFit DEF fast
  <2> QED  BY <2>1, FitsAnywhere
<1> HIDE DEF window, place, count, apply, K1, K2, K3
<1>9. Fits(window \o place, Nonzero(off), K2)
  BY <1>5, <1>6, FitsThen
<1>10. Fits((window \o place) \o count, Nonzero(off), K3)
  BY <1>7, <1>9, FitsThen
<1>11. Fits(((window \o place) \o count) \o apply, Nonzero(off), Machine)
  BY <1>8, <1>10, FitsThen
<1> QED  BY <1>1, <1>11

\* The far guard and what follows it, once the counter is known not to be 0.  If the
\* pointer has been loaded into x8 for it, x8 is moved to the counter again: that
\* relies on the guard's checking something then.
LEMMA ApplyFits ==
  ASSUME NEW scope, ~scope.active, NEW off \in Int, NEW n \in Node, n.terms # <<>>
  PROVE  LET window == GuardAll(scope, TermWindow(n, off), 4, 5)
             fast   == \A d \in TermOffsets(n) : Near(d)
             moved  == When(off # 0, <<AddX8(off)>>) \o <<Cursor(0)>>
             again  == IF off # 0 /\ fast THEN <<>> ELSE moved
         IN  Fits(window \o Reloaded(again) \o Products(n),
                  Known(TRUE, Placed(fast, off), {off}, {off}, AnyX12, AnyW0, {off}), Machine)
<1> DEFINE V == TermWindow(n, off)
           O == {off}
           Q == O \union V
           fast == \A d \in TermOffsets(n) : Near(d)
           E == Placed(fast, off)
           window == GuardAll(scope, V, 4, 5)
           moved  == When(off # 0, <<AddX8(off)>>) \o <<Cursor(0)>>
           again  == IF off # 0 /\ fast THEN <<>> ELSE moved
           count  == <<LoadCounter>>
           apply  == Products(n)
           A  == IF off # 0 /\ fast THEN Int ELSE {off}
           B  == IF off # 0 /\ fast THEN Int ELSE {0}
           K0 == Known(TRUE, E, {off}, O, AnyX12, AnyW0, O)
           K1 == Known(TRUE, B, {off}, Q, AnyX12, AnyW0, O)
           K2 == Known(TRUE, A, {off}, Q, AnyX12, AnyW0, O)
           K3 == Known(TRUE, A, {off}, Q, Counts, AnyW0, {})
<1>1. Reloaded(again) = again \o count
  BY DEF Reloaded
<1>2. /\ Bounded(V) /\ \A d \in TermOffsets(n) : off + d \in V
      /\ off # 0 => off \in V
  BY TermWindowBounded
<1> HIDE DEF V
<1>3. Q \in SUBSET Int /\ off \in Q /\ off \in O /\ \A d \in TermOffsets(n) : off + d \in Q
  BY <1>2 DEF Bounded
<1> HIDE DEF fast
<1>4. 0 \in B /\ (E \subseteq B \/ \E d \in V : d # 0) /\ (fast \/ A = {off})
  BY <1>2 DEF Placed
<1>5. Fits(window, K0, K1)
  <2>1. 4 \in 1 .. 9 /\ 5 \in 1 .. 9
    OBVIOUS
  <2> HIDE DEF O, B, E
  <2>2. Fits(window, Known(TRUE, E, {off}, O, AnyX12, AnyW0, O),
             Known(TRUE, B, {off}, O \union V, AnyX12, AnyW0, O))
    BY <1>2, <1>4, <2>1, GuardAllFits
  <2> QED  BY <2>2
<1>6. Fits(again, K1, K2)
  <2>1. CASE off # 0 /\ fast
    <3>1. again = <<>> /\ A = B  BY <2>1
    <3> HIDE DEF again, A, B, Q, O
    <3> QED  BY <3>1, KnownMachine, FitsNothing
  <2>2. CASE ~(off # 0 /\ fast)
    <3>1. again = moved /\ B = {0} /\ A = {off}  BY <2>2
    <3> HIDE DEF again, A, B, Q, O
    <3>2. Fits(moved, Known(TRUE, {0}, {off}, Q, AnyX12, AnyW0, O),
               Known(TRUE, {off}, {off}, Q, AnyX12, AnyW0, O))
      BY MovedFits
    <3> HIDE DEF moved
    <3> QED  BY <3>1, <3>2
  <2> QED  BY <2>1, <2>2
<1>7. K0 = Known(TRUE, Placed(fast, off), {off}, {off}, AnyX12, AnyW0, {off})
  OBVIOUS
<1> HIDE DEF O, Q, A
<1>8. Fits(count, K2, K3)
  BY <1>3, LoadCounterFits
<1>9. Fits(apply, K3, Machine)
  <2>1. Fits(apply, K3, K3)
    BY <1>3, <1>4, ProductsFit DEF fast
  <2> QED  BY <2>1, FitsAnywhere
<1> HIDE DEF window, again, count, apply, K0, K1, K2, K3
<1>10. Fits(again \o count, K1, K3)
  BY <1>6, <1>8, FitsThen
<1>11. Fits(window \o (again \o count), K0, K3)
  BY <1>5, <1>10, FitsThen
<1>12. Fits((window \o (again \o count)) \o apply, K0, Machine)
  BY <1>9, <1>11, FitsThen
<1>13. Fits((window \o Reloaded(again)) \o apply, K0, Machine)
  BY <1>1, <1>12
<1> QED  BY <1>7, <1>13 DEF window, again, apply, fast, V

\* A loop whose counter is tested before the far guard.
LEMMA TestedFits ==
  ASSUME NEW scope, ~scope.active, NEW off \in Int, NEW n \in Node, n.terms # <<>>,
         n.kind # "NONNULL_MULTIPLY_LOOP"
  PROVE  Fits(MultiplyCode(n, off, scope), Machine, Machine)
<1> DEFINE O == {off}
           fast   == \A d \in TermOffsets(n) : Near(d)
           E      == Placed(fast, off)
           window == GuardAll(scope, TermWindow(n, off), 4, 5)
           moved  == When(off # 0, <<AddX8(off)>>) \o <<Cursor(0)>>
           place  == <<Load>> \o (IF fast THEN <<Cursor(off)>> ELSE moved)
           again  == IF off # 0 /\ fast THEN <<>> ELSE moved
           apply  == window \o Reloaded(again) \o Products(n)
           near   == RangeGuard(scope, off, off, 4, 5)
           skip   == Len(apply) + 1
           count  == <<LoadCounter>>
           i      == IfCounterZero(skip)
           K0 == Known(FALSE, Int, Int, O, AnyX12, AnyW0, {})
           K1 == Known(TRUE, E, {off}, O, AnyX12, AnyW0, {})
           K2 == Counted(E, off, O)
           K3 == Known(TRUE, E, {off}, O, AnyX12, AnyW0, O)
<1>1. MultiplyCode(n, off, scope) = near \o place \o <<LoadCounter, i>> \o apply
  BY Zenon DEF MultiplyCode
<1>2. Fits(near, Machine, K0)
  <2>1. 4 \in 1 .. 9 /\ 5 \in 1 .. 9
    OBVIOUS
  <2> QED  BY <2>1, GuardsFit DEF Guarded
<1>3. Fits(apply, K3, Machine)
  BY ApplyFits
<1>4. E \subseteq Int /\ off \in O
  BY DEF Placed
<1> HIDE DEF fast
<1>5. Fits(place, K0, K1)
  <2> HIDE DEF O
  <2> QED  BY PlaceFits
<1>6. Fits(count, K1, K2)
  <2> HIDE DEF E, O
  <2> QED  BY <1>4, CountFits
<1> HIDE DEF window, moved, place, again, apply, near
<1>7. apply \in Seq(AnyInstruction) /\ near \in Seq(AnyInstruction) /\ place \in Seq(AnyInstruction)
  BY <1>2, <1>3, <1>5, FitsIsCode
<1>8. skip \in Int /\ skip = Len(apply) + 1
  BY <1>7
<1>9. i \in AnyInstruction /\ i.to = skip /\ Keeps(i, K2, K3, Machine)
  <2> HIDE DEF skip, E
  <2> QED  BY <1>8, IfCounterZeroKeeps DEF i, O
<1>10. K2 \subseteq Machine /\ Machine \subseteq Machine
  BY KnownMachine DEF Counted
<1> HIDE DEF K0, K1, K2, K3, i, skip, count
<1>11. Fits(<<i>> \o apply, K2, Machine)
  BY <1>3, <1>8, <1>9, <1>10, FitsBehindJump
<1>12. Fits(near \o place, Machine, K1)
  BY <1>2, <1>5, FitsThen
<1>13. Fits((near \o place) \o count, Machine, K2)
  BY <1>6, <1>12, FitsThen
<1>14. Fits(((near \o place) \o count) \o (<<i>> \o apply), Machine, Machine)
  BY <1>11, <1>13, FitsThen
<1>15. ((near \o place) \o count) \o (<<i>> \o apply)
         = near \o place \o <<LoadCounter, i>> \o apply
  <2> DEFINE x == near \o place
  <2>1. x \in Seq(AnyInstruction)  BY <1>7
  <2>2. <<i>> \in Seq(AnyInstruction) /\ count \in Seq(AnyInstruction)
    BY <1>9, LoadCounterType DEF count
  <2>3. <<LoadCounter, i>> = count \o <<i>>
    BY <1>9, LoadCounterType, Tuples DEF count
  <2> HIDE DEF x
  <2> DEFINE y == x \o count
             w == <<i>>
  <2>4. y \in Seq(AnyInstruction)
    BY <2>1, <2>2
  <2>5. (y \o w) \o apply = y \o (w \o apply)
    <3>1. w \in Seq(AnyInstruction)  BY <2>2
    <3>2. apply \in Seq(AnyInstruction)  BY <1>7
    <3> HIDE DEF y, w
    <3> QED  BY <2>4, <3>1, <3>2, Associative
  <2>6. (x \o count) \o <<i>> = x \o (count \o <<i>>)
    BY <2>1, <2>2, Associative
  <2> QED  BY <2>3, <2>5, <2>6 DEF x
<1> QED  BY <1>1, <1>14, <1>15

\* A multiply loop, which a NONNULL_MULTIPLY_LOOP may not be executed as unless the
\* counter is known not to be 0.
LEMMA MultiplyFits ==
  ASSUME NEW scope, ~scope.active, NEW off \in Int, NEW n \in Node
  PROVE  /\ Fits(MultiplyCode(n, off, scope), Nonzero(off), Machine)
         /\ n.kind # "NONNULL_MULTIPLY_LOOP" =>
              Fits(MultiplyCode(n, off, scope), Machine, Machine)
<1>1. Nonzero(off) \subseteq Machine /\ Machine \subseteq Machine
  BY KnownMachine DEF Nonzero
<1>2. CASE n.terms = <<>>
  <2>1. Fits(MultiplyCode(n, off, scope), Machine, Machine)
    BY <1>2, ClearFits DEF MultiplyCode
  <2> QED  BY <1>1, <2>1, FitsWeaker
<1>3. CASE n.terms # <<>> /\ n.kind = "NONNULL_MULTIPLY_LOOP"
  BY <1>3, NonnullFits
<1>4. CASE n.terms # <<>> /\ n.kind # "NONNULL_MULTIPLY_LOOP"
  <2>1. Fits(MultiplyCode(n, off, scope), Machine, Machine)
    BY <1>4, TestedFits
  <2> QED  BY <1>1, <2>1, FitsWeaker
<1> QED  BY <1>2, <1>3, <1>4

\* Several cells are zeroed, and the pointer moves.
LEMMA MultiZeroFits ==
  ASSUME NEW scope, ~scope.active, NEW n \in Node
  PROVE  Fits(MultiZeroCode(n, scope), Machine, Machine)
<1> DEFINE S     == TermOffsets(n) \union {n.arg}
           P     == Known(TRUE, {0}, Int, S, AnyX12, AnyW0, {})
           Q     == Known(TRUE, {n.arg}, Int, S, AnyX12, AnyW0, {})
           guard == GuardAll(scope, S, 8, 9)
           row   == [k \in DOMAIN n.terms |-> Store("x9", n.terms[k].offset, 0)]
           move  == When(n.arg # 0, <<AddX8(n.arg)>>)
<1>1. n.terms \in Seq(Terms) /\ n.arg \in Int
  BY NodeAssumption
<1>2. PICK b \in Nat : \A d \in TermOffsets(n) : -b <= d /\ d <= b
  BY TermOffsetsBounded
<1>3. S \subseteq Int /\ S # {} /\ n.arg \in S
  <2>1. TermOffsets(n) \subseteq Int  BY TermOffsetsBounded
  <2> QED  BY <1>1, <2>1
<1>4. Bounded(S)
  <2>1. PICK c \in Nat : c = IF n.arg >= 0 THEN b + n.arg ELSE b - n.arg
    BY <1>1
  <2>2. ASSUME NEW d \in S PROVE -c <= d /\ d <= c
    <3>1. d \in Int  BY <1>3
    <3>2. CASE d = n.arg  BY <1>1, <2>1, <3>2
    <3>3. CASE d # n.arg
      <4>1. -b <= d /\ d <= b  BY <1>2, <3>3
      <4> QED  BY <1>1, <2>1, <3>1, <4>1
    <3> QED  BY <3>2, <3>3
  <2> HIDE DEF S
  <2> QED  BY <1>3, <2>2 DEF Bounded
<1>5. ASSUME NEW k \in DOMAIN n.terms
      PROVE  row[k] \in AnyInstruction /\ Keeps(row[k], P, P, {})
  <2> DEFINE a == n.terms[k].offset
             i == Store("x9", a, 0)
  <2>1. a \in TermOffsets(n)  BY DEF TermOffsets
  <2>2. a \in S /\ a \in Int  BY <1>3, <2>1
  <2>3. row[k] = i  OBVIOUS
  <2> HIDE DEF a, row, S
  <2>4. i \in AnyInstruction /\ i.op = "store" /\ i.base = "x9" /\ i.off = a /\ i.val = 0
    <3>1. "x9" \in Bases /\ 0 \in Int  BY BaseType
    <3> QED  BY <2>2, <3>1, AccessTypes DEF IsAccess
  <2> HIDE DEF i
  <2>5. Hits(i, a, TRUE, {0}, Int)
    BY <2>2, <2>4 DEF Hits
  <2>6. "store" \in Writes /\ "store" # "store_w0" /\ "store" # "term"
    BY DEF Writes
  <2>7. 0 \in Cell
    BY CellCountAssumption DEF Cell
  <2>8. Keeps(i, P, P, {})
    BY <2>2, <2>4, <2>5, <2>6, <2>7, WritesKeep
  <2> QED  BY <2>3, <2>4, <2>8
<1>6. row \in Seq(AnyInstruction) /\ Len(row) = Len(n.terms) /\ DOMAIN n.terms = 1 .. Len(row)
  <2>1. Len(n.terms) \in Nat /\ DOMAIN n.terms = 1 .. Len(n.terms)  BY <1>1
  <2>2. row \in [1 .. Len(n.terms) -> AnyInstruction]
    <3>1. DOMAIN row = 1 .. Len(n.terms)  BY <2>1
    <3>2. \A k \in 1 .. Len(n.terms) : row[k] \in AnyInstruction  BY <1>5, <2>1
    <3>3. row = [k \in 1 .. Len(n.terms) |-> row[k]]  BY <2>1
    <3> HIDE DEF row
    <3> QED  BY <3>2, <3>3
  <2> HIDE DEF row
  <2>3. row \in Seq(AnyInstruction)  BY <2>1, <2>2
  <2> QED  BY <2>1, <2>2, <2>3
<1>7. P \subseteq Machine
  BY KnownMachine
<1>8. Fits(guard, Machine, Guarded(S))
  <2>1. 8 \in 1 .. 9 /\ 9 \in 1 .. 9  OBVIOUS
  <2> HIDE DEF S
  <2> QED  BY <1>4, <2>1, GuardsFit
<1>9. Fits(<<Load>>, Guarded(S), P)
  <2> HIDE DEF S
  <2> QED  BY LoadFits DEF Guarded
<1>10. Fits(row, P, P)
  <2> HIDE DEF row, P, S
  <2> QED  BY <1>5, <1>6, <1>7, FitsRow
<1>11. Fits(move, P, Q)
  <2> HIDE DEF S
  <2>1. CASE n.arg # 0
    <3>1. move = <<AddX8(n.arg)>> /\ 0 + n.arg = n.arg /\ 0 \in Int  BY <1>1, <2>1 DEF When
    <3> HIDE DEF move
    <3>2. Fits(<<AddX8(n.arg)>>, P, Known(TRUE, {0 + n.arg}, Int, S, AnyX12, AnyW0, {}))
      BY <1>1, <3>1, AddX8Fits
    <3> QED  BY <3>1, <3>2
  <2>2. CASE n.arg = 0
    <3>1. move = <<>>  BY <2>2 DEF When
    <3> HIDE DEF move
    <3> QED  BY <2>2, <3>1, KnownMachine, FitsNothing
  <2> QED  BY <2>1, <2>2
<1>12. Fits(<<StorePtr>>, Q, Machine)
  <2> HIDE DEF S
  <2> QED  BY <1>1, <1>3, StorePtrFits
<1> HIDE DEF S, P, Q, guard, row, move
<1>13. Fits(guard \o <<Load>>, Machine, P)
  BY <1>8, <1>9, FitsThen
<1>14. Fits((guard \o <<Load>>) \o row, Machine, P)
  BY <1>10, <1>13, FitsThen
<1>15. Fits(((guard \o <<Load>>) \o row) \o move, Machine, Q)
  BY <1>11, <1>14, FitsThen
<1>16. Fits((((guard \o <<Load>>) \o row) \o move) \o <<StorePtr>>, Machine, Machine)
  BY <1>12, <1>15, FitsThen
<1> QED  BY <1>16 DEF MultiZeroCode, S, guard, row, move
-----------------------------------------------------------------------------
(* Scans.                                                                  *)

\* x8 is what the scan has come to, and the cells at the offsets D from it are on
\* the tape, as far as the comparisons that say so are not misled.
Scanning(D) == {m \in Machine : m.x10 /\ (m.fooled \/ \A d \in D : OnTape(m.x8 + d))}

\* The same, with the cursor there.
Cursored(D) == {m \in Scanning(D) : m.x15 = m.x8}

\* The cell at d from x8 has been read.
Found(d) == {m \in Machine : m.x10 /\ OnTape(m.x8 + d)}

LEMMA ScanningFields ==
  ASSUME NEW D, NEW m \in Scanning(D)
  PROVE  /\ m \in Machine /\ m.x8 \in Int /\ m.x15 \in Int /\ m.x10
         /\ m.fooled \in BOOLEAN
         /\ ~m.fooled => \A d \in D : m.x8 + d \in Index
  BY MachineFields DEF Scanning, OnTape

LEMMA FoundFields ==
  ASSUME NEW d, NEW m \in Found(d)
  PROVE  /\ m \in Machine /\ m.x8 \in Int /\ m.x15 \in Int /\ m.x10
         /\ m.fooled \in BOOLEAN /\ m.x8 + d \in Index
  BY MachineFields DEF Found, OnTape

LEMMA ScanStates ==
  /\ \A D : Scanning(D) \subseteq Machine /\ Cursored(D) \subseteq Machine
  /\ \A D : Scanning(D) \subseteq Scanning({})
  /\ \A d : /\ Found(d) \subseteq Machine /\ Found(d) \subseteq Scanning({d})
            /\ Found(d) \subseteq Scanning({})
  BY DEF Scanning, Cursored, Found

\* The fields of the changed states that matter to a scan.
LEMMA ScanChanges ==
  ASSUME NEW m \in Machine
  PROVE  /\ \A v \in Int : /\ SetX8(m, v) \in Machine /\ SetX8(m, v).x8 = v
                           /\ SetX8(m, v).x10 = m.x10 /\ SetX8(m, v).fooled = m.fooled
         /\ \A v \in Int : /\ SetX15(m, v) \in Machine /\ SetX15(m, v).x15 = v
                           /\ SetX15(m, v).x8 = m.x8 /\ SetX15(m, v).x10 = m.x10
                           /\ SetX15(m, v).fooled = m.fooled
         /\ /\ SetX12(m, TapeSize) \in Machine /\ SetX12(m, TapeSize).x8 = m.x8
            /\ SetX12(m, TapeSize).x10 = m.x10 /\ SetX12(m, TapeSize).fooled = m.fooled
         /\ Loaded(m) \in Machine /\ Loaded(m).x8 = m.pointer /\ Loaded(m).x10
         /\ \A w \in BOOLEAN : /\ Misled(m, w) \in Machine /\ Misled(m, w).x8 = m.x8
                               /\ Misled(m, w).x10 = m.x10
                               /\ Misled(m, w).fooled = (m.fooled \/ w)
<1>1. /\ \A v \in Int : SetX8(m, v) \in Machine /\ SetX15(m, v) \in Machine
      /\ SetX12(m, TapeSize) \in Machine /\ Loaded(m) \in Machine
      /\ \A w \in BOOLEAN : Misled(m, w) \in Machine
  BY Changed
<1> QED  BY <1>1 DEF SetX8, SetX15, SetX12, Loaded, Misled, State

LEMMA ScanStarts ==
  Keeps(Load, Machine, Found(0), {})
<1>1. Load.op = "load"
  BY DEF Load, Instruction
<1>2. ASSUME NEW m \in Machine PROVE Loaded(m) \in Found(0)
  <2>1. m.pointer \in Index /\ m.pointer + 0 = m.pointer
    BY MachineFields
  <2>2. Loaded(m) \in Machine
    BY ScanChanges
  <2>3. Loaded(m).x8 = m.pointer /\ Loaded(m).x10
    BY DEF Loaded, State
  <2>4. OnTape(Loaded(m).x8 + 0)
    BY <2>1, <2>3 DEF OnTape
  <2> QED  BY <2>2, <2>3, <2>4 DEF Found
<1> QED  BY <1>1, <1>2 DEF Keeps, Takes, MemoryOps, CheckOps

LEMMA ScanLoadsBound ==
  /\ Keeps(LoadBound, Found(0), Found(0), {})
  /\ Keeps(LoadBound, Scanning({}), Scanning({}), {})
<1>1. LoadBound.op = "load_bound"
  BY DEF LoadBound, Instruction
<1>2. ASSUME NEW m \in Found(0) PROVE SetX12(m, TapeSize) \in Found(0)
  BY FoundFields, ScanChanges DEF Found, OnTape
<1>3. ASSUME NEW m \in Scanning({}) PROVE SetX12(m, TapeSize) \in Scanning({})
  BY ScanningFields, ScanChanges DEF Scanning, OnTape
<1> QED  BY <1>1, <1>2, <1>3 DEF Keeps, Takes, MemoryOps, CheckOps

LEMMA ScanCursors ==
  ASSUME NEW D
  PROVE  Keeps(Cursor(0), Scanning(D), Cursored(D), {})
<1>1. Cursor(0).op = "cursor" /\ Cursor(0).off = 0
  BY DEF Cursor, Instruction
<1>2. ASSUME NEW m \in Scanning(D)
      PROVE  SetX15(m, IF m.x10 THEN m.x8 + 0 ELSE Junk) \in Cursored(D)
  <2> DEFINE n == SetX15(m, m.x8)
  <2>1. m \in Machine /\ m.x8 \in Int /\ m.x10
    BY ScanningFields
  <2>2. m.x8 + 0 = m.x8
    BY <2>1
  <2>3. n \in Machine
    BY <2>1, Changed
  <2>4. n.x15 = m.x8 /\ n.x8 = m.x8 /\ n.x10 = m.x10 /\ n.fooled = m.fooled
    BY DEF SetX15, State
  <2> HIDE DEF n
  <2>5. n \in Scanning(D)
    BY <2>1, <2>3, <2>4, ScanningFields DEF Scanning, OnTape
  <2>6. n \in Cursored(D)
    BY <2>4, <2>5 DEF Cursored
  <2> QED  BY <2>1, <2>2, <2>6 DEF n
<1> QED  BY <1>1, <1>2 DEF Keeps, Takes, MemoryOps, CheckOps

\* A test of a cell through the cursor: the cell was there to be read.
LEMMA ScanTestKeeps ==
  ASSUME NEW D, NEW off \in Int, off \in D, NEW to \in Int
  PROVE  /\ IfZero("x15", off, to) \in AnyInstruction /\ IfZero("x15", off, to).to = to
         /\ Keeps(IfZero("x15", off, to), Cursored(D), Scanning(D) \intersect Found(off), Found(off))
         /\ IfNonzero("x15", off, to) \in AnyInstruction /\ IfNonzero("x15", off, to).to = to
         /\ Keeps(IfNonzero("x15", off, to), Cursored(D), Found(off), Found(off))
<1> DEFINE i == IfZero("x15", off, to)
           k == IfNonzero("x15", off, to)
<1>1. "x15" \in Bases  BY DEF Bases
<1>2. /\ i \in AnyInstruction /\ i.op = "jz" /\ i.base = "x15" /\ i.off = off /\ i.to = to
      /\ k \in AnyInstruction /\ k.op = "jnz" /\ k.base = "x15" /\ k.off = off /\ k.to = to
  BY <1>1, BranchTypes DEF IsAccess
<1> HIDE DEF i, k
<1>3. ASSUME NEW m \in Cursored(D)
      PROVE  /\ m \in Scanning(D)
             /\ Reaches(m, i) \/ m.fooled
             /\ Reaches(m, i) => m \in Found(off)
             /\ Reaches(m, k) \/ m.fooled
             /\ Reaches(m, k) => m \in Found(off)
  <2>1. m \in Scanning(D) /\ m.x15 = m.x8  BY DEF Cursored
  <2>2. Place(m, i) = m.x8 + off /\ Place(m, k) = m.x8 + off  BY <1>2, <2>1 DEF Place
  <2> QED  BY <1>2, <2>1, <2>2, ScanningFields DEF Reaches, Found, OnTape
<1>4. Keeps(i, Cursored(D), Scanning(D) \intersect Found(off), Found(off))
  BY <1>2, <1>3 DEF Keeps, Takes, TakesMemory, MemoryOps, CheckOps
<1>5. Keeps(k, Cursored(D), Found(off), Found(off))
  BY <1>2, <1>3 DEF Keeps, Takes, TakesMemory, MemoryOps, CheckOps
<1> QED  BY <1>2, <1>4, <1>5 DEF i, k

LEMMA ScanAdvances ==
  ASSUME NEW delta \in Int
  PROVE  /\ AddX8(delta) \in AnyInstruction
         /\ Keeps(AddX8(delta), Scanning({}), Scanning({}), {})
         /\ Keeps(AddX8(delta), Scanning({delta}), Scanning({0}), {})
         /\ Keeps(AddX8(delta), Found(delta), Found(0), {})
<1> DEFINE i == AddX8(delta)
<1>1. i \in AnyInstruction
  BY LoadType
<1>2. i.op = "advance" /\ i.off = delta
  BY DEF AddX8, Instruction
<1> HIDE DEF i
<1>3. ASSUME NEW m \in Machine
      PROVE  /\ SetX8(m, m.x8 + delta) \in Machine
             /\ SetX8(m, m.x8 + delta).x8 + 0 = m.x8 + delta
             /\ SetX8(m, m.x8 + delta).x10 = m.x10 /\ SetX8(m, m.x8 + delta).fooled = m.fooled
  <2> DEFINE k == m.x8 + delta
  <2>1. k \in Int /\ k + 0 = k  BY MachineFields
  <2> HIDE DEF k
  <2>2. SetX8(m, k) \in Machine
    BY <2>1, Changed
  <2>3. SetX8(m, k).x8 = k /\ SetX8(m, k).x10 = m.x10 /\ SetX8(m, k).fooled = m.fooled
    BY DEF SetX8, State
  <2> QED  BY <2>1, <2>2, <2>3 DEF k
<1>4. ASSUME NEW m \in Scanning({}) PROVE SetX8(m, m.x8 + delta) \in Scanning({})
  BY <1>3, ScanningFields DEF Scanning
<1>5. ASSUME NEW m \in Scanning({delta}) PROVE SetX8(m, m.x8 + delta) \in Scanning({0})
  BY <1>3, ScanningFields DEF Scanning, OnTape
<1>6. ASSUME NEW m \in Found(delta) PROVE SetX8(m, m.x8 + delta) \in Found(0)
  BY <1>3, FoundFields DEF Found, OnTape
<1>7. Keeps(i, Scanning({}), Scanning({}), {})
  BY <1>2, <1>4 DEF Keeps, Takes, MemoryOps, CheckOps
<1>8. Keeps(i, Scanning({delta}), Scanning({0}), {})
  BY <1>2, <1>5 DEF Keeps, Takes, MemoryOps, CheckOps
<1>9. Keeps(i, Found(delta), Found(0), {})
  BY <1>2, <1>6 DEF Keeps, Takes, MemoryOps, CheckOps
<1> QED  BY <1>1, <1>7, <1>8, <1>9 DEF i

LEMMA ScanChecks ==
  ASSUME NEW reason \in Int
  PROVE  /\ CheckBound(reason) \in AnyInstruction
         /\ Keeps(CheckBound(reason), Scanning({}), Scanning({0}), {})
<1> DEFINE i == CheckBound(reason)
<1>1. i \in AnyInstruction
  BY DEF CheckBound, Instruction, AnyInstruction, Ops, CheckOps
<1>2. i.op = "check_bound"
  BY DEF CheckBound, Instruction
<1> HIDE DEF i
<1>3. ASSUME NEW m \in Scanning({}) PROVE Misled(m, ~OnTape(m.x8)) \in Scanning({0})
  <2>1. m \in Machine /\ m.x8 + 0 = m.x8 /\ m.x10  BY ScanningFields
  <2>2. (~OnTape(m.x8)) \in BOOLEAN  OBVIOUS
  <2> DEFINE n == Misled(m, ~OnTape(m.x8))
  <2>3. n \in Machine
    BY <2>1, <2>2, Changed
  <2>4. n.x8 + 0 = m.x8 /\ n.x10 = m.x10 /\ n.fooled = (m.fooled \/ ~OnTape(m.x8))
    BY <2>1 DEF Misled, State
  <2> HIDE DEF n
  <2>5. n \in Scanning({0})
    BY <2>1, <2>3, <2>4 DEF Scanning
  <2> QED  BY <2>5 DEF n
<1>4. Keeps(i, Scanning({}), Scanning({0}), {})
  BY <1>2, <1>3 DEF Keeps, Takes, TakesCheck, MemoryOps, CheckOps
<1> QED  BY <1>1, <1>4 DEF i

\* A scan downwards compares before it moves.
LEMMA ScanChecksBack ==
  ASSUME NEW delta \in Nat, NEW reason \in Int
  PROVE  /\ CheckBack(delta, reason) \in AnyInstruction
         /\ Keeps(CheckBack(delta, reason), Found(0), Scanning({-delta}), {})
         /\ CheckBackImm(delta, reason) \in AnyInstruction
         /\ Keeps(CheckBackImm(delta, reason), Found(0), Scanning({-delta}), {})
<1> DEFINE i == CheckBack(delta, reason)
           k == CheckBackImm(delta, reason)
<1>1. i \in AnyInstruction /\ k \in AnyInstruction
  BY DEF CheckBack, CheckBackImm, Instruction, AnyInstruction, Ops, CheckOps
<1>2. i.op = "check_back" /\ i.off = delta /\ k.op = "check_back_imm" /\ k.off = delta
  BY DEF CheckBack, CheckBackImm, Instruction
<1> HIDE DEF i, k
<1>3. ASSUME NEW m \in Found(0), m.x8 >= delta PROVE OnTape(m.x8 + (-delta))
  <2>1. m.x8 \in Int /\ m.x8 + 0 \in Index  BY FoundFields
  <2> QED  BY <1>3, <2>1, TapeAssumption DEF Index, OnTape
<1>4. ASSUME NEW m \in Found(0), m.x8 >= delta PROVE m \in Scanning({-delta})
  BY <1>3, <1>4, FoundFields DEF Scanning
<1>5. ASSUME NEW m \in Found(0) PROVE Misled(m, ~(m.x8 >= delta)) \in Scanning({-delta})
  <2>1. m \in Machine /\ m.x10  BY FoundFields
  <2>2. (~(m.x8 >= delta)) \in BOOLEAN  OBVIOUS
  <2> QED  BY <1>3, <2>1, <2>2, ScanChanges DEF Scanning
<1>6. Keeps(i, Found(0), Scanning({-delta}), {})
  BY <1>2, <1>4 DEF Keeps, Takes, TakesCheck, MemoryOps, CheckOps
<1>7. Keeps(k, Found(0), Scanning({-delta}), {})
  BY <1>2, <1>5 DEF Keeps, Takes, TakesCheck, MemoryOps, CheckOps
<1> QED  BY <1>1, <1>6, <1>7 DEF i, k

\* The loop of a scan, whose step are the instructions a and b.
LEMMA ScanLoopFits ==
  ASSUME NEW a \in AnyInstruction, NEW b \in AnyInstruction, NEW M, M \subseteq Machine,
         Keeps(a, Found(0), M, {}), Keeps(b, M, Scanning({0}), {}),
         NEW i, i = IfZero("x15", 0, 5), NEW k, k = IfNonzero("x15", 0, -3)
  PROVE  /\ i \in AnyInstruction /\ k \in AnyInstruction
         /\ Fits(<<Cursor(0), i, a, b, Cursor(0), k, StorePtr>>, Scanning({0}), Machine)
<1> DEFINE g == Cursor(0)
           c == <<g, i, a, b, g, k, StorePtr>>
           S == Scanning({0})
           T == Cursored({0})
           F == Found(0)
           known == [j \in Int |-> IF j \in {1, 5} THEN S ELSE IF j \in {2, 6} THEN T
                                   ELSE IF j \in {3, 7} THEN F ELSE IF j = 4 THEN M
                                   ELSE IF j = 8 THEN Machine ELSE {}]
<1>1. 0 \in Int /\ 0 \in {0} /\ 5 \in Int
  OBVIOUS
<1>2. /\ i \in AnyInstruction /\ i.to = 5
      /\ Keeps(i, T, S \intersect F, F)
  BY <1>1, ScanTestKeeps
<1>3. k \in AnyInstruction /\ k.to = -3 /\ Keeps(k, T, F, F)
  <2> DEFINE t == -3
  <2>1. t \in Int  OBVIOUS
  <2> HIDE DEF t
  <2>2. /\ IfNonzero("x15", 0, t) \in AnyInstruction /\ IfNonzero("x15", 0, t).to = t
        /\ Keeps(IfNonzero("x15", 0, t), T, F, F)
    BY <1>1, <2>1, ScanTestKeeps
  <2> QED  BY <2>2 DEF t
<1>4. g \in AnyInstruction /\ Keeps(g, S, T, {})
  BY LoadType, ScanCursors
<1>5. StorePtr \in AnyInstruction /\ Keeps(StorePtr, F, Machine, {})
  <2>1. \A m \in F : m \in Machine /\ m.x8 \in Index
    <3> SUFFICES ASSUME NEW m \in F PROVE m \in Machine /\ m.x8 \in Index
      OBVIOUS
    <3>1. m \in Machine /\ m.x8 \in Int /\ m.x8 + 0 \in Index  BY FoundFields
    <3> QED  BY <3>1
  <2> QED  BY <2>1, StorePtrType, StorePtrKeeps
<1>6. /\ S \subseteq Machine /\ T \subseteq Machine /\ F \subseteq Machine
      /\ Keeps(a, F, M, {}) /\ Keeps(b, M, S, {})
  BY ScanStates
<1> HIDE DEF g, S, T, F
<1>7. /\ c \in Seq(AnyInstruction) /\ Len(c) = 7
      /\ c[1] = g /\ c[2] = i /\ c[3] = a /\ c[4] = b /\ c[5] = g /\ c[6] = k
      /\ c[7] = StorePtr
  BY <1>2, <1>3, <1>4, <1>5
<1>8. /\ known \in [Int -> SUBSET Machine]
      /\ known[1] = S /\ known[2] = T /\ known[3] = F /\ known[4] = M
      /\ known[5] = S /\ known[6] = T /\ known[7] = F /\ known[8] = Machine
      /\ \A j \in Int : j \notin 1 .. 8 => known[j] = {}
  BY <1>6
<1> HIDE DEF c, known
<1> DEFINE Right(j) == Keeps(c[j], known[j], known[j + 1], known[j + c[j].to])
<1>9. ASSUME NEW j \in Int, NEW x, c[j] = x, NEW H, known[j] = H,
             NEW N, known[j + 1] = N, Keeps(x, H, N, {})
      PROVE  Right(j)
  <2>1. {} \subseteq known[j + c[j].to] /\ H \subseteq H /\ N \subseteq N  OBVIOUS
  <2>2. Keeps(x, H, N, known[j + c[j].to])
    BY <1>9, <2>1, KeepsMonotone
  <2> QED  BY <1>9, <2>2
<1>10. Right(1)
  <2>1. 1 + 1 = 2 /\ 1 \in Int  OBVIOUS
  <2> HIDE DEF Right
  <2> QED  BY <1>4, <1>7, <1>8, <1>9, <2>1
<1>11. Right(2)
  <2>1. 2 + 1 = 3 /\ 2 + 5 = 7  OBVIOUS
  <2>2. S \intersect F \subseteq F /\ F \subseteq F /\ T \subseteq T  OBVIOUS
  <2>3. Keeps(i, T, F, F)
    BY <1>2, <2>2, KeepsMonotone
  <2> QED  BY <1>2, <1>7, <1>8, <2>1, <2>3
<1>12. Right(3)
  <2>1. 3 + 1 = 4 /\ 3 \in Int  OBVIOUS
  <2> HIDE DEF Right
  <2> QED  BY <1>6, <1>7, <1>8, <1>9, <2>1
<1>13. Right(4)
  <2>1. 4 + 1 = 5 /\ 4 \in Int  OBVIOUS
  <2> HIDE DEF Right
  <2> QED  BY <1>6, <1>7, <1>8, <1>9, <2>1
<1>14. Right(5)
  <2>1. 5 + 1 = 6 /\ 5 \in Int  OBVIOUS
  <2> HIDE DEF Right
  <2> QED  BY <1>4, <1>7, <1>8, <1>9, <2>1
<1>15. Right(6)
  <2>1. 6 + 1 = 7 /\ 6 + (-3) = 3  OBVIOUS
  <2> QED  BY <1>3, <1>7, <1>8, <2>1
<1>16. Right(7)
  <2>1. 7 + 1 = 8 /\ 7 \in Int  OBVIOUS
  <2> HIDE DEF Right
  <2> QED  BY <1>5, <1>7, <1>8, <1>9, <2>1
<1>17. \A j \in 1 .. Len(c) : Right(j)
  <2> HIDE DEF Right
  <2> SUFFICES ASSUME NEW j \in 1 .. 7 PROVE Right(j)
    BY <1>7
  <2>1. j = 1 \/ j = 2 \/ j = 3 \/ j = 4 \/ j = 5 \/ j = 6 \/ j = 7  OBVIOUS
  <2> QED  BY <2>1, <1>10, <1>11, <1>12, <1>13, <1>14, <1>15, <1>16
<1>18. Valid(c, known)
  BY <1>7, <1>8, <1>17 DEF Valid, Code!Valid
<1>19. Len(c) + 1 = 8 /\ S \subseteq known[1] /\ known[8] \subseteq Machine
  BY <1>7, <1>8
<1>20. Fits(c, S, Machine)
  BY <1>7, <1>18, <1>19 DEF Valid, Fits, Code!Fits
<1> QED  BY <1>2, <1>3, <1>20 DEF c, g, S

\* The step of a scan by step: it moves up and then looks whether it is still on the
\* tape, or looks before it moves down.
ScanStep(step) == IF step > 0 THEN <<AddX8(step), CheckBound(3)>>
                  ELSE <<CheckBack(-step, 3), AddX8(step)>>

LEMMA ScanStepTakes ==
  ASSUME NEW step \in Int
  PROVE  \E a \in AnyInstruction, b \in AnyInstruction, M \in SUBSET Machine :
           /\ ScanStep(step) = <<a, b>>
           /\ Keeps(a, Found(0), M, {}) /\ Keeps(b, M, Scanning({0}), {})
<1>0. 3 \in Int
  OBVIOUS
<1>1. CASE step > 0
  <2> DEFINE a == AddX8(step)
             b == CheckBound(3)
             M == Scanning({})
  <2>1. ScanStep(step) = <<a, b>>  BY <1>1 DEF ScanStep
  <2>2. a \in AnyInstruction /\ Keeps(a, M, M, {})  BY ScanAdvances
  <2>3. Found(0) \subseteq M /\ M \subseteq M /\ {} \subseteq {} /\ M \subseteq Machine
    BY ScanStates
  <2>4. b \in AnyInstruction /\ Keeps(b, M, Scanning({0}), {})  BY <1>0, ScanChecks
  <2> HIDE DEF a, b, M
  <2>5. Keeps(a, Found(0), M, {})  BY <2>2, <2>3, KeepsMonotone
  <2> QED  BY <2>1, <2>2, <2>3, <2>4, <2>5
<1>2. CASE ~(step > 0)
  <2> DEFINE d == -step
             a == CheckBack(d, 3)
             b == AddX8(step)
             M == Scanning({step})
  <2>1. ScanStep(step) = <<a, b>>  BY <1>2 DEF ScanStep
  <2>2. d \in Nat /\ -d = step  BY <1>2
  <2> HIDE DEF d
  <2>3. a \in AnyInstruction /\ Keeps(a, Found(0), Scanning({-d}), {})
    BY <1>0, <2>2, ScanChecksBack
  <2>4. b \in AnyInstruction /\ Keeps(b, M, Scanning({0}), {})  BY ScanAdvances
  <2>5. M \subseteq Machine /\ M = Scanning({-d})  BY <2>2, ScanStates
  <2> HIDE DEF a, b, M
  <2> QED  BY <2>1, <2>3, <2>4, <2>5
<1> QED  BY <1>1, <1>2

LEMMA ScanCoreFits ==
  ASSUME NEW step \in Int
  PROVE  /\ Fits((<<Cursor(0), IfZero("x15", 0, 5)>> \o ScanStep(step))
                   \o <<Cursor(0), IfNonzero("x15", 0, -3), StorePtr>>,
                 Scanning({0}), Machine)
         /\ <<Cursor(0), IfZero("x15", 0, 5)>> \in Seq(AnyInstruction)
         /\ ScanStep(step) \in Seq(AnyInstruction)
         /\ <<Cursor(0), IfNonzero("x15", 0, -3), StorePtr>> \in Seq(AnyInstruction)
<1>1. PICK a \in AnyInstruction, b \in AnyInstruction, M \in SUBSET Machine :
        /\ ScanStep(step) = <<a, b>>
        /\ Keeps(a, Found(0), M, {}) /\ Keeps(b, M, Scanning({0}), {})
  BY ScanStepTakes
<1> DEFINE i == IfZero("x15", 0, 5)
           k == IfNonzero("x15", 0, -3)
           g == Cursor(0)
<1>2. /\ i \in AnyInstruction /\ k \in AnyInstruction
      /\ Fits(<<g, i, a, b, g, k, StorePtr>>, Scanning({0}), Machine)
  BY <1>1, ScanLoopFits
<1>3. g \in AnyInstruction /\ StorePtr \in AnyInstruction
  BY LoadType, StorePtrType
<1> HIDE DEF i, k, g
<1>4. (<<g, i>> \o <<a, b>>) \o <<g, k, StorePtr>> = <<g, i, a, b, g, k, StorePtr>>
  BY <1>2, <1>3, SevenTuple
<1>5. /\ <<g, i>> \in Seq(AnyInstruction) /\ <<a, b>> \in Seq(AnyInstruction)
      /\ <<g, k, StorePtr>> \in Seq(AnyInstruction)
  BY <1>2, <1>3
<1> QED  BY <1>1, <1>2, <1>4, <1>5 DEF i, k, g

\* A scan takes the pending offset along.
LEMMA ScanMovesUp ==
  ASSUME NEW off \in Nat
  PROVE  Fits(<<AddX8(off), LoadBound, CheckBound(1)>>, Found(0), Scanning({0}))
<1> DEFINE a == AddX8(off)
           b == LoadBound
           c == CheckBound(1)
           M == Scanning({})
           S == Scanning({0})
           F == Found(0)
<1>1. a \in AnyInstruction /\ Keeps(a, M, M, {})
  <2>1. off \in Int  OBVIOUS
  <2> HIDE DEF M
  <2>2. AddX8(off) \in AnyInstruction /\ Keeps(AddX8(off), Scanning({}), Scanning({}), {})
    BY <2>1, ScanAdvances
  <2> QED  BY <2>2 DEF M
<1>2. b \in AnyInstruction /\ Keeps(b, M, M, {})
  BY LoadType, ScanLoadsBound
<1>3. c \in AnyInstruction /\ Keeps(c, M, S, {})
  <2>1. 1 \in Int  OBVIOUS
  <2> QED  BY <2>1, ScanChecks
<1>4. F \subseteq Machine /\ M \subseteq Machine /\ S \subseteq Machine /\ F \subseteq M
  BY ScanStates
<1> HIDE DEF a, b, c, M, S, F
<1>5. Keeps(a, F, M, {})
  <2>1. M \subseteq M /\ {} \subseteq {}  OBVIOUS
  <2> QED  BY <1>1, <1>4, <2>1, KeepsMonotone
<1>6. Fits(<<a>>, F, M) /\ Fits(<<b>>, M, M) /\ Fits(<<c>>, M, S)
  BY <1>1, <1>2, <1>3, <1>4, <1>5, FitsOne
<1>7. <<a, b, c>> = (<<a>> \o <<b>>) \o <<c>>
  BY <1>1, <1>2, <1>3, Tuples
<1>8. Fits(<<a>> \o <<b>>, F, M)
  BY <1>6, FitsThen
<1>9. Fits((<<a>> \o <<b>>) \o <<c>>, F, S)
  BY <1>6, <1>8, FitsThen
<1> QED  BY <1>7, <1>9 DEF a, b, c, F, S

LEMMA ScanMovesDown ==
  ASSUME NEW off \in Int, off < 0
  PROVE  Fits(<<CheckBackImm(-off, 1), AddX8(off)>>, Found(0), Scanning({0}))
<1> DEFINE d == -off
           a == CheckBackImm(d, 1)
           b == AddX8(off)
           M == Scanning({off})
           S == Scanning({0})
           F == Found(0)
<1>1. d \in Nat /\ -d = off /\ 1 \in Int
  OBVIOUS
<1> HIDE DEF d
<1>2. a \in AnyInstruction /\ Keeps(a, F, Scanning({-d}), {})
  BY <1>1, ScanChecksBack
<1>3. b \in AnyInstruction /\ Keeps(b, M, S, {})
  BY ScanAdvances
<1>4. F \subseteq Machine /\ M \subseteq Machine /\ S \subseteq Machine /\ M = Scanning({-d})
  BY <1>1, ScanStates
<1> HIDE DEF a, b, M, S, F
<1>5. Fits(<<a>>, F, M) /\ Fits(<<b>>, M, S)
  BY <1>2, <1>3, <1>4, FitsOne
<1>6. <<a, b>> = <<a>> \o <<b>>
  BY <1>2, <1>3, Tuples
<1>7. Fits(<<a, b>>, F, S)
  BY <1>5, <1>6, FitsThen
<1> QED  BY <1>7 DEF a, b, d, F, S

LEMMA ScanFits ==
  ASSUME NEW step \in Int, NEW off \in Int, ~(step = 4 /\ off = 0)
  PROVE  Fits(ScanCode(step, off), Machine, Machine)
<1> DEFINE S == Scanning({0})
           F == Found(0)
           I == IF off > 0 THEN S ELSE F
           H == IF off = 0 THEN F ELSE S
           W == <<Load>>
           X == When(off > 0, <<AddX8(off), LoadBound, CheckBound(1)>>)
           Y == When(off < 0, <<CheckBackImm(-off, 1), AddX8(off)>>)
           V == When(off = 0 /\ step > 1, <<LoadBound>>)
           Z == <<Cursor(0), IfZero("x15", 0, 5)>>
           M == ScanStep(step)
           E == <<Cursor(0), IfNonzero("x15", 0, -3), StorePtr>>
<1>1. ScanCode(step, off) = W \o X \o Y \o V \o Z \o M \o E
  BY DEF ScanCode, ScanStep
<1>2. F \subseteq Machine /\ S \subseteq Machine /\ F \subseteq S
  BY ScanStates
<1>3. Fits(W, Machine, F)
  <2>1. Machine \subseteq Machine  OBVIOUS
  <2>2. Keeps(Load, Machine, F, {})  BY ScanStarts
  <2> HIDE DEF F
  <2> QED  BY <1>2, <2>1, <2>2, LoadType, FitsOne
<1>4. Fits(<<>>, S, S) /\ Fits(<<>>, F, F)
  BY <1>2, FitsNothing
<1>5. Fits(X, F, I)
  <2>1. CASE off > 0
    <3>1. X = <<AddX8(off), LoadBound, CheckBound(1)>> /\ I = S /\ off \in Nat
      BY <2>1 DEF When
    <3> QED  BY <3>1, ScanMovesUp
  <2>2. CASE ~(off > 0)
    <3>1. X = <<>> /\ I = F  BY <2>2 DEF When
    <3> QED  BY <1>4, <3>1
  <2> QED  BY <2>1, <2>2
<1>6. Fits(Y, I, H)
  <2>1. CASE off < 0
    <3>1. Y = <<CheckBackImm(-off, 1), AddX8(off)>> /\ I = F /\ H = S
      BY <2>1 DEF When
    <3>2. Fits(<<CheckBackImm(-off, 1), AddX8(off)>>, F, S)
      BY <2>1, ScanMovesDown
    <3> QED  BY <3>1, <3>2
  <2>2. CASE ~(off < 0)
    <3>1. Y = <<>> /\ I = H  BY <2>2 DEF When
    <3>2. H = S \/ H = F  OBVIOUS
    <3> QED  BY <1>4, <3>1, <3>2
  <2> QED  BY <2>1, <2>2
<1>7. Fits(V, H, H)
  <2>1. CASE off = 0 /\ step > 1
    <3>1. V = <<LoadBound>> /\ H = F  BY <2>1 DEF When
    <3>2. Keeps(LoadBound, F, F, {})  BY ScanLoadsBound
    <3> HIDE DEF F, V, H
    <3>3. Fits(<<LoadBound>>, F, F)  BY <1>2, <3>2, LoadType, FitsOne
    <3> QED  BY <3>1, <3>3
  <2>2. CASE ~(off = 0 /\ step > 1)
    <3>1. V = <<>>  BY <2>2 DEF When
    <3>2. H = S \/ H = F  OBVIOUS
    <3> QED  BY <1>4, <3>1, <3>2
  <2> QED  BY <2>1, <2>2
<1>8. /\ Fits((Z \o M) \o E, S, Machine)
      /\ Z \in Seq(AnyInstruction) /\ M \in Seq(AnyInstruction) /\ E \in Seq(AnyInstruction)
  BY ScanCoreFits
<1>9. H \subseteq S /\ Machine \subseteq Machine
  BY <1>2
<1> HIDE DEF S, F, I, H, W, X, Y, V, Z, M, E
<1> DEFINE B == W \o X \o Y \o V
<1>10. Fits(B, Machine, S)
  <2>1. Fits(W \o X, Machine, I)  BY <1>3, <1>5, FitsThen
  <2>2. Fits((W \o X) \o Y, Machine, H)  BY <1>6, <2>1, FitsThen
  <2>3. Fits(((W \o X) \o Y) \o V, Machine, H)  BY <1>7, <2>2, FitsThen
  <2> QED  BY <1>9, <2>3, FitsWeaker
<1> HIDE DEF B
<1>11. Fits(B \o ((Z \o M) \o E), Machine, Machine)
  BY <1>8, <1>10, FitsThen
<1>12. B \o ((Z \o M) \o E) = B \o Z \o M \o E
  <2>1. B \in Seq(AnyInstruction)  BY <1>10, FitsIsCode
  <2>2. Z \o M \in Seq(AnyInstruction)  BY <1>8
  <2>3. (B \o Z) \o M = B \o (Z \o M)  BY <1>8, <2>1, Associative
  <2>4. (B \o (Z \o M)) \o E = B \o ((Z \o M) \o E)  BY <1>8, <2>1, <2>2, Associative
  <2> QED  BY <2>3, <2>4
<1> QED  BY <1>1, <1>11, <1>12 DEF B

LEMMA JumpKeeps ==
  ASSUME NEW P, NEW to \in Int
  PROVE  /\ Jump(to) \in AnyInstruction /\ Jump(to).to = to
         /\ Keeps(Jump(to), P, {}, P)
<1> DEFINE i == Jump(to)
<1>1. i \in AnyInstruction
  BY DEF Jump, Instruction, AnyInstruction, Ops
<1>2. i.op = "jump" /\ i.to = to
  BY DEF Jump, Instruction
<1> HIDE DEF i
<1>3. Keeps(i, P, {}, P)
  BY <1>2 DEF Keeps, Takes, MemoryOps, CheckOps
<1> QED  BY <1>1, <1>2, <1>3 DEF i

\* The cells of four strides are on the tape, or the scan goes on one by one.
LEMMA AdvanceOutKeeps ==
  ASSUME NEW delta \in Nat, NEW to \in Int
  PROVE  /\ IfAdvanceOut(delta, to) \in AnyInstruction /\ IfAdvanceOut(delta, to).to = to
         /\ Keeps(IfAdvanceOut(delta, to), Found(0), Scanning(0 .. delta), Scanning({}))
<1> DEFINE i == IfAdvanceOut(delta, to)
<1>1. i \in AnyInstruction
  BY DEF IfAdvanceOut, Instruction, AnyInstruction, Ops
<1>2. i.op = "advance_out" /\ i.off = delta /\ i.to = to
  BY DEF IfAdvanceOut, Instruction
<1> HIDE DEF i
<1>3. ASSUME NEW m \in Found(0)
      PROVE  /\ Misled(m, ~OnTape(m.x8 + delta)) \in Scanning(0 .. delta)
             /\ Misled(m, OnTape(m.x8 + delta)) \in Scanning({})
  <2> DEFINE w == OnTape(m.x8 + delta)
             n == Misled(m, ~w)
             r == Misled(m, w)
  <2>1. m \in Machine /\ m.x8 \in Int /\ m.x10 /\ m.x8 + 0 \in Index
    BY FoundFields
  <2>2. w \in BOOLEAN /\ (~w) \in BOOLEAN
    BY DEF OnTape
  <2>3. n \in Machine /\ r \in Machine
    BY <2>1, <2>2, Changed
  <2>4. n.x8 = m.x8 /\ n.x10 = m.x10 /\ n.fooled = (m.fooled \/ ~w) /\ r.x10 = m.x10
    BY DEF Misled, State
  <2>5. ASSUME w PROVE \A d \in 0 .. delta : OnTape(m.x8 + d)
    BY <2>1, <2>5, TapeAssumption DEF Index, OnTape
  <2> HIDE DEF w, n, r
  <2>6. n \in Scanning(0 .. delta)
    BY <2>1, <2>3, <2>4, <2>5 DEF Scanning
  <2>7. r \in Scanning({})
    BY <2>1, <2>3, <2>4 DEF Scanning
  <2> QED  BY <2>6, <2>7 DEF n, r, w
<1>4. Keeps(i, Found(0), Scanning(0 .. delta), Scanning({}))
  BY <1>2, <1>3 DEF Keeps, Takes, MemoryOps, CheckOps
<1> QED  BY <1>1, <1>2, <1>4 DEF i

LEMMA ScanFourFits == Fits(ScanFour, Machine, Machine)
<1> DEFINE B == Scanning({})
           S == Scanning({0})
           C == Cursored({0})
           O == Found(0)
           F == Scanning(0 .. 12)
           G == Cursored(0 .. 12)
           N4 == Found(4)
           N8 == Found(8)
           N12 == Found(12)
           check == CheckBound(3)
           cur == Cursor(0)
           out == IfAdvanceOut(12, 9)
           z0 == IfZero("x15", 0, 17)
           z4 == IfZero("x15", 4, 9)
           z8 == IfZero("x15", 8, 9)
           z12 == IfZero("x15", 12, 9)
           a4 == AddX8(4)
           a8 == AddX8(8)
           a12 == AddX8(12)
           a16 == AddX8(16)
           j11 == Jump(-11)
           j13 == Jump(-13)
           j4 == Jump(4)
           j2 == Jump(2)
           c == ScanFour
           known == [j \in Int |->
                       IF j \in {1, 23} THEN Machine
                       ELSE IF j \in {2, 3, 14, 15, 16} THEN B
                       ELSE IF j \in {6, 18, 20, 22} THEN O
                       ELSE IF j \in {7, 9, 11, 13} THEN F
                       ELSE IF j \in {8, 10, 12} THEN G
                       ELSE IF j = 4 THEN S ELSE IF j = 5 THEN C
                       ELSE IF j = 17 THEN N4 ELSE IF j = 19 THEN N8
                       ELSE IF j = 21 THEN N12 ELSE {}]
<1>1. /\ B \subseteq Machine /\ S \subseteq Machine /\ C \subseteq Machine
      /\ O \subseteq Machine /\ F \subseteq Machine /\ G \subseteq Machine
      /\ N4 \subseteq Machine /\ N8 \subseteq Machine /\ N12 \subseteq Machine
      /\ O \subseteq B /\ F \subseteq B
  BY ScanStates
\* The instructions.
<1>2. /\ Load \in AnyInstruction /\ Keeps(Load, Machine, O, {})
      /\ LoadBound \in AnyInstruction /\ Keeps(LoadBound, B, B, {})
      /\ cur \in AnyInstruction /\ Keeps(cur, S, C, {}) /\ Keeps(cur, F, G, {})
  BY LoadType, ScanStarts, ScanLoadsBound, ScanCursors
<1>3. check \in AnyInstruction /\ Keeps(check, B, S, {})
  <2>1. 3 \in Int  OBVIOUS
  <2> QED  BY <2>1, ScanChecks
<1>4. z0 \in AnyInstruction /\ z0.to = 17 /\ Keeps(z0, C, S \intersect O, O)
  <2>1. 0 \in Int /\ 0 \in {0} /\ 17 \in Int  OBVIOUS
  <2> QED  BY <2>1, ScanTestKeeps
<1>5. z4 \in AnyInstruction /\ z4.to = 9 /\ Keeps(z4, G, F \intersect N4, N4)
  <2> DEFINE D == 0 .. 12
  <2>1. 4 \in Int /\ 4 \in D /\ 9 \in Int  OBVIOUS
  <2> HIDE DEF D
  <2>2. /\ IfZero("x15", 4, 9) \in AnyInstruction /\ IfZero("x15", 4, 9).to = 9
        /\ Keeps(IfZero("x15", 4, 9), Cursored(D), Scanning(D) \intersect Found(4), Found(4))
    BY <2>1, ScanTestKeeps
  <2> QED  BY <2>2 DEF D
<1>6. z8 \in AnyInstruction /\ z8.to = 9 /\ Keeps(z8, G, F \intersect N8, N8)
  <2> DEFINE D == 0 .. 12
  <2>1. 8 \in Int /\ 8 \in D /\ 9 \in Int  OBVIOUS
  <2> HIDE DEF D
  <2>2. /\ IfZero("x15", 8, 9) \in AnyInstruction /\ IfZero("x15", 8, 9).to = 9
        /\ Keeps(IfZero("x15", 8, 9), Cursored(D), Scanning(D) \intersect Found(8), Found(8))
    BY <2>1, ScanTestKeeps
  <2> QED  BY <2>2 DEF D
<1>7. z12 \in AnyInstruction /\ z12.to = 9 /\ Keeps(z12, G, F \intersect N12, N12)
  <2> DEFINE D == 0 .. 12
  <2>1. 12 \in Int /\ 12 \in D /\ 9 \in Int  OBVIOUS
  <2> HIDE DEF D
  <2>2. /\ IfZero("x15", 12, 9) \in AnyInstruction /\ IfZero("x15", 12, 9).to = 9
        /\ Keeps(IfZero("x15", 12, 9), Cursored(D), Scanning(D) \intersect Found(12), Found(12))
    BY <2>1, ScanTestKeeps
  <2> QED  BY <2>2 DEF D
<1>8. out \in AnyInstruction /\ out.to = 9 /\ Keeps(out, O, F, B)
  <2>1. 12 \in Nat /\ 9 \in Int  OBVIOUS
  <2> QED  BY <2>1, AdvanceOutKeeps
<1>9. /\ a4 \in AnyInstruction /\ Keeps(a4, B, B, {}) /\ Keeps(a4, N4, O, {})
      /\ a8 \in AnyInstruction /\ Keeps(a8, N8, O, {})
      /\ a12 \in AnyInstruction /\ Keeps(a12, N12, O, {})
      /\ a16 \in AnyInstruction /\ Keeps(a16, B, B, {})
  <2>1. 4 \in Int /\ 8 \in Int /\ 12 \in Int /\ 16 \in Int  OBVIOUS
  <2> QED  BY <2>1, ScanAdvances
<1>10. /\ j11 \in AnyInstruction /\ j11.to = -11 /\ Keeps(j11, B, {}, B)
       /\ j13 \in AnyInstruction /\ j13.to = -13 /\ Keeps(j13, B, {}, B)
  <2> DEFINE t == -11
             u == -13
  <2>1. t \in Int /\ u \in Int  OBVIOUS
  <2> HIDE DEF t, u, B
  <2>2. Jump(t) \in AnyInstruction /\ Jump(t).to = t /\ Keeps(Jump(t), B, {}, B)
    BY <2>1, JumpKeeps
  <2>3. Jump(u) \in AnyInstruction /\ Jump(u).to = u /\ Keeps(Jump(u), B, {}, B)
    BY <2>1, JumpKeeps
  <2> QED  BY <2>2, <2>3 DEF t, u
<1>11. /\ j4 \in AnyInstruction /\ j4.to = 4 /\ Keeps(j4, O, {}, O)
       /\ j2 \in AnyInstruction /\ j2.to = 2 /\ Keeps(j2, O, {}, O)
  <2>1. 4 \in Int /\ 2 \in Int  OBVIOUS
  <2> QED  BY <2>1, JumpKeeps
<1>12. StorePtr \in AnyInstruction /\ Keeps(StorePtr, O, Machine, {})
  <2>1. \A m \in O : m \in Machine /\ m.x8 \in Index
    <3> SUFFICES ASSUME NEW m \in O PROVE m \in Machine /\ m.x8 \in Index
      OBVIOUS
    <3>1. m \in Machine /\ m.x8 \in Int /\ m.x8 + 0 \in Index  BY FoundFields
    <3> QED  BY <3>1
  <2> QED  BY <2>1, StorePtrType, StorePtrKeeps
\* The code.
<1>13. c = <<Load, LoadBound, check, cur, z0, out, cur, z4, cur, z8, cur, z12, a16, j11, a4, j13,
             a4, j4, a8, j2, a12, StorePtr>>
  BY DEF ScanFour
<1> HIDE DEF B, S, C, O, F, G, N4, N8, N12
<1> HIDE DEF check, cur, out, z0, z4, z8, z12, a4, a8, a12, a16, j11, j13, j4, j2, c
<1>14. c \in Seq(AnyInstruction) /\ Len(c) = 22
  BY <1>2, <1>3, <1>4, <1>5, <1>6, <1>7, <1>8, <1>9, <1>10, <1>11, <1>12, <1>13
<1>15. /\ c[1] = Load /\ c[2] = LoadBound /\ c[3] = check /\ c[4] = cur /\ c[5] = z0 /\ c[6] = out
       /\ c[7] = cur /\ c[8] = z4 /\ c[9] = cur /\ c[10] = z8 /\ c[11] = cur /\ c[12] = z12
       /\ c[13] = a16 /\ c[14] = j11 /\ c[15] = a4 /\ c[16] = j13 /\ c[17] = a4 /\ c[18] = j4
       /\ c[19] = a8 /\ c[20] = j2 /\ c[21] = a12 /\ c[22] = StorePtr
  BY <1>13
<1>16. /\ known \in [Int -> SUBSET Machine]
       /\ known[1] = Machine /\ known[2] = B /\ known[3] = B /\ known[4] = S
       /\ known[5] = C /\ known[6] = O /\ known[7] = F /\ known[8] = G
       /\ known[9] = F /\ known[10] = G /\ known[11] = F /\ known[12] = G
       /\ known[13] = F /\ known[14] = B /\ known[15] = B /\ known[16] = B
       /\ known[17] = N4 /\ known[18] = O /\ known[19] = N8 /\ known[20] = O
       /\ known[21] = N12 /\ known[22] = O /\ known[23] = Machine
       /\ \A j \in Int : j \notin 1 .. 23 => known[j] = {}
  BY <1>1
<1> HIDE DEF known
<1> DEFINE Right(j) == Keeps(c[j], known[j], known[j + 1], known[j + c[j].to])
\* An instruction that goes on to the next one, and a jump.
<1>17. ASSUME NEW j \in Int, NEW x, c[j] = x, NEW P, known[j] \subseteq P,
              NEW Q, Q \subseteq known[j + 1], Keeps(x, P, Q, {})
       PROVE  Right(j)
  <2>1. {} \subseteq known[j + c[j].to]  OBVIOUS
  <2>2. Keeps(x, known[j], known[j + 1], known[j + c[j].to])
    BY <1>17, <2>1, KeepsMonotone
  <2> QED  BY <1>17, <2>2
<1>18. ASSUME NEW j \in Int, NEW x, c[j] = x, NEW P, known[j] \subseteq P,
              NEW Q, Q \subseteq known[j + 1], NEW to \in Int, x.to = to,
              NEW R, R \subseteq known[j + to], Keeps(x, P, Q, R)
       PROVE  Right(j)
  <2>1. Keeps(x, known[j], known[j + 1], known[j + to])
    BY <1>18, KeepsMonotone
  <2> QED  BY <1>18, <2>1
<1> HIDE DEF Right
<1>19. Right(1)
  <2>1. 1 + 1 = 2 /\ 1 \in Int
    OBVIOUS
  <2>2. known[1] \subseteq Machine /\ O \subseteq known[1 + 1]  BY <1>1, <1>16, <2>1
  <2> QED  BY <1>2, <1>15, <1>17, <2>1, <2>2
<1>20. Right(2)
  <2>1. 2 + 1 = 3 /\ 2 \in Int
    OBVIOUS
  <2>2. known[2] \subseteq B /\ B \subseteq known[2 + 1]  BY <1>1, <1>16, <2>1
  <2> QED  BY <1>2, <1>15, <1>17, <2>1, <2>2
<1>21. Right(3)
  <2>1. 3 + 1 = 4 /\ 3 \in Int
    OBVIOUS
  <2>2. known[3] \subseteq B /\ S \subseteq known[3 + 1]  BY <1>1, <1>16, <2>1
  <2> QED  BY <1>3, <1>15, <1>17, <2>1, <2>2
<1>22. Right(4)
  <2>1. 4 + 1 = 5 /\ 4 \in Int
    OBVIOUS
  <2>2. known[4] \subseteq S /\ C \subseteq known[4 + 1]  BY <1>1, <1>16, <2>1
  <2> QED  BY <1>2, <1>15, <1>17, <2>1, <2>2
<1>23. Right(5)
  <2>1. 5 + 1 = 6 /\ 5 \in Int
    OBVIOUS
  <2>2. 17 \in Int /\ 5 + 17 = 22  OBVIOUS
  <2>3. known[5] \subseteq C /\ S \intersect O \subseteq known[5 + 1] /\ O \subseteq known[5 + 17]
    BY <1>16, <2>1, <2>2
  <2> QED  BY <1>4, <1>15, <1>18, <2>1, <2>2, <2>3
<1>24. Right(6)
  <2>1. 6 + 1 = 7 /\ 6 \in Int
    OBVIOUS
  <2>2. 9 \in Int /\ 6 + 9 = 15  OBVIOUS
  <2>3. known[6] \subseteq O /\ F \subseteq known[6 + 1] /\ B \subseteq known[6 + 9]
    BY <1>16, <2>1, <2>2
  <2> QED  BY <1>8, <1>15, <1>18, <2>1, <2>2, <2>3
<1>25. Right(7)
  <2>1. 7 + 1 = 8 /\ 7 \in Int
    OBVIOUS
  <2>2. known[7] \subseteq F /\ G \subseteq known[7 + 1]  BY <1>1, <1>16, <2>1
  <2> QED  BY <1>2, <1>15, <1>17, <2>1, <2>2
<1>26. Right(8)
  <2>1. 8 + 1 = 9 /\ 8 \in Int
    OBVIOUS
  <2>2. 9 \in Int /\ 8 + 9 = 17  OBVIOUS
  <2>3. known[8] \subseteq G /\ F \intersect N4 \subseteq known[8 + 1] /\ N4 \subseteq known[8 + 9]
    BY <1>16, <2>1, <2>2
  <2> QED  BY <1>5, <1>15, <1>18, <2>1, <2>2, <2>3
<1>27. Right(9)
  <2>1. 9 + 1 = 10 /\ 9 \in Int
    OBVIOUS
  <2>2. known[9] \subseteq F /\ G \subseteq known[9 + 1]  BY <1>1, <1>16, <2>1
  <2> QED  BY <1>2, <1>15, <1>17, <2>1, <2>2
<1>28. Right(10)
  <2>1. 10 + 1 = 11 /\ 10 \in Int
    OBVIOUS
  <2>2. 9 \in Int /\ 10 + 9 = 19  OBVIOUS
  <2>3. /\ known[10] \subseteq G
        /\ F \intersect N8 \subseteq known[10 + 1]
        /\ N8 \subseteq known[10 + 9]
    BY <1>16, <2>1, <2>2
  <2> QED  BY <1>6, <1>15, <1>18, <2>1, <2>2, <2>3
<1>29. Right(11)
  <2>1. 11 + 1 = 12 /\ 11 \in Int
    OBVIOUS
  <2>2. known[11] \subseteq F /\ G \subseteq known[11 + 1]  BY <1>1, <1>16, <2>1
  <2> QED  BY <1>2, <1>15, <1>17, <2>1, <2>2
<1>30. Right(12)
  <2>1. 12 + 1 = 13 /\ 12 \in Int
    OBVIOUS
  <2>2. 9 \in Int /\ 12 + 9 = 21  OBVIOUS
  <2>3. /\ known[12] \subseteq G
        /\ F \intersect N12 \subseteq known[12 + 1]
        /\ N12 \subseteq known[12 + 9]
    BY <1>16, <2>1, <2>2
  <2> QED  BY <1>7, <1>15, <1>18, <2>1, <2>2, <2>3
<1>31. Right(13)
  <2>1. 13 + 1 = 14 /\ 13 \in Int
    OBVIOUS
  <2>2. known[13] \subseteq B /\ B \subseteq known[13 + 1]  BY <1>1, <1>16, <2>1
  <2> QED  BY <1>9, <1>15, <1>17, <2>1, <2>2
<1>32. Right(14)
  <2>1. 14 + 1 = 15 /\ 14 \in Int
    OBVIOUS
  <2> DEFINE t == -11
  <2>2. t \in Int /\ 14 + t = 3  OBVIOUS
  <2>3. j11.to = t  BY <1>10
  <2> HIDE DEF t
  <2>4. known[14] \subseteq B /\ {} \subseteq known[14 + 1] /\ B \subseteq known[14 + t]
    BY <1>16, <2>1, <2>2
  <2> QED  BY <1>10, <1>15, <1>18, <2>1, <2>2, <2>3, <2>4
<1>33. Right(15)
  <2>1. 15 + 1 = 16 /\ 15 \in Int
    OBVIOUS
  <2>2. known[15] \subseteq B /\ B \subseteq known[15 + 1]  BY <1>1, <1>16, <2>1
  <2> QED  BY <1>9, <1>15, <1>17, <2>1, <2>2
<1>34. Right(16)
  <2>1. 16 + 1 = 17 /\ 16 \in Int
    OBVIOUS
  <2> DEFINE t == -13
  <2>2. t \in Int /\ 16 + t = 3  OBVIOUS
  <2>3. j13.to = t  BY <1>10
  <2> HIDE DEF t
  <2>4. known[16] \subseteq B /\ {} \subseteq known[16 + 1] /\ B \subseteq known[16 + t]
    BY <1>16, <2>1, <2>2
  <2> QED  BY <1>10, <1>15, <1>18, <2>1, <2>2, <2>3, <2>4
<1>35. Right(17)
  <2>1. 17 + 1 = 18 /\ 17 \in Int
    OBVIOUS
  <2>2. known[17] \subseteq N4 /\ O \subseteq known[17 + 1]  BY <1>1, <1>16, <2>1
  <2> QED  BY <1>9, <1>15, <1>17, <2>1, <2>2
<1>36. Right(18)
  <2>1. 18 + 1 = 19 /\ 18 \in Int
    OBVIOUS
  <2>2. 4 \in Int /\ 18 + 4 = 22  OBVIOUS
  <2>3. known[18] \subseteq O /\ {} \subseteq known[18 + 1] /\ O \subseteq known[18 + 4]
    BY <1>16, <2>1, <2>2
  <2> QED  BY <1>11, <1>15, <1>18, <2>1, <2>2, <2>3
<1>37. Right(19)
  <2>1. 19 + 1 = 20 /\ 19 \in Int
    OBVIOUS
  <2>2. known[19] \subseteq N8 /\ O \subseteq known[19 + 1]  BY <1>1, <1>16, <2>1
  <2> QED  BY <1>9, <1>15, <1>17, <2>1, <2>2
<1>38. Right(20)
  <2>1. 20 + 1 = 21 /\ 20 \in Int
    OBVIOUS
  <2>2. 2 \in Int /\ 20 + 2 = 22  OBVIOUS
  <2>3. known[20] \subseteq O /\ {} \subseteq known[20 + 1] /\ O \subseteq known[20 + 2]
    BY <1>16, <2>1, <2>2
  <2> QED  BY <1>11, <1>15, <1>18, <2>1, <2>2, <2>3
<1>39. Right(21)
  <2>1. 21 + 1 = 22 /\ 21 \in Int
    OBVIOUS
  <2>2. known[21] \subseteq N12 /\ O \subseteq known[21 + 1]  BY <1>1, <1>16, <2>1
  <2> QED  BY <1>9, <1>15, <1>17, <2>1, <2>2
<1>40. Right(22)
  <2>1. 22 + 1 = 23 /\ 22 \in Int
    OBVIOUS
  <2>2. known[22] \subseteq O /\ Machine \subseteq known[22 + 1]  BY <1>1, <1>16, <2>1
  <2> QED  BY <1>12, <1>15, <1>17, <2>1, <2>2
<1>41. ASSUME NEW j \in 1 .. 22 PROVE Right(j)
  <2>1. j \in 1 .. 6 \/ j \in 7 .. 12 \/ j \in 13 .. 18 \/ j \in 19 .. 22  OBVIOUS
  <2>2. CASE j \in 1 .. 6
    <3>1. j = 1 \/ j = 2 \/ j = 3 \/ j = 4 \/ j = 5 \/ j = 6  BY <2>2
    <3> QED  BY <3>1, <1>19, <1>20, <1>21, <1>22, <1>23, <1>24
  <2>3. CASE j \in 7 .. 12
    <3>1. j = 7 \/ j = 8 \/ j = 9 \/ j = 10 \/ j = 11 \/ j = 12  BY <2>3
    <3> QED  BY <3>1, <1>25, <1>26, <1>27, <1>28, <1>29, <1>30
  <2>4. CASE j \in 13 .. 18
    <3>1. j = 13 \/ j = 14 \/ j = 15 \/ j = 16 \/ j = 17 \/ j = 18  BY <2>4
    <3> QED  BY <3>1, <1>31, <1>32, <1>33, <1>34, <1>35, <1>36
  <2>5. CASE j \in 19 .. 22
    <3>1. j = 19 \/ j = 20 \/ j = 21 \/ j = 22  BY <2>5
    <3> QED  BY <3>1, <1>37, <1>38, <1>39, <1>40
  <2> QED  BY <2>1, <2>2, <2>3, <2>4, <2>5
<1>42. Valid(c, known)
  <2>1. \A j \in 1 .. Len(c) : Keeps(c[j], known[j], known[j + 1], known[j + c[j].to])
    BY <1>14, <1>41 DEF Right
  <2>2. Len(c) + 1 = 23  BY <1>14
  <2> QED  BY <1>14, <1>16, <2>1, <2>2 DEF Valid, Code!Valid
<1>43. Machine \subseteq known[1] /\ known[Len(c) + 1] \subseteq Machine
  BY <1>14, <1>16
<1> QED  BY <1>14, <1>42, <1>43 DEF Valid, Fits, Code!Fits, c

LEMMA ScanCodeFits ==
  ASSUME NEW step \in Int, NEW off \in Int
  PROVE  Fits(ScanCode(step, off), Machine, Machine)
<1>1. CASE step = 4 /\ off = 0
  BY <1>1, ScanFourFits DEF ScanCode
<1>2. CASE ~(step = 4 /\ off = 0)
  BY <1>2, ScanFits
<1> QED  BY <1>1, <1>2
-----------------------------------------------------------------------------
(* Loops and ifs.                                                          *)

\* Where the test of the cell at off is about to branch.
Tested(off) == Known(TRUE, {0}, IF off = 0 THEN Int ELSE {off}, {off}, AnyX12, AnyW0, {})

LEMMA TestCellFits ==
  ASSUME NEW scope, ~scope.active, NEW off \in Int
  PROVE  Fits(TestCell(off, scope), Machine, Tested(off))
<1>1. CASE off = 0
  <2>1. TestCell(off, scope) = <<Load>>
    BY <1>1 DEF TestCell
  <2> DEFINE P == Known(FALSE, Int, Int, {0}, AnyX12, AnyW0, {})
             Q == Known(TRUE, {0}, Int, {0}, AnyX12, AnyW0, {})
  <2>2. Fits(<<Load>>, P, Q)
    BY LoadFits
  <2>3. Machine \subseteq P
    BY KnownAll
  <2>4. Q = Tested(off)
    BY <1>1 DEF Tested
  <2>5. Q \subseteq Q
    OBVIOUS
  <2> HIDE DEF P, Q
  <2> QED  BY <2>1, <2>2, <2>3, <2>4, <2>5, FitsWeaker
<1>2. CASE off # 0
  <2> DEFINE g == RangeGuard(scope, off, off, 1, 1)
             t == <<Load, Cursor(off)>>
  <2>1. TestCell(off, scope) = g \o t
    BY <1>2 DEF TestCell
  <2>2. Fits(g, Machine, Guarded({off}))
    <3>1. 1 \in 1 .. 9  OBVIOUS
    <3> QED  BY <3>1, GuardsFit
  <2>3. Fits(t, Guarded({off}), Tested(off))
    <3> DEFINE O == {off}
    <3>1. Fits(t, Known(FALSE, Int, Int, O, AnyX12, AnyW0, {}),
               Known(TRUE, {0}, {off}, O, AnyX12, AnyW0, {}))
      BY LoadCursorFits
    <3> QED  BY <1>2, <3>1 DEF Guarded, Tested
  <2> HIDE DEF g, t
  <2> QED  BY <2>1, <2>2, <2>3, FitsThen
<1> QED  BY <1>1, <1>2

LEMMA TestedFacts ==
  ASSUME NEW off \in Int
  PROVE  /\ Tested(off) \subseteq Machine
         /\ Nonzero(off) \subseteq Machine
         /\ TestBase(off) \in Bases
         /\ \A i : i.base = TestBase(off) /\ i.off = 0 =>
                     Hits(i, off, TRUE, {0}, IF off = 0 THEN Int ELSE {off})
<1>1. Tested(off) \subseteq Machine /\ Nonzero(off) \subseteq Machine
  BY KnownMachine DEF Tested, Nonzero
<1>2. TestBase(off) \in Bases
  BY DEF TestBase, Bases
<1>3. ASSUME NEW i, i.base = TestBase(off), i.off = 0
      PROVE  Hits(i, off, TRUE, {0}, IF off = 0 THEN Int ELSE {off})
  <2>1. CASE off = 0
    BY <1>3, <2>1 DEF TestBase, Hits
  <2>2. CASE off # 0
    BY <1>3, <2>2 DEF TestBase, Hits
  <2> QED  BY <2>1, <2>2
<1> QED  BY <1>1, <1>2, <1>3

\* A test branches over the body, or goes on with a cell that is not 0.
LEMMA TestsKeep ==
  ASSUME NEW off \in Int, NEW i \in AnyInstruction, i.base = TestBase(off), i.off = 0
  PROVE  /\ i.op = "jz" => Keeps(i, Tested(off), Nonzero(off), Machine)
         /\ i.op = "jnz" => Keeps(i, Tested(off), Machine, Machine)
<1> DEFINE C == IF off = 0 THEN Int ELSE {off}
           O == {off}
           Q == Known(TRUE, {0}, C, O, AnyX12, AnyW0, {off})
<1>1. off \in O /\ Hits(i, off, TRUE, {0}, C)
  BY TestedFacts
<1>2. Q \subseteq Nonzero(off)
  <2>1. {0} \subseteq Int /\ C \subseteq Int
    OBVIOUS
  <2> HIDE DEF C
  <2>2. Q \subseteq Known(FALSE, Int, Int, O, AnyX12, AnyW0, {off})
    BY <2>1 DEF Known
  <2> QED  BY <2>2 DEF Nonzero
<1> HIDE DEF C, O
<1>3. /\ i.op = "jz" => Keeps(i, Known(TRUE, {0}, C, O, AnyX12, AnyW0, {}), Q, Machine)
      /\ i.op = "jnz" => Keeps(i, Known(TRUE, {0}, C, O, AnyX12, AnyW0, {}), Machine, Machine)
  BY <1>1, BranchesKeep
<1>4. Tested(off) = Known(TRUE, {0}, C, O, AnyX12, AnyW0, {})
  BY DEF Tested, C, O
<1>5. Tested(off) \subseteq Tested(off) /\ Machine \subseteq Machine
  OBVIOUS
<1> HIDE DEF Q
<1>6. ASSUME i.op = "jz" PROVE Keeps(i, Tested(off), Nonzero(off), Machine)
  <2>1. Keeps(i, Tested(off), Q, Machine)  BY <1>3, <1>4, <1>6
  <2> QED  BY <1>2, <1>5, <2>1, KeepsMonotone
<1> QED  BY <1>3, <1>4, <1>6

\* The branches of a loop, and that of an if.
LEMMA TestTypes ==
  ASSUME NEW off \in Int, NEW to \in Int
  PROVE  /\ /\ IfZero(TestBase(off), 0, to) \in AnyInstruction
            /\ IfZero(TestBase(off), 0, to).to = to
            /\ Keeps(IfZero(TestBase(off), 0, to), Tested(off), Nonzero(off), Machine)
         /\ /\ IfNonzero(TestBase(off), 0, to) \in AnyInstruction
            /\ IfNonzero(TestBase(off), 0, to).to = to
            /\ Keeps(IfNonzero(TestBase(off), 0, to), Tested(off), Machine, Machine)
         /\ /\ IfZeroUnset(to) \in AnyInstruction /\ IfZeroUnset(to).to = to
            /\ off = 0 => Keeps(IfZeroUnset(to), Tested(off), Nonzero(off), Machine)
<1> DEFINE base == TestBase(off)
           i == IfZero(base, 0, to)
           k == IfNonzero(base, 0, to)
           u == IfZeroUnset(to)
<1>1. base \in Bases /\ 0 \in Int
  <2>1. TestBase(off) \in Bases  BY TestedFacts
  <2> QED  BY <2>1
<1> HIDE DEF base
<1>2. /\ IsAccess(i, "jz", base, 0, 0) /\ i.to = to
      /\ IsAccess(k, "jnz", base, 0, 0) /\ k.to = to
      /\ IsAccess(u, "jz", "x10", 0, 1) /\ u.to = to
  <2>1. /\ IsAccess(IfZero(base, 0, to), "jz", base, 0, 0) /\ IfZero(base, 0, to).to = to
        /\ IsAccess(IfNonzero(base, 0, to), "jnz", base, 0, 0)
        /\ IfNonzero(base, 0, to).to = to
        /\ IsAccess(IfZeroUnset(to), "jz", "x10", 0, 1) /\ IfZeroUnset(to).to = to
    BY <1>1, BranchTypes
  <2> QED  BY <2>1
<1>3. /\ i \in AnyInstruction /\ i.op = "jz" /\ i.base = TestBase(off) /\ i.off = 0
      /\ k \in AnyInstruction /\ k.op = "jnz" /\ k.base = TestBase(off) /\ k.off = 0
      /\ u \in AnyInstruction /\ u.op = "jz" /\ u.base = "x10" /\ u.off = 0
  BY <1>2 DEF IsAccess, base
<1> HIDE DEF i, k, u
<1>4. Keeps(i, Tested(off), Nonzero(off), Machine)
  BY <1>3, TestsKeep
<1>5. Keeps(k, Tested(off), Machine, Machine)
  BY <1>3, TestsKeep
<1>6. ASSUME off = 0 PROVE Keeps(u, Tested(off), Nonzero(off), Machine)
  <2>1. u.base = TestBase(off)  BY <1>3, <1>6 DEF TestBase
  <2> QED  BY <1>3, <2>1, TestsKeep
<1> QED  BY <1>2, <1>3, <1>4, <1>5, <1>6 DEF i, k, u, base

LEMMA LoopFits ==
  ASSUME NEW scope, ~scope.active, NEW off \in Int, NEW body, Fits(body, Machine, Machine)
  PROVE  Fits(LoopCode(off, scope, body), Machine, Machine)
<1> DEFINE t == TestCell(off, scope)
           R == Tested(off)
           out  == Len(t) + Len(body) + 2
           back == -(Len(t) + Len(body) + Len(t) + 1)
           i == IfZero(TestBase(off), 0, out)
           k == IfNonzero(TestBase(off), 0, back)
<1>1. Fits(t, Machine, R) /\ R \subseteq Machine
  BY TestCellFits, TestedFacts
<1>2. t \in Seq(AnyInstruction) /\ body \in Seq(AnyInstruction)
  BY <1>1, FitsIsCode
<1> HIDE DEF t
<1>3. out \in Int /\ back \in Int /\ Len(t \o body) = Len(t) + Len(body)
  BY <1>2
<1>4. LoopCode(off, scope, body) = ((t \o <<i>>) \o body) \o t \o <<k>>
  BY <1>3 DEF LoopCode, t
<1> HIDE DEF out, back
<1>5. i \in AnyInstruction /\ i.to = out /\ Keeps(i, R, Machine, Machine)
  <2>1. i \in AnyInstruction /\ i.to = out /\ Keeps(i, R, Nonzero(off), Machine)
    BY <1>3, TestTypes
  <2>2. R \subseteq R /\ Machine \subseteq Machine /\ Nonzero(off) \subseteq Machine
    BY TestedFacts
  <2> HIDE DEF i, R
  <2> QED  BY <2>1, <2>2, KeepsMonotone
<1>6. k \in AnyInstruction /\ k.to = back /\ Keeps(k, R, Machine, Machine)
  BY <1>3, TestTypes
<1> HIDE DEF i, k, R
<1>7. Machine \subseteq Machine  OBVIOUS
<1>8. Fits(((t \o <<i>>) \o body) \o t \o <<k>>, Machine, Machine)
  BY <1>1, <1>5, <1>6, <1>7, FitsLoop DEF out, back
<1> QED  BY <1>4, <1>8

\* The body of an if is entered with a nonzero cell.
LEMMA IfFits ==
  ASSUME NEW scope, ~scope.active, NEW off \in Int, NEW body, Fits(body, Nonzero(off), Machine)
  PROVE  Fits(IfCode(off, scope, body), Machine, Machine)
<1> DEFINE t == TestCell(off, scope)
           R == Tested(off)
           out == Len(body) + 1
           i == IF off = 0 THEN IfZeroUnset(out) ELSE IfZero("x15", 0, out)
<1>1. Fits(t, Machine, R) /\ R \subseteq Machine
  BY TestCellFits, TestedFacts
<1>2. t \in Seq(AnyInstruction) /\ body \in Seq(AnyInstruction)
  BY <1>1, FitsIsCode
<1>3. IfCode(off, scope, body) = (t \o <<i>>) \o body
  BY DEF IfCode
<1>4. out \in Int
  BY <1>2
<1> HIDE DEF t
<1>5. i \in AnyInstruction /\ i.to = Len(body) + 1 /\ Keeps(i, R, Nonzero(off), Machine)
  <2> HIDE DEF out
  <2>1. i \in AnyInstruction /\ i.to = out /\ Keeps(i, R, Nonzero(off), Machine)
    BY <1>4, TestTypes DEF TestBase
  <2> QED  BY <2>1 DEF out
<1> HIDE DEF i, R
<1>6. Machine \subseteq Machine  OBVIOUS
<1>7. Fits(<<i>> \o body, R, Machine)
  BY <1>1, <1>5, <1>6, FitsBehindJump
<1>8. Fits(t \o (<<i>> \o body), Machine, Machine)
  BY <1>1, <1>7, FitsThen
<1>9. t \o (<<i>> \o body) = (t \o <<i>>) \o body
  <2>1. <<i>> \in Seq(AnyInstruction)  BY <1>5
  <2> QED  BY <1>2, <2>1, Associative
<1> QED  BY <1>3, <1>8, <1>9

LEMMA LoopIsCode ==
  ASSUME NEW scope, ~scope.active, NEW off \in Int, NEW body \in Seq(AnyInstruction)
  PROVE  LoopCode(off, scope, body) \in Seq(AnyInstruction)
<1> DEFINE t == TestCell(off, scope)
           out  == Len(t \o body) + 2
           back == -(Len(t \o body) + Len(t) + 1)
           i == IfZero(TestBase(off), 0, out)
           k == IfNonzero(TestBase(off), 0, back)
<1>1. t \in Seq(AnyInstruction)
  BY TestCellFits, FitsIsCode
<1>2. LoopCode(off, scope, body) = t \o <<i>> \o body \o t \o <<k>>
  BY DEF LoopCode
<1> HIDE DEF t
<1>3. out \in Int /\ back \in Int
  BY <1>1
<1> HIDE DEF out, back
<1>4. i \in AnyInstruction /\ k \in AnyInstruction
  BY <1>3, TestTypes
<1> HIDE DEF i, k
<1>5. t \o <<i>> \o body \o t \o <<k>> \in Seq(AnyInstruction)
  BY <1>1, <1>4
<1> QED  BY <1>2, <1>5

LEMMA IfIsCode ==
  ASSUME NEW scope, ~scope.active, NEW off \in Int, NEW body \in Seq(AnyInstruction)
  PROVE  IfCode(off, scope, body) \in Seq(AnyInstruction)
<1> DEFINE t == TestCell(off, scope)
           out == Len(body) + 1
           i == IF off = 0 THEN IfZeroUnset(out) ELSE IfZero("x15", 0, out)
<1>1. t \in Seq(AnyInstruction)
  BY TestCellFits, FitsIsCode
<1>2. IfCode(off, scope, body) = t \o <<i>> \o body
  BY DEF IfCode
<1>3. out \in Int
  OBVIOUS
<1> HIDE DEF t, out
<1>4. i \in AnyInstruction
  BY <1>3, TestTypes DEF TestBase
<1> HIDE DEF i
<1>5. t \o <<i>> \o body \in Seq(AnyInstruction)
  BY <1>1, <1>4
<1> QED  BY <1>2, <1>5

\* An if with a multiply tail has a loop and a run of simple nodes for its body.
LEMMA TailParts ==
  ASSUME NEW n \in Node, HasMultiplyTail(n)
  PROVE  /\ n.body[1] \in Node
         /\ EffectsOf(n.body, 2, 0) \in Seq(Effects(Int)) /\ EffectsOf(n.body, 2, 0) # <<>>
<1> DEFINE body == n.body
<1>1. /\ Len(body) >= 2 /\ RunEnd(body, 2) = Len(body) + 1 /\ EffectsOf(body, 2, 0) # <<>>
  BY DEF HasMultiplyTail
<1>2. body \in Seq(Node)
  BY NodeAssumption
<1> HIDE DEF body
<1>3. body[1] \in Node /\ 2 \in 1 .. Len(body) /\ 0 \in Int /\ Len(body) + 1 # 2
  BY <1>1, <1>2
<1>4. Code!RunEnd(body, 2) # 2
  BY <1>1, <1>3, SamePlan
<1>5. Code!EffectsOf(body, 2, 0) \in Seq(Code!Effects(Int))
  BY <1>2, <1>3, <1>4, CodeAssumptions, Code!EffectsType
<1>6. EffectsOf(body, 2, 0) \in Seq(Effects(Int))
  BY <1>5, SamePlan DEF Effects, Code!Effects, Cell, Code!Cell
<1> QED  BY <1>1, <1>3, <1>6 DEF body

LEMMA BoundedUnion ==
  ASSUME NEW S, Bounded(S), NEW T, Bounded(T)
  PROVE  Bounded(S \union T)
<1>1. /\ S \subseteq Int /\ S # {} /\ T \subseteq Int
  BY DEF Bounded
<1>2. PICK b \in Nat : \A d \in S : -b <= d /\ d <= b
  BY DEF Bounded
<1>3. PICK c \in Nat : \A d \in T : -c <= d /\ d <= c
  BY DEF Bounded
<1>4. PICK a \in Nat : a = IF b > c THEN b ELSE c
  OBVIOUS
<1>5. \A d \in S \union T : -a <= d /\ d <= a
  <2> SUFFICES ASSUME NEW d \in S \union T PROVE -a <= d /\ d <= a
    OBVIOUS
  <2>1. d \in Int  BY <1>1
  <2>2. (-b <= d /\ d <= b) \/ (-c <= d /\ d <= c)  BY <1>2, <1>3
  <2> QED  BY <1>4, <2>1, <2>2
<1>6. S \union T \subseteq Int /\ S \union T # {}
  BY <1>1
<1> QED  BY <1>5, <1>6 DEF Bounded

\* The cells of the tail's loop, which its one guard covers with those of the run.
NearTail(first) == IF first.terms = <<>> THEN {0} ELSE TermOffsets(first)

LEMMA NearTailBounded ==
  ASSUME NEW first \in Node
  PROVE  /\ Bounded(NearTail(first))
         /\ \A d \in TermOffsets(first) : d \in NearTail(first) \union {0}
<1>1. CASE first.terms = <<>>
  <2>1. NearTail(first) = {0} /\ TermOffsets(first) = {}
    BY <1>1 DEF NearTail, TermOffsets
  <2>2. {0} \subseteq Int /\ {0} # {} /\ \A d \in {0} : -0 <= d /\ d <= 0
    OBVIOUS
  <2>3. 0 \in Nat
    OBVIOUS
  <2>4. Bounded({0})
    BY <2>2, <2>3 DEF Bounded
  <2> QED  BY <2>1, <2>4
<1>2. CASE first.terms # <<>>
  <2>1. NearTail(first) = TermOffsets(first)
    BY <1>2 DEF NearTail
  <2>2. TermOffsets(first) # {}
    <3>1. first.terms \in Seq(Terms)  BY NodeAssumption
    <3>2. 1 \in DOMAIN first.terms  BY <1>2, <3>1
    <3> QED  BY <3>2 DEF TermOffsets
  <2> QED  BY <2>1, <2>2, TermOffsetsBounded DEF Bounded
<1> QED  BY <1>1, <1>2

\* One guard, one load and one cursor for a loop and the run behind it.
LEMMA TailFits ==
  ASSUME NEW scope, ~scope.active, NEW first \in Node,
         NEW effects \in Seq(Effects(Int)), effects # <<>>
  PROVE  Fits(GuardAll(scope, NearTail(first) \union {effects[k].off : k \in DOMAIN effects}, 4, 5)
                \o <<Load, Cursor(0), LoadCounter>> \o Products(first) \o RunAtCursor(effects),
              Nonzero(0), Machine)
<1> DEFINE E == {effects[k].off : k \in DOMAIN effects}
           S == NearTail(first) \union E
           Z == {0}
           Q == Z \union S
           guard == GuardAll(scope, S, 4, 5)
           load  == <<Load, Cursor(0)>>
           count == <<LoadCounter>>
           terms == Products(first)
           run   == RunAtCursor(effects)
           K1 == Known(FALSE, Int, Int, Q, AnyX12, AnyW0, Z)
           K2 == Known(TRUE, Z, Z, Q, AnyX12, AnyW0, Z)
           K3 == Known(TRUE, Z, Z, Q, Counts, AnyW0, {})
           K4 == AtCursor(0, Q)
<1>1. Bounded(E) /\ effects \in Seq(Effects(E))
  BY EffectOffsets
<1> HIDE DEF E
<1>2. Bounded(S)
  BY <1>1, NearTailBounded, BoundedUnion
<1>3. /\ Q \subseteq Int /\ 0 \in Q /\ 0 \in Int /\ E \subseteq Q
      /\ \A d \in TermOffsets(first) : d \in Q
  BY <1>2, NearTailBounded DEF Bounded
<1>4. effects \in Seq(Effects(Q))
  <2>1. Effects(E) \subseteq Effects(Q)
    <3> HIDE DEF Q
    <3> QED  BY <1>3 DEF Effects
  <2> HIDE DEF Q
  <2> QED  BY <1>1, <2>1
<1>5. Collapse(effects) \in Seq(Effects(Q))
  BY <1>4, CollapseType
<1> HIDE DEF S
<1>6. Fits(guard, Nonzero(0), K1)
  <2>1. 4 \in 1 .. 9 /\ 5 \in 1 .. 9 /\ 0 \in Int /\ Int \subseteq Int
    OBVIOUS
  <2>2. Nonzero(0) = Known(FALSE, Int, Int, Z, AnyX12, AnyW0, Z)
    BY DEF Nonzero
  <2> HIDE DEF Z
  <2>3. Fits(guard, Known(FALSE, Int, Int, Z, AnyX12, AnyW0, Z),
             Known(FALSE, Int, Int, Z \union S, AnyX12, AnyW0, Z))
    BY <1>2, <2>1, GuardAllFits
  <2> QED  BY <2>2, <2>3
<1> HIDE DEF Q
<1>7. Fits(load, K1, K2)
  BY <1>3, LoadCursorFits
<1>8. Fits(count, K2, K3)
  <2>1. 0 \in {0}  OBVIOUS
  <2> QED  BY <1>3, <2>1, LoadCounterFits
<1>9. Fits(terms, K3, K4)
  <2>1. \A d \in TermOffsets(first) : 0 + d \in Q
    <3>1. TermOffsets(first) \subseteq Int  BY TermOffsetsBounded
    <3>2. \A d \in TermOffsets(first) : 0 + d = d  BY <3>1
    <3> QED  BY <1>3, <3>2
  <2>2. Fits(terms, K3, K3)
    BY <1>3, <2>1, ProductsFit
  <2>3. K3 \subseteq K4
    <3>1. Counts \subseteq AnyX12  BY CellCountAssumption DEF Counts, AnyX12, Cell
    <3> QED  BY <3>1 DEF Known, AtCursor
  <2>4. K3 \subseteq K3
    OBVIOUS
  <2> HIDE DEF K3, K4, terms
  <2> QED  BY <2>2, <2>3, <2>4, FitsWeaker
<1>10. Fits(run, K4, Machine)
  <2>1. PICK c \in Int : Fits(run, K4, AtCursor(c, Q))
    BY <1>3, <1>5, AtCursorFits
  <2> HIDE DEF run, K4
  <2> QED  BY <2>1, FitsAnywhere DEF AtCursor
<1>11. <<Load, Cursor(0), LoadCounter>> = load \o count
  <2> DEFINE p == Load
             q == Cursor(0)
             r == LoadCounter
  <2>1. p \in AnyInstruction /\ q \in AnyInstruction /\ r \in AnyInstruction
    BY LoadType, LoadCounterType
  <2> HIDE DEF p, q, r
  <2>2. <<p, q, r>> = (<<p>> \o <<q>>) \o <<r>> /\ <<p, q>> = <<p>> \o <<q>>
    BY <2>1, Tuples
  <2> QED  BY <2>2 DEF p, q, r
<1> HIDE DEF guard, load, count, terms, run, K1, K2, K3, K4
<1>12. Fits(load \o count, K1, K3)
  BY <1>7, <1>8, FitsThen
<1>13. Fits(guard \o (load \o count), Nonzero(0), K3)
  BY <1>6, <1>12, FitsThen
<1>14. Fits((guard \o (load \o count)) \o terms, Nonzero(0), K4)
  BY <1>9, <1>13, FitsThen
<1>15. Fits(((guard \o (load \o count)) \o terms) \o run, Nonzero(0), Machine)
  BY <1>10, <1>14, FitsThen
<1> QED  BY <1>11, <1>15 DEF guard, terms, run, S, E

LEMMA TailIfFits ==
  ASSUME NEW scope, ~scope.active, NEW n \in Node, HasMultiplyTail(n)
  PROVE  Fits(TailIfCode(n, scope), Machine, Machine)
<1> DEFINE first   == n.body[1]
           effects == EffectsOf(n.body, 2, 0)
           tail    == GuardAll(scope, NearTail(first)
                                        \union {effects[k].off : k \in DOMAIN effects}, 4, 5)
                        \o <<Load, Cursor(0), LoadCounter>> \o Products(first)
                        \o RunAtCursor(effects)
           to      == Len(tail) + 1
           i       == IfZero("x10", 0, to)
<1>1. TailIfCode(n, scope) = <<Load, i>> \o tail
  BY Zenon DEF TailIfCode, NearTail
<1>2. first \in Node /\ effects \in Seq(Effects(Int)) /\ effects # <<>>
  BY TailParts
<1> HIDE DEF first, effects
<1>3. Fits(tail, Nonzero(0), Machine)
  BY <1>2, TailFits
<1>4. tail \in Seq(AnyInstruction)
  BY <1>3, FitsIsCode
<1> HIDE DEF tail
<1>5. to \in Int /\ 0 \in Int
  BY <1>4
<1>6. i \in AnyInstruction /\ i.to = Len(tail) + 1 /\ Keeps(i, Tested(0), Nonzero(0), Machine)
  <2> HIDE DEF to
  <2>1. TestBase(0) = "x10"  BY DEF TestBase
  <2>2. i \in AnyInstruction /\ i.to = to /\ Keeps(i, Tested(0), Nonzero(0), Machine)
    BY <1>5, <2>1, TestTypes
  <2> QED  BY <2>2 DEF to
<1> HIDE DEF i
<1>7. Tested(0) \subseteq Machine /\ Machine \subseteq Machine
  BY <1>5, TestedFacts
<1>8. Fits(<<i>> \o tail, Tested(0), Machine)
  BY <1>3, <1>6, <1>7, FitsBehindJump
<1>9. Fits(<<Load>>, Machine, Tested(0))
  <2>1. Fits(TestCell(0, scope), Machine, Tested(0))  BY <1>5, TestCellFits
  <2> QED  BY <2>1 DEF TestCell
<1>10. Fits(<<Load>> \o (<<i>> \o tail), Machine, Machine)
  BY <1>8, <1>9, FitsThen
<1>11. <<Load, i>> \o tail = <<Load>> \o (<<i>> \o tail)
  <2> DEFINE p == Load
  <2>1. p \in AnyInstruction  BY LoadType
  <2> HIDE DEF p
  <2>2. <<p, i>> = <<p>> \o <<i>>  BY <1>6, <2>1, Tuples
  <2>3. <<p>> \in Seq(AnyInstruction) /\ <<i>> \in Seq(AnyInstruction)  BY <1>6, <2>1
  <2>4. (<<p>> \o <<i>>) \o tail = <<p>> \o (<<i>> \o tail)  BY <1>4, <2>3, Associative
  <2> QED  BY <2>2, <2>4 DEF p
<1> QED  BY <1>1, <1>10, <1>11
-----------------------------------------------------------------------------
(* The programs that are compiled as they should be.                       *)

\* The guard scope an emitter finds in its fields is not active (run native_scope).
NoGuardScope == \A scope \in Scopes : ~scope.active

\* A NONNULL_MULTIPLY_LOOP is the first node of an if's body (BFLoops, and an
\* invariant of the optimiser), and none of a program.
NonnullBeginsIf ==
  /\ \A n \in Node : NonnullIsFirst(n)
  /\ \A program \in Programs : NoNonnull(program)

-----------------------------------------------------------------------------
(* The callbacks, and with them all that is emitted.                       *)

LEMMA NodesFit ==
  ASSUME NoGuardScope
  PROVE  Code!NodesFit
<1>1. \A delta \in Int : Code!Fits(<<Code!MovePtr(delta)>>, Machine, Machine)
  <2> TAKE delta \in Int
  <2>1. Code!MovePtr(delta) = MovePtr(delta)
    BY DEF Code!MovePtr, MovePtr, Code!Instruction, Instruction
  <2>2. Fits(<<MovePtr(delta)>>, Machine, Machine)
    BY MovePtrFits
  <2> QED  BY <2>1, <2>2 DEF Fits
<1>2. \A step \in Int, off \in Int : Code!Fits(ScanCode(step, off), Machine, Machine)
  BY ScanCodeFits DEF Fits
<1>3. ASSUME NEW scope \in Scopes
      PROVE  /\ \A effects \in Seq(Code!Effects(Int)) :
                  effects # <<>> => Code!Fits(RunCode(effects, scope), Machine, Machine)
             /\ \A off \in Int : /\ Code!Fits(InputCode(off, scope), Machine, Machine)
                                 /\ Code!Fits(OutputCode(off, scope), Machine, Machine)
             /\ \A n \in Node : Code!Fits(MultiZeroCode(n, scope), Machine, Machine)
             /\ \A n \in Node, off \in Int :
                  Code!Fits(MultiplyCode(n, off, scope),
                       IF n.kind = "NONNULL_MULTIPLY_LOOP" THEN Nonzero(off) ELSE Machine, Machine)
  <2>1. ~scope.active
    BY DEF NoGuardScope
  <2>2. \A effects \in Seq(Code!Effects(Int)) :
          effects # <<>> => Code!Fits(RunCode(effects, scope), Machine, Machine)
    BY <2>1, RunFits DEF Fits, Effects, Code!Effects, Cell, Code!Cell
  <2>3. \A off \in Int : /\ Code!Fits(InputCode(off, scope), Machine, Machine)
                         /\ Code!Fits(OutputCode(off, scope), Machine, Machine)
    BY <2>1, InputFits, OutputFits DEF Fits
  <2>4. \A n \in Node : Code!Fits(MultiZeroCode(n, scope), Machine, Machine)
    BY <2>1, MultiZeroFits DEF Fits
  <2>5. ASSUME NEW n \in Node, NEW off \in Int
        PROVE  Code!Fits(MultiplyCode(n, off, scope),
                 IF n.kind = "NONNULL_MULTIPLY_LOOP" THEN Nonzero(off) ELSE Machine, Machine)
    <3>1. /\ Fits(MultiplyCode(n, off, scope), Nonzero(off), Machine)
          /\ n.kind # "NONNULL_MULTIPLY_LOOP" => Fits(MultiplyCode(n, off, scope), Machine, Machine)
      BY <2>1, MultiplyFits
    <3> QED  BY <3>1 DEF Fits
  <2> QED  BY <2>2, <2>3, <2>4, <2>5
<1> QED  BY <1>1, <1>2, <1>3 DEF Code!NodesFit

LEMMA BodiesFit ==
  ASSUME NoGuardScope
  PROVE  Code!BodiesFit
<1>1. \A off \in Int : Nonzero(off) \subseteq Machine
  BY KnownMachine DEF Nonzero
<1>2. ASSUME NEW scope \in Scopes, NEW off \in Int
      PROVE  /\ \A body \in Seq(AnyInstruction) :
                  /\ LoopCode(off, scope, body) \in Seq(AnyInstruction)
                  /\ IfCode(off, scope, body) \in Seq(AnyInstruction)
             /\ \A body : Code!Fits(body, Machine, Machine) =>
                            Code!Fits(LoopCode(off, scope, body), Machine, Machine)
             /\ \A body : Code!Fits(body, Nonzero(off), Machine) =>
                            Code!Fits(IfCode(off, scope, body), Machine, Machine)
  <2>1. ~scope.active
    BY DEF NoGuardScope
  <2>2. \A body \in Seq(AnyInstruction) :
          /\ LoopCode(off, scope, body) \in Seq(AnyInstruction)
          /\ IfCode(off, scope, body) \in Seq(AnyInstruction)
    BY <2>1, LoopIsCode, IfIsCode
  <2>3. \A body : Code!Fits(body, Machine, Machine) =>
                   Code!Fits(LoopCode(off, scope, body), Machine, Machine)
    BY <2>1, LoopFits DEF Fits
  <2>4. \A body : Code!Fits(body, Nonzero(off), Machine) =>
                   Code!Fits(IfCode(off, scope, body), Machine, Machine)
    BY <2>1, IfFits DEF Fits
  <2> QED  BY <2>2, <2>3, <2>4
<1>3. ASSUME NEW scope \in Scopes, NEW n \in Node, Code!HasMultiplyTail(n)
      PROVE  Code!Fits(TailIfCode(n, scope), Machine, Machine)
  <2>1. ~scope.active /\ HasMultiplyTail(n)
    BY <1>3, SamePlan DEF NoGuardScope
  <2> QED  BY <2>1, TailIfFits DEF Fits
<1> QED  BY <1>1, <1>2, <1>3 DEF Code!BodiesFit

\* The driver BFEmitter_proofs is about is that of the backend.
LEMMA SameEmitted ==
  ASSUME NEW program, NEW scope
  PROVE  Emitter!Emitted(program, scope) = Code!Emitted(program, scope)
  BY Zenon DEF
       Emitter!Emitted, Code!Emitted, Emitter!Flushed, Code!Flushed,
       Emitter!EmitBlock, Code!EmitBlock, Emitter!Piece, Code!Piece,
       Emitter!Pieces, Code!Pieces, Emitter!EmitAt, Code!EmitAt,
       Emitter!EmitSimpleRun, Code!EmitSimpleRun, Emitter!EmitNode, Code!EmitNode,
       Emitter!Also, Code!Also, Emitter!CodeAtOffset, Code!CodeAtOffset,
       Emitter!EmitScan, Code!EmitScan, Emitter!EmitControl, Code!EmitControl,
       Emitter!ControlCode, Code!ControlCode, Emitter!BodyCode, Code!BodyCode,
       Emitter!Settled, Code!Settled, Emitter!ScansAtOffset, Code!ScansAtOffset,
       Emitter!When, Code!When, Emitter!MovePtr, Code!MovePtr,
       Emitter!Instruction, Code!Instruction,
       Emitter!HasMultiplyTail, Code!HasMultiplyTail,
       Emitter!ControlAtOffset, Code!ControlAtOffset,
       Emitter!OffsetSafeZeroDelta, Code!OffsetSafeZeroDelta,
       Emitter!IsSegmentNode, Code!IsSegmentNode, Emitter!ControlKinds, Code!ControlKinds,
       Emitter!PointerDelta, Code!PointerDelta, Emitter!FoldSeq, Code!FoldSeq,
       Emitter!FoldFunction, Code!FoldFunction,
       Emitter!FoldFunctionOnSet, Code!FoldFunctionOnSet,
       Emitter!MapThenFoldSet, Code!MapThenFoldSet,
       Emitter!FoldLeftDomain, Code!FoldLeftDomain, Emitter!FoldLeft, Code!FoldLeft,
       Emitter!Max, Code!Max, Emitter!IsSimple, Code!IsSimple,
       Emitter!Effect, Code!Effect, Emitter!EffectsOf, Code!EffectsOf,
       Emitter!Byte, Code!Byte, Emitter!RunEnd, Code!RunEnd, Emitter!Least, Code!Least

\* A program may be entered in every state, and left in every state.
LEMMA EmittedFits ==
  ASSUME NoGuardScope, NonnullBeginsIf, FinitelyNested,
         NEW program \in Programs, NEW scope \in Scopes
  PROVE  Fits(Emitter!Emitted(program, scope), Machine, Machine)
<1>1. Code!CallbacksFit
  BY NodesFit, BodiesFit DEF Code!CallbacksFit
<1>2. Code!IfsBeginWithNonnull
  BY DEF NonnullBeginsIf, Code!IfsBeginWithNonnull, NonnullIsFirst, Code!NonnullIsFirst
<1>3. program \in Seq(Node) /\ Code!NoNonnull(program)
  BY ProgramsAssumption DEF NonnullBeginsIf, NoNonnull, Code!NoNonnull
<1>4. Code!FinitelyNested
  BY DEF FinitelyNested, Code!FinitelyNested, Heights, Code!Heights
<1>5. Code!Fits(Code!Emitted(program, scope), Machine, Machine)
  BY <1>1, <1>2, <1>3, <1>4, CodeAssumptions, Code!EmittedFits
<1> QED  BY <1>5, SameEmitted DEF Fits

\* The epilogue, to which the error blocks jump, may be reached in every state.
LEMMA ProgramIsAnnotated ==
  ASSUME NoGuardScope, NonnullBeginsIf, FinitelyNested,
         NEW program \in Programs, NEW scope \in Scopes
  PROVE  \E known : Annotated(EmitProgram(program, scope), known)
<1> DEFINE e == Emitter!Emitted(program, scope)
<1>1. Fits(e, Machine, Machine)
  BY EmittedFits
<1>2. Epilogue \in AnyInstruction /\ Epilogue.op = "epilogue"
  BY DEF Epilogue, Instruction, AnyInstruction, Ops
<1>3. \A next, there : Keeps(Epilogue, Machine, next, there)
  BY <1>2 DEF Keeps, Takes, MemoryOps, CheckOps
<1>4. EmitProgram(program, scope) = e \o <<Epilogue>>
  BY DEF EmitProgram
<1> HIDE DEF e
<1>5. \E known : Code!Annotated(e \o <<Epilogue>>, known)
  BY <1>1, <1>2, <1>3, CodeAssumptions, Code!FittingIsAnnotated DEF Fits
<1> QED  BY <1>4, <1>5 DEF Annotated, Code!Annotated

\* The inductive invariant.
AnnotatedInv == \E known : Inv(known)

LEMMA InitInv ==
  ASSUME NoGuardScope, NonnullBeginsIf, FinitelyNested, Init
  PROVE  AnnotatedInv
<1>1. PICK program \in Programs, scope \in Scopes, stdin \in Inputs : Start(program, scope, stdin)
  BY DEF Init
<1>2. PICK known : Annotated(code, known)
  BY <1>1, ProgramIsAnnotated DEF Start
<1>3. Now \in Machine
  <2>1. 0 \in Index /\ 0 \in Cell
    BY TapeAssumption, CellCountAssumption DEF Index, Cell
  <2>2. tape \in [Index -> Cell] /\ pointer \in Index
    BY <1>1, <2>1 DEF Start
  <2>3. x8 = Junk /\ x15 = Junk /\ x12 = Junk /\ w0 = Junk
    BY <1>1 DEF Start
  <2>4. x10 \in BOOLEAN /\ fooled \in BOOLEAN
    BY <1>1 DEF Start
  <2>5. Junk \in Int /\ Junk \in {Junk, TapeSize} \union Cell /\ Junk \in {Junk} \union Cell
    BY JunkType
  <2> QED  BY <2>2, <2>3, <2>4, <2>5, StateType DEF Now
<1>4. pc = 0 /\ 0 \in 0 .. Len(code)
  BY <1>1, <1>2 DEF Start, Annotated
<1>5. input \in Seq(Cell) /\ result.status \in {"running", "done", "failed"}
  BY <1>1, InputsAssumption DEF Start
<1>6. Inv(known)
  BY <1>2, <1>3, <1>4, <1>5 DEF Inv, Live
<1> QED  BY <1>6 DEF AnnotatedInv

LEMMA NextKeepsAnnotatedInv == AnnotatedInv /\ [Next]_vars => AnnotatedInv'
<1> SUFFICES ASSUME AnnotatedInv, [Next]_vars PROVE AnnotatedInv'
  OBVIOUS
<1>1. PICK known : Inv(known)
  BY DEF AnnotatedInv
<1>2. Inv(known)'
  BY <1>1, NextKeepsInv
<1> QED  BY <1>2 DEF AnnotatedInv

LEMMA AnnotatedInvIsSafe == AnnotatedInv => TypeOK /\ AccessesAreSafe /\ CounterIsNonzero
  BY InvIsSafe DEF AnnotatedInv
-----------------------------------------------------------------------------
(***************************************************************************)
(* The theorems.  Their hypotheses are the disagreement between the code   *)
(* and its comments that run native_scope shows for the fields both        *)
(* emitters share, the shape of the programs the optimiser leaves, and     *)
(* that nodes are trees.  An if with a multiply tail needs none: this      *)
(* backend loads what it uses.                                             *)
(***************************************************************************)

\* Every variable keeps its range while generated code runs: the pointer stays on
\* the tape and cells stay bytes, and it is never left but through its epilogue
\* (bf_jit_emit_block_with_pending_offset_shared and the aarch64 callbacks), also
\* where a scan has compared with a register nothing has loaded.
THEOREM ArmTypeOK ==
  ASSUME NoGuardScope, NonnullBeginsIf, FinitelyNested
  PROVE  Spec => []TypeOK
<1>1. Init => AnnotatedInv  BY InitInv
<1>2. AnnotatedInv => TypeOK  BY AnnotatedInvIsSafe
<1> QED  BY <1>1, <1>2, NextKeepsAnnotatedInv, PTL DEF Spec

\* Memory safety of the aarch64 code of every program: each access is to the tape,
\* through whichever of the three ways of addressing it the distance calls for,
\* although x8 and the cursor are moved and loaded again between the accesses; as
\* long as no comparison of a scan has come out other than it should.
THEOREM ArmMemorySafe ==
  ASSUME NoGuardScope, NonnullBeginsIf, FinitelyNested
  PROVE  Spec => []AccessesAreSafe
<1>1. Init => AnnotatedInv  BY InitInv
<1>2. AnnotatedInv => AccessesAreSafe  BY AnnotatedInvIsSafe
<1> QED  BY <1>1, <1>2, NextKeepsAnnotatedInv, PTL DEF Spec

\* A multiply loop's terms are added for a counter that is not 0, although the far
\* guard between the test and the terms has used the counter's register for the
\* tape's size (bf_jit_emit_op_multiply_loop).
THEOREM ArmCounterIsNonzero ==
  ASSUME NoGuardScope, NonnullBeginsIf, FinitelyNested
  PROVE  Spec => []CounterIsNonzero
<1>1. Init => AnnotatedInv  BY InitInv
<1>2. AnnotatedInv => CounterIsNonzero  BY AnnotatedInvIsSafe
<1> QED  BY <1>1, <1>2, NextKeepsAnnotatedInv, PTL DEF Spec
===============================================================================
