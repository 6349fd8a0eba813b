--------------------------- MODULE BFNative_proofs ---------------------------
(***************************************************************************)
(* Proofs about the code generated for x86-64 (BFX86, BFNative): whatever  *)
(* program is compiled, every access of its code is to the tape, through a *)
(* register that holds the tape's address.                                 *)
(*                                                                         *)
(* The argument is an annotation of the code: at each instruction, the     *)
(* states the machine may be in when it gets there (known).  Executing     *)
(* never leaves the annotation; and each piece of code the generator emits *)
(* has one, from those of the pieces it is put together from.              *)
(***************************************************************************)
EXTENDS BFNative, BFLoops, BFFolds_proofs
-----------------------------------------------------------------------------
(* The states of the machine, and what an instruction does to one.         *)

Machine == [tape    : [Index -> Cell],
            pointer : Index,
            bases   : SUBSET {"rax", "rsi"},
            rcx     : {Junk} \union Nat,
            dl      : {Junk} \union Cell]

State(t, p, b, r, d) == [tape |-> t, pointer |-> p, bases |-> b, rcx |-> r, dl |-> d]

Now == State(tape, pointer, bases, rcx, dl)

CheckOps == {"below", "above", "add_ptr", "try_advance", "check_rcx", "check_back"}

Ops == CheckOps \union MemoryOps
         \union {"load", "jz_dl", "jump", "advance", "advance_out", "store_ptr", "call_read",
                 "epilogue"}

AnyInstruction == [op : Ops, base : {"", "rax", "rsi"}, off : Int, val : Int, to : Int]

Place(m, i) == m.rcx + i.off

(***************************************************************************)
(* The state m after one or the other has changed.                         *)
(***************************************************************************)
Without(m, base)   == State(m.tape, m.pointer, m.bases \ {base}, m.rcx, m.dl)
Loaded(m, base)    == State(m.tape, m.pointer, m.bases \union {base}, m.pointer, m.dl)
PutAt(m, k, value) == State([m.tape EXCEPT ![k] = value], m.pointer, m.bases, m.rcx, m.dl)
SetDl(m, value)    == State(m.tape, m.pointer, m.bases, m.rcx, value)
SetRcx(m, value)   == State(m.tape, m.pointer, m.bases, value, m.dl)
SetPtr(m, value)   == State(m.tape, value, m.bases, m.rcx, m.dl)
Called(m, byte)    == State(m.tape, m.pointer, {}, Junk, byte)

(***************************************************************************)
(* The instruction i may be executed in the state m, and leads from it to  *)
(* a state of next, at the next instruction, or of there, where it jumps;  *)
(* or else to an error block.                                              *)
(***************************************************************************)
TakesMemory(i, m, next, there) ==
  LET k    == Place(m, i)
      cell == m.tape[k]
  IN  /\ i.base \in m.bases /\ OnTape(k)
      /\ i.op = "add"        => PutAt(m, k, Byte(cell + i.val)) \in next
      /\ i.op = "store"      => PutAt(m, k, i.val) \in next
      /\ i.op = "store_dl"   => PutAt(m, k, m.dl) \in next
      /\ i.op = "load_dl"    => SetDl(m, cell) \in next
      /\ i.op = "term"       => /\ m.dl \notin {Junk, 0}
                                /\ PutAt(IF i.val \in {1, -1} THEN m ELSE Without(m, "rax"),
                                         k, Byte(cell + m.dl * i.val)) \in next
      /\ i.op = "jz"         => IF cell = 0 THEN m \in there ELSE m \in next
      /\ i.op = "jnz"        => IF cell # 0 THEN m \in there ELSE m \in next
      /\ i.op = "call_write" => Called(m, Junk) \in next

TakesCheck(i, m, next) ==
  /\ i.val \in 1 .. 9
  /\ i.op = "below" => (m.pointer >= -i.off => Without(m, "rax") \in next)
  /\ i.op = "above" => (m.pointer + i.off < TapeSize => Without(m, "rax") \in next)
  /\ i.op = "add_ptr" =>
       (OnTape(m.pointer + i.off) => SetPtr(Without(m, "rax"), m.pointer + i.off) \in next)
  /\ i.op = "try_advance" =>
       (OnTape(Place(m, i)) => SetRcx(Without(m, "rax"), Place(m, i)) \in next)
  /\ i.op = "check_rcx"  => (OnTape(m.rcx) => m \in next)
  /\ i.op = "check_back" => (m.rcx >= i.off => m \in next)

Takes(i, m, next, there) ==
  /\ i.op \in MemoryOps => TakesMemory(i, m, next, there)
  /\ i.op \in CheckOps  => TakesCheck(i, m, next)
  /\ i.op = "load"    => Loaded(m, i.base) \in next
  /\ i.op = "jz_dl"   => IF m.dl = 0 THEN m \in there ELSE m \in next
  /\ i.op = "jump"    => m \in there
  /\ i.op = "advance" => SetRcx(m, Place(m, i)) \in next
  /\ i.op = "advance_out" => IF OnTape(Place(m, i)) THEN Without(m, "rax") \in next
                             ELSE Without(m, "rax") \in there
  /\ i.op = "store_ptr" => SetPtr(m, m.rcx) \in next
  /\ i.op = "call_read" => \A byte \in Cell : Called(m, byte) \in next

Keeps(i, here, next, there) == \A m \in here : Takes(i, m, next, there)

\* The registers of B hold the tape's address, and then rcx the pointer; the cells
\* at the offsets O from the pointer are on the tape, those at Z are not 0; dl is
\* one of D.
Known(B, O, D, Z) ==
  {m \in Machine : /\ B \subseteq m.bases
                   /\ B # {} => m.rcx = m.pointer
                   /\ \A d \in O : OnTape(m.pointer + d)
                   /\ m.dl \in D
                   /\ \A d \in Z : m.tape[m.pointer + d] # 0}

AnyDl == {Junk} \union Cell
Counts == Cell \ {0}

\* Where a body begins whose condition has just been found to hold.
Nonzero(off) == Known({}, {off}, AnyDl, {off})


-----------------------------------------------------------------------------
\* The pieces of code of BFEmitter_proofs, for this machine.
Code == INSTANCE BFEmitter_proofs WITH
  RunCode <- EmitRun, InputCode <- EmitInput, OutputCode <- EmitOutput,
  MultiplyCode <- EmitMultiply, MultiZeroCode <- EmitMultiZero

Valid(c, known) == Code!Valid(c, known)
Fits(c, P, Q)   == Code!Fits(c, P, Q)


\* known[k] holds the states in which instruction k of the code may be reached; it
\* is empty where there is no instruction, and has every state at the epilogue,
\* where the error blocks lead.
Annotated(c, known) ==
  /\ c \in Seq(AnyInstruction)
  /\ known \in [Int -> SUBSET Machine]
  /\ \A j \in Int : j \notin 1 .. Len(c) => known[j] = {}
  /\ known[1] = Machine /\ known[Len(c)] = Machine
  /\ \A k \in 1 .. Len(c) : Keeps(c[k], known[k], known[k + 1], known[k + c[k].to])

Inv(known) ==
  /\ Annotated(code, known)
  /\ Now \in Machine
  /\ pc \in 0 .. Len(code)
  /\ pc # 0 => Now \in known[pc]
  /\ error \in 0 .. 9
  /\ input \in Seq(Cell)
  /\ result.status \in {"running", "done", "failed"}
-----------------------------------------------------------------------------
(* Executing the code.                                                     *)

LEMMA MachineFields ==
  ASSUME NEW m \in Machine
  PROVE  /\ m.tape \in [Index -> Cell] /\ m.pointer \in Index
         /\ m.bases \in SUBSET {"rax", "rsi"}
         /\ m.rcx \in {Junk} \union Nat /\ m.dl \in {Junk} \union Cell
  BY DEF Machine

\* A running program is at one of its instructions, whose demands are met.
LEMMA LiveTakes ==
  ASSUME NEW known, Inv(known), Live
  PROVE  /\ pc \in 1 .. Len(code) /\ pc + 1 \in Int /\ pc + Instr.to \in Int
         /\ Instr.off \in Int /\ Instr.val \in Int
         /\ Now \in Machine
         /\ known[pc + 1] \subseteq Machine /\ known[pc + Instr.to] \subseteq Machine
         /\ Takes(Instr, Now, known[pc + 1], known[pc + Instr.to])
<1>1. pc \in 1 .. Len(code) /\ code \in Seq(AnyInstruction) /\ Now \in known[pc]
  BY DEF Inv, Live, Annotated
<1>2. Instr \in AnyInstruction
  BY <1>1 DEF Instr
<1>3. Instr.to \in Int /\ Instr.off \in Int /\ Instr.val \in Int
  BY <1>2 DEF AnyInstruction
<1>4. known[pc + 1] \subseteq Machine /\ known[pc + Instr.to] \subseteq Machine
  BY <1>1, <1>3 DEF Inv, Annotated
<1>5. Keeps(Instr, known[pc], known[pc + 1], known[pc + Instr.to])
  BY <1>1 DEF Inv, Annotated, Instr
<1>6. Takes(Instr, Now, known[pc + 1], known[pc + Instr.to])
  BY <1>1, <1>5 DEF Keeps
<1>7. pc + 1 \in Int /\ pc + Instr.to \in Int
  BY <1>1, <1>3
<1> QED  BY <1>1, <1>3, <1>4, <1>6, <1>7 DEF Inv

\* A step to an instruction in a state known there.
LEMMA Arrives ==
  ASSUME NEW known, Inv(known), NEW j \in Int,
         code' = code, pc' = j, Now' \in known[j],
         error' \in 0 .. 9, input' \in Seq(Cell), result' = result
  PROVE  Inv(known)'
<1>1. j \in 1 .. Len(code) /\ known[j] \subseteq Machine
  BY DEF Inv, Annotated
<1>2. Annotated(code, known)'
  BY DEF Inv, Annotated, Keeps
<1> QED  BY <1>1, <1>2 DEF Inv

\* A step to an error block, which goes on to the epilogue.
LEMMA Rejects ==
  ASSUME NEW known, Inv(known), code' = code, pc' = Len(code), Now' \in Machine,
         error' \in 0 .. 9, input' \in Seq(Cell), result' = result
  PROVE  Inv(known)'
<1>1. Len(code) \in Int /\ known[Len(code)] = Machine
  BY DEF Inv, Annotated
<1> QED  BY <1>1, Arrives

LEMMA CompileKeepsInv ==
  ASSUME NEW known, Inv(known), Compile
  PROVE  Inv(known)'
<1>1. Now' = Now /\ code' = code /\ error' = error /\ input' = input
  BY DEF Compile, KeepsTape, NoIo, Now, State
<1>2. CASE Overflows
  <2>1. pc' = pc /\ result'.status = "failed"
    BY <1>2 DEF Compile
  <2>2. Annotated(code, known)'
    BY <1>1 DEF Inv, Annotated, Keeps
  <2> QED  BY <1>1, <2>1, <2>2 DEF Inv, Compile
<1>3. CASE ~Overflows
  <2>1. pc' = 1 /\ result' = result
    BY <1>3 DEF Compile
  <2>2. Now \in known[1]
    BY DEF Inv, Annotated
  <2>3. error' \in 0 .. 9 /\ input' \in Seq(Cell)
    BY <1>1 DEF Inv
  <2> QED  BY <1>1, <2>1, <2>2, <2>3, Arrives
<1> QED  BY <1>2, <1>3

\* A check: what it is about holds, or the program goes to an error block.
LEMMA ChecksKeepInv ==
  ASSUME NEW known, Inv(known), Live, Instr.op \in CheckOps,
         NEW ok, Check(ok, Instr.val), NoIo,
         Now' \in Machine, ok => Now' \in known[pc + 1]
  PROVE  Inv(known)'
<1>1. Instr.val \in 1 .. 9
  BY LiveTakes DEF Takes, TakesCheck
<1>2. /\ code' = code /\ result' = result /\ input' = input
      /\ error' \in {error, Instr.val}
  BY DEF Check, NoIo
<1>3. pc' = IF ok THEN pc + 1 ELSE Len(code)
  BY DEF Check
<1>4. error' \in 0 .. 9
  BY <1>1, <1>2 DEF Inv
<1>5. input' \in Seq(Cell)
  BY <1>2 DEF Inv
<1>6. pc + 1 \in Int
  BY LiveTakes
<1>7. CASE ok  BY <1>2, <1>3, <1>4, <1>5, <1>6, <1>7, Arrives
<1>8. CASE ~ok  BY <1>2, <1>3, <1>4, <1>5, <1>8, Rejects
<1> QED  BY <1>7, <1>8

LEMMA CheckBelowKeepsInv ==
  ASSUME NEW known, Inv(known), CheckBelow
  PROVE  Inv(known)'
<1> DEFINE ok == pointer >= -Instr.off
<1>1. Live /\ Instr.op = "below" /\ Check(ok, Instr.val) /\ NoIo
  BY DEF CheckBelow, At
<1>2. Now' = Without(Now, "rax")
  BY DEF CheckBelow, Clobbered, KeepsTape, Now, State, Without
<1>3. Now' \in Machine
  BY <1>1, <1>2, LiveTakes DEF Machine, State, Without
<1>4. ok => Now' \in known[pc + 1]
  BY <1>1, <1>2, LiveTakes DEF Takes, TakesCheck, CheckOps, Now, State
<1>5. Instr.op \in CheckOps
  BY <1>1 DEF CheckOps
<1> HIDE DEF ok
<1> QED  BY <1>1, <1>3, <1>4, <1>5, ChecksKeepInv

LEMMA CheckAboveKeepsInv ==
  ASSUME NEW known, Inv(known), CheckAbove
  PROVE  Inv(known)'
<1> DEFINE ok == pointer + Instr.off < TapeSize
<1>1. Live /\ Instr.op = "above" /\ Check(ok, Instr.val) /\ NoIo
  BY DEF CheckAbove, At
<1>2. Now' = Without(Now, "rax")
  BY DEF CheckAbove, Clobbered, KeepsTape, Now, State, Without
<1>3. Now' \in Machine
  BY <1>1, <1>2, LiveTakes DEF Machine, State, Without
<1>4. ok => Now' \in known[pc + 1]
  BY <1>1, <1>2, LiveTakes DEF Takes, TakesCheck, CheckOps, Now, State
<1>5. Instr.op \in CheckOps
  BY <1>1 DEF CheckOps
<1> HIDE DEF ok
<1> QED  BY <1>1, <1>3, <1>4, <1>5, ChecksKeepInv

LEMMA AddPtrKeepsInv ==
  ASSUME NEW known, Inv(known), AddPtr
  PROVE  Inv(known)'
<1> DEFINE i == pointer + Instr.off
<1>1. Live /\ Instr.op = "add_ptr" /\ Check(OnTape(i), Instr.val) /\ NoIo
  BY DEF AddPtr, At, NoIo
<1>2. Now' = IF OnTape(i) THEN SetPtr(Without(Now, "rax"), i)
             ELSE Without(Now, "rax")
  BY DEF AddPtr, Clobbered, Now, State, Without, SetPtr
<1>3. Now' \in Machine
  BY <1>1, <1>2, LiveTakes DEF Machine, State, Without, SetPtr, OnTape
<1>4. OnTape(i) => Now' \in known[pc + 1]
  BY <1>1, <1>2, LiveTakes DEF Takes, TakesCheck, CheckOps, Now, State
<1>5. Instr.op \in CheckOps
  BY <1>1 DEF CheckOps
<1> QED  BY <1>1, <1>3, <1>4, <1>5, ChecksKeepInv

LEMMA TryAdvanceKeepsInv ==
  ASSUME NEW known, Inv(known), TryAdvanceRcx
  PROVE  Inv(known)'
<1> DEFINE i == rcx + Instr.off
<1>1. Live /\ Instr.op = "try_advance" /\ Check(OnTape(i), Instr.val) /\ NoIo
  BY DEF TryAdvanceRcx, At
<1>2. Now' = IF OnTape(i) THEN SetRcx(Without(Now, "rax"), Place(Now, Instr))
             ELSE Without(Now, "rax")
  BY DEF TryAdvanceRcx, Clobbered, KeepsTape, Now, State, Without, SetRcx, Place
<1>3. Now' \in Machine
  <2>1. Without(Now, "rax") \in Machine
    BY <1>1, LiveTakes DEF Machine, State, Without
  <2>2. OnTape(i) => Place(Now, Instr) \in Nat
    BY <1>1, LiveTakes, TapeAssumption DEF OnTape, Index, Place, Now, State
  <2> QED  BY <1>2, <2>1, <2>2 DEF Machine, State, SetRcx
<1>4. OnTape(i) => Now' \in known[pc + 1]
  BY <1>1, <1>2, LiveTakes DEF Takes, TakesCheck, CheckOps, Now, State, Place
<1>5. Instr.op \in CheckOps
  BY <1>1 DEF CheckOps
<1> QED  BY <1>1, <1>3, <1>4, <1>5, ChecksKeepInv

LEMMA CheckScanKeepsInv ==
  ASSUME NEW known, Inv(known), CheckScan
  PROVE  Inv(known)'
<1>1. Live /\ Now' = Now /\ NoIo
  BY DEF CheckScan, KeepsTape, Now, State, At
<1>2. CASE At("check_rcx") /\ Check(OnTape(rcx), Instr.val)
  <2>0. Live /\ Instr.op = "check_rcx" 
    BY <1>2 DEF At
  <2>1. OnTape(rcx) => Now' \in known[pc + 1]
    BY <1>1, <1>2, LiveTakes DEF Takes, TakesCheck, CheckOps, Now, State, At
  <2>2. Now' \in Machine  BY <1>1, <2>0, LiveTakes
  <2> QED  BY <1>1, <1>2, <2>0, <2>1, <2>2, ChecksKeepInv DEF CheckOps
<1>3. CASE At("check_back") /\ Check(rcx >= Instr.off, Instr.val)
  <2>0. Live /\ Instr.op = "check_back" 
    BY <1>3 DEF At
  <2>1. rcx >= Instr.off => Now' \in known[pc + 1]
    BY <1>1, <1>3, LiveTakes DEF Takes, TakesCheck, CheckOps, Now, State, At
  <2>2. Now' \in Machine  BY <1>1, <2>0, LiveTakes
  <2> QED  BY <1>1, <1>3, <2>0, <2>1, <2>2, ChecksKeepInv DEF CheckOps
<1> QED  BY <1>2, <1>3 DEF CheckScan

\* A step of which nothing can go wrong, to the next instruction or by a jump.
LEMMA OnwardKeepsInv ==
  ASSUME NEW known, Inv(known), Live, GoesOn, input' \in Seq(Cell),
         \/ pc' = pc + 1 /\ Now' \in known[pc + 1]
         \/ pc' = pc + Instr.to /\ Now' \in known[pc + Instr.to]
  PROVE  Inv(known)'
<1>1. pc + 1 \in Int /\ pc + Instr.to \in Int
  BY LiveTakes
<1>2. code' = code /\ result' = result /\ error' = error
  BY DEF GoesOn
<1>3. error \in 0 .. 9
  BY DEF Inv
<1> QED  BY <1>1, <1>2, <1>3, Arrives

LEMMA LoadStateKeepsInv ==
  ASSUME NEW known, Inv(known), LoadState
  PROVE  Inv(known)'
<1>1. Live /\ Instr.op = "load" /\ GoesOn /\ pc' = pc + 1 /\ input' \in Seq(Cell)
  BY DEF LoadState, At, Next1, NoIo, Inv
<1>2. Now' = Loaded(Now, Instr.base)
  BY DEF LoadState, KeepsTape, Now, State, Loaded
<1>3. Now' \in known[pc + 1]
  BY <1>1, <1>2, LiveTakes DEF Takes
<1> QED  BY <1>1, <1>3, OnwardKeepsInv

\* What holds of an instruction that accesses the tape.
LEMMA AccessTakes ==
  ASSUME NEW known, Inv(known), Live, Instr.op \in MemoryOps
  PROVE  /\ Addressable /\ Address \in Index /\ Address = Place(Now, Instr)
         /\ TakesMemory(Instr, Now, known[pc + 1], known[pc + Instr.to])
         /\ tape = Now.tape /\ dl = Now.dl /\ bases = Now.bases
         /\ tape[Address] \in Cell /\ dl \in {Junk} \union Cell
<1>1. TakesMemory(Instr, Now, known[pc + 1], known[pc + Instr.to]) /\ Now \in Machine
  BY LiveTakes DEF Takes
<1>2. tape = Now.tape /\ dl = Now.dl /\ bases = Now.bases /\ Address = Place(Now, Instr)
  BY DEF Now, State, Address, Place
<1>3. Instr.base \in Now.bases /\ Place(Now, Instr) \in Index
  BY <1>1 DEF TakesMemory, OnTape
<1>4. Addressable
  BY <1>2, <1>3 DEF Addressable, OnTape
<1>5. tape[Address] \in Cell /\ dl \in {Junk} \union Cell
  BY <1>1, <1>2, <1>3, MachineFields
<1> QED  BY <1>1, <1>2, <1>3, <1>4, <1>5

LEMMA AddToCellKeepsInv ==
  ASSUME NEW known, Inv(known), AddToCell
  PROVE  Inv(known)'
<1>1. /\ Live /\ Instr.op = "add" /\ GoesOn /\ pc' = pc + 1 /\ input' \in Seq(Cell)
      /\ Instr.op \in MemoryOps
  BY DEF AddToCell, Accesses, At, Next1, NoIo, Inv, MemoryOps
<1>2. Now' = PutAt(Now, Address, Byte(tape[Address] + Instr.val))
  BY DEF AddToCell, Write, Now, State, PutAt
<1>3. Now' \in known[pc + 1]
  BY <1>1, <1>2, AccessTakes DEF TakesMemory
<1> QED  BY <1>1, <1>3, OnwardKeepsInv

LEMMA StoreCellKeepsInv ==
  ASSUME NEW known, Inv(known), StoreCell
  PROVE  Inv(known)'
<1>1. GoesOn /\ pc' = pc + 1 /\ input' \in Seq(Cell)
  BY DEF StoreCell, Next1, NoIo, Inv
<1>2. CASE Accesses("store") /\ Write(Instr.val)
  <2>1. Live /\ Instr.op = "store" /\ Instr.op \in MemoryOps
    BY <1>2 DEF Accesses, At, MemoryOps
  <2>2. Now' = PutAt(Now, Address, Instr.val)
    BY <1>2 DEF StoreCell, Write, Now, State, PutAt
  <2>3. Now' \in known[pc + 1]
    BY <2>1, <2>2, AccessTakes DEF TakesMemory
  <2> QED  BY <1>1, <2>1, <2>3, OnwardKeepsInv
<1>3. CASE Accesses("store_dl") /\ Write(dl)
  <2>1. Live /\ Instr.op = "store_dl" /\ Instr.op \in MemoryOps
    BY <1>3 DEF Accesses, At, MemoryOps
  <2>2. Now' = PutAt(Now, Address, dl)
    BY <1>3 DEF StoreCell, Write, Now, State, PutAt
  <2>3. Now' \in known[pc + 1]
    BY <2>1, <2>2, AccessTakes DEF TakesMemory
  <2> QED  BY <1>1, <2>1, <2>3, OnwardKeepsInv
<1> QED  BY <1>2, <1>3 DEF StoreCell

LEMMA LoadCounterKeepsInv ==
  ASSUME NEW known, Inv(known), LoadCounter
  PROVE  Inv(known)'
<1>1. /\ Live /\ Instr.op = "load_dl" /\ GoesOn /\ pc' = pc + 1 /\ input' \in Seq(Cell)
      /\ Instr.op \in MemoryOps
  BY DEF LoadCounter, Accesses, At, Next1, NoIo, Inv, MemoryOps
<1>2. Now' = SetDl(Now, tape[Address])
  BY DEF LoadCounter, KeepsTape, Now, State, SetDl
<1>3. Now' \in known[pc + 1]
  BY <1>1, <1>2, AccessTakes DEF TakesMemory
<1> QED  BY <1>1, <1>3, OnwardKeepsInv

LEMMA AddTermKeepsInv ==
  ASSUME NEW known, Inv(known), AddTerm
  PROVE  Inv(known)'
<1> DEFINE value == Byte(tape[Address] + dl * Instr.val)
<1>1. /\ Live /\ Instr.op = "term" /\ GoesOn /\ pc' = pc + 1 /\ input' \in Seq(Cell)
      /\ Instr.op \in MemoryOps
  BY DEF AddTerm, Accesses, At, Next1, NoIo, Inv, MemoryOps
<1>2. /\ tape' = [tape EXCEPT ![Address] = value]
      /\ pointer' = pointer /\ rcx' = rcx /\ dl' = dl
      /\ bases' = IF Instr.val \in {1, -1} THEN bases ELSE bases \ {"rax"}
  BY DEF AddTerm, Write, Clobbered
<1>3. PutAt(IF Instr.val \in {1, -1} THEN Now ELSE Without(Now, "rax"), Address, value)
        \in known[pc + 1]
  BY <1>1, AccessTakes DEF TakesMemory
<1> HIDE DEF value
<1>4. Now' = PutAt(IF Instr.val \in {1, -1} THEN Now ELSE Without(Now, "rax"), Address, value)
  BY <1>2 DEF Now, State, PutAt, Without
<1> QED  BY <1>1, <1>3, <1>4, OnwardKeepsInv

LEMMA BranchOnCellKeepsInv ==
  ASSUME NEW known, Inv(known), BranchOnCell
  PROVE  Inv(known)'
<1>1. GoesOn /\ input' \in Seq(Cell) /\ Now' = Now
  BY DEF BranchOnCell, KeepsTape, NoIo, Inv, Now, State
<1>2. CASE Accesses("jz") /\ Branch(tape[Address] = 0)
  <2>1. Live /\ Instr.op = "jz" /\ Instr.op \in MemoryOps
    BY <1>2 DEF Accesses, At, MemoryOps
  <2>2. IF tape[Address] = 0 THEN Now \in known[pc + Instr.to] ELSE Now \in known[pc + 1]
    BY <2>1, AccessTakes DEF TakesMemory
  <2>3. IF tape[Address] = 0 THEN pc' = pc + Instr.to ELSE pc' = pc + 1
    BY <1>2 DEF Branch
  <2> QED  BY <1>1, <2>1, <2>2, <2>3, OnwardKeepsInv
<1>3. CASE Accesses("jnz") /\ Branch(tape[Address] # 0)
  <2>1. Live /\ Instr.op = "jnz" /\ Instr.op \in MemoryOps
    BY <1>3 DEF Accesses, At, MemoryOps
  <2>2. IF tape[Address] # 0 THEN Now \in known[pc + Instr.to] ELSE Now \in known[pc + 1]
    BY <2>1, AccessTakes DEF TakesMemory
  <2>3. IF tape[Address] # 0 THEN pc' = pc + Instr.to ELSE pc' = pc + 1
    BY <1>3 DEF Branch
  <2> QED  BY <1>1, <2>1, <2>2, <2>3, OnwardKeepsInv
<1> QED  BY <1>2, <1>3 DEF BranchOnCell

LEMMA BranchOnCounterKeepsInv ==
  ASSUME NEW known, Inv(known), BranchOnCounter
  PROVE  Inv(known)'
<1>1. /\ Live /\ Instr.op = "jz_dl" /\ GoesOn /\ input' \in Seq(Cell)
      /\ Now' = Now /\ dl = Now.dl
  BY DEF BranchOnCounter, At, KeepsTape, NoIo, Inv, Now, State
<1>2. IF dl = 0 THEN pc' = pc + Instr.to ELSE pc' = pc + 1
  BY DEF BranchOnCounter, Branch
<1>3. IF dl = 0 THEN Now \in known[pc + Instr.to] ELSE Now \in known[pc + 1]
  BY <1>1, LiveTakes DEF Takes
<1> QED  BY <1>1, <1>2, <1>3, OnwardKeepsInv

LEMMA JumpsKeepsInv ==
  ASSUME NEW known, Inv(known), Jumps
  PROVE  Inv(known)'
<1>1. /\ Live /\ Instr.op = "jump" /\ GoesOn /\ input' \in Seq(Cell)
      /\ Now' = Now /\ pc' = pc + Instr.to
  BY DEF Jumps, At, KeepsTape, NoIo, Inv, Now, State, Branch
<1>2. Now \in known[pc + Instr.to]
  BY <1>1, LiveTakes DEF Takes
<1> QED  BY <1>1, <1>2, OnwardKeepsInv

LEMMA AdvanceRcxKeepsInv ==
  ASSUME NEW known, Inv(known), AdvanceRcx
  PROVE  Inv(known)'
<1>1. /\ Live /\ Instr.op = "advance" /\ GoesOn /\ input' \in Seq(Cell) /\ pc' = pc + 1
  BY DEF AdvanceRcx, At, NoIo, Inv, Next1
<1>2. Now' = SetRcx(Now, Place(Now, Instr))
  BY DEF AdvanceRcx, KeepsTape, Now, State, SetRcx, Place
<1>3. Now' \in known[pc + 1]
  BY <1>1, <1>2, LiveTakes DEF Takes
<1> QED  BY <1>1, <1>3, OnwardKeepsInv

LEMMA BranchIfOutKeepsInv ==
  ASSUME NEW known, Inv(known), BranchIfOut
  PROVE  Inv(known)'
<1> DEFINE inside == OnTape(rcx + Instr.off)
<1>1. /\ Live /\ Instr.op = "advance_out" /\ GoesOn /\ input' \in Seq(Cell)
      /\ rcx + Instr.off = Place(Now, Instr)
  BY DEF BranchIfOut, At, NoIo, Inv, Now, State, Place
<1>2. Now' = Without(Now, "rax")
  BY DEF BranchIfOut, Clobbered, KeepsTape, Now, State, Without
<1>3. IF inside THEN pc' = pc + 1 ELSE pc' = pc + Instr.to
  BY DEF BranchIfOut, Branch
<1>4. IF inside THEN Now' \in known[pc + 1] ELSE Now' \in known[pc + Instr.to]
  BY <1>1, <1>2, LiveTakes DEF Takes
<1> HIDE DEF inside
<1> QED  BY <1>1, <1>3, <1>4, OnwardKeepsInv

LEMMA StorePointerKeepsInv ==
  ASSUME NEW known, Inv(known), StorePointer
  PROVE  Inv(known)'
<1>1. /\ Live /\ Instr.op = "store_ptr" /\ GoesOn /\ input' \in Seq(Cell) /\ pc' = pc + 1
  BY DEF StorePointer, At, NoIo, Inv, Next1
<1>2. Now' = SetPtr(Now, Now.rcx)
  BY DEF StorePointer, Now, State, SetPtr
<1>3. Now' \in known[pc + 1]
  BY <1>1, <1>2, LiveTakes DEF Takes
<1> QED  BY <1>1, <1>3, OnwardKeepsInv

LEMMA CallRuntimeReadKeepsInv ==
  ASSUME NEW known, Inv(known), CallRuntimeRead
  PROVE  Inv(known)'
<1>1. /\ Live /\ Instr.op = "call_read" /\ GoesOn /\ pc' = pc + 1
  BY DEF CallRuntimeRead, At, Next1
<1>2. input \in Seq(Cell)
  BY DEF Inv
<1>3. input' \in Seq(Cell) /\ dl' \in Cell
  <2>1. CASE input = <<>>
    <3>1. dl' = EofByte /\ input' = input
      BY <2>1 DEF CallRuntimeRead
    <3> QED  BY <1>2, <3>1, ByteIsCell DEF EofByte
  <2>2. CASE input # <<>>
    <3>1. dl' = Head(input) /\ input' = Tail(input)
      BY <2>2 DEF CallRuntimeRead
    <3> QED  BY <1>2, <2>2, <3>1
  <2> QED  BY <2>1, <2>2
<1>4. Now' = Called(Now, dl')
  BY DEF CallRuntimeRead, KeepsTape, Now, State, Called
<1>5. Now' \in known[pc + 1]
  BY <1>1, <1>3, <1>4, LiveTakes DEF Takes
<1> QED  BY <1>1, <1>3, <1>5, OnwardKeepsInv

LEMMA CallRuntimeWriteKeepsInv ==
  ASSUME NEW known, Inv(known), CallRuntimeWrite
  PROVE  Inv(known)'
<1>1. /\ Live /\ Instr.op = "call_write" /\ Instr.op \in MemoryOps
      /\ GoesOn /\ pc' = pc + 1
  BY DEF CallRuntimeWrite, Accesses, At, Next1, MemoryOps
<1>2. input' \in Seq(Cell)
  <2>1. input' = input  BY DEF CallRuntimeWrite
  <2> QED  BY <2>1 DEF Inv
<1>3. Now' = Called(Now, Junk)
  BY DEF CallRuntimeWrite, KeepsTape, Now, State, Called
<1>4. Now' \in known[pc + 1]
  BY <1>1, <1>3, AccessTakes DEF TakesMemory
<1> QED  BY <1>1, <1>2, <1>4, OnwardKeepsInv

LEMMA NoStepKeepsInv ==
  ASSUME NEW known, Inv(known), \/ UNCHANGED vars \/ Return
  PROVE  Inv(known)'
<1>1. /\ Now' = Now /\ code' = code /\ pc' = pc /\ error' = error /\ input' = input
      /\ result'.status \in {result.status, "failed", "done"}
  <2>1. CASE UNCHANGED vars  BY <2>1 DEF vars, Now, State
  <2>2. CASE Return  BY <2>2 DEF Return, KeepsTape, NoIo, Now, State
  <2> QED  BY <2>1, <2>2
<1>2. Annotated(code, known)'
  BY <1>1 DEF Inv, Annotated, Keeps
<1> QED  BY <1>1, <1>2 DEF Inv

LEMMA NextKeepsInv ==
  ASSUME NEW known, Inv(known), [Next]_vars
  PROVE  Inv(known)'
<1>1. CASE Step
  BY <1>1, CompileKeepsInv, CheckBelowKeepsInv, CheckAboveKeepsInv, AddPtrKeepsInv,
     LoadStateKeepsInv, AddToCellKeepsInv, StoreCellKeepsInv, LoadCounterKeepsInv,
     AddTermKeepsInv, BranchOnCellKeepsInv, BranchOnCounterKeepsInv, JumpsKeepsInv,
     AdvanceRcxKeepsInv, TryAdvanceKeepsInv, CheckScanKeepsInv, BranchIfOutKeepsInv,
     StorePointerKeepsInv, CallRuntimeReadKeepsInv, CallRuntimeWriteKeepsInv, NoStepKeepsInv
     DEF Step
<1>2. CASE Finished \/ UNCHANGED vars
  BY <1>2, NoStepKeepsInv DEF Finished
<1> QED  BY <1>1, <1>2 DEF Next

\* What the invariant says of the properties.
LEMMA InvIsSafe ==
  ASSUME NEW known, Inv(known)
  PROVE  TypeOK /\ AccessesAreSafe /\ CounterIsNonzero
<1>1. TypeOK
  <2>1. /\ tape \in [Index -> Cell] /\ pointer \in Index /\ bases \subseteq {"rax", "rsi"}
        /\ rcx \in {Junk} \union Nat /\ dl \in {Junk} \union Cell
    BY DEF Inv, Now, State, Machine
  <2> QED  BY <2>1 DEF Inv, TypeOK
<1>2. AccessesAreSafe
  BY AccessTakes DEF AccessesAreSafe
<1>3. CounterIsNonzero
  <2> SUFFICES ASSUME At("term") PROVE dl \notin {Junk, 0}
    BY DEF CounterIsNonzero
  <2>1. Live /\ Instr.op = "term" /\ Instr.op \in MemoryOps
    BY DEF At, MemoryOps
  <2> QED  BY <2>1, AccessTakes DEF TakesMemory
<1> QED  BY <1>1, <1>2, <1>3
-----------------------------------------------------------------------------
(* Pieces of code (BFEmitter_proofs).                                      *)

\* Executing may go anywhere from fewer states, and to more.
LEMMA KeepsMonotone ==
  ASSUME NEW i, NEW here, NEW next, NEW there, Keeps(i, here, next, there),
         NEW less, less \subseteq here, NEW more, next \subseteq more,
         NEW else, there \subseteq else
  PROVE  Keeps(i, less, more, else)
<1> SUFFICES ASSUME NEW m \in less PROVE Takes(i, m, more, else)
  BY DEF Keeps
<1>1. Takes(i, m, next, there)
  BY DEF Keeps
<1>2. i.op \in MemoryOps => TakesMemory(i, m, more, else)
  BY <1>1 DEF Takes, TakesMemory
<1>3. i.op \in CheckOps => TakesCheck(i, m, more)
  BY <1>1 DEF Takes, TakesCheck
<1> QED  BY <1>1, <1>2, <1>3 DEF Takes

LEMMA KeepsIsMonotone == Code!KeepsIsMonotone
<1>1. \A i \in AnyInstruction : i.to \in Int
  BY DEF AnyInstruction
<1>2. \A i, next, there : Keeps(i, {}, next, there)
  BY DEF Keeps
<1> QED  BY <1>1, <1>2, KeepsMonotone DEF Code!KeepsIsMonotone

\* What the lemmas of BFEmitter_proofs rest on, for this machine.
LEMMA CodeAssumptions ==
  /\ Code!KeepsIsMonotone
  /\ CellCount \in Nat \ {0}
  /\ \A n \in Node : /\ n.kind \in Code!Kinds
                     /\ n.arg \in Int
                     /\ n.body \in Seq(Node)
                     /\ n.terms \in Seq(Code!Terms)
  /\ Scopes \subseteq [active : BOOLEAN, min : Int, max : Int]
  BY KeepsIsMonotone, CellCountAssumption, NodeAssumption, ScopesAssumption
     DEF Kinds, Code!Kinds, Terms, Code!Terms

LEMMA FitsWeaker ==
  ASSUME NEW c, NEW P, NEW Q, Fits(c, P, Q), NEW R, R \subseteq P, NEW S, Q \subseteq S
  PROVE  Fits(c, R, S)
  BY CodeAssumptions, Code!FitsWeaker DEF Fits

LEMMA FitsNothing ==
  ASSUME NEW P, P \subseteq Machine
  PROVE  Fits(<<>>, P, P)
  BY CodeAssumptions, Code!FitsNothing DEF Fits

LEMMA FitsOne ==
  ASSUME NEW i \in AnyInstruction, NEW P, P \subseteq Machine, NEW Q, Q \subseteq Machine,
         Keeps(i, P, Q, {})
  PROVE  Fits(<<i>>, P, Q)
  BY CodeAssumptions, Code!FitsOne DEF Fits

LEMMA FitsThen ==
  ASSUME NEW c, NEW P, NEW Q, Fits(c, P, Q), NEW d, NEW R, Fits(d, Q, R)
  PROVE  Fits(c \o d, P, R)
  BY CodeAssumptions, Code!FitsThen DEF Fits

\* A jump over a piece of code.
LEMMA FitsBehindJump ==
  ASSUME NEW i \in AnyInstruction, NEW c, NEW P, P \subseteq Machine, NEW Q,
         NEW R, R \subseteq Machine,
         Fits(c, Q, R), i.to = Len(c) + 1, Keeps(i, P, Q, R)
  PROVE  Fits(<<i>> \o c, P, R)
  BY CodeAssumptions, Code!FitsBehindJump DEF Fits

LEMMA FitsLoop ==
  ASSUME NEW t, NEW c, NEW i \in AnyInstruction, NEW k \in AnyInstruction,
         NEW P, P \subseteq Machine, NEW R, R \subseteq Machine, NEW Q,
         NEW S, S \subseteq Machine,
         Fits(t, P, R), Fits(c, Q, P),
         i.to = Len(t) + Len(c) + 2, k.to = -(Len(t) + Len(c) + Len(t) + 1),
         Keeps(i, R, Q, S), Keeps(k, R, S, P)
  PROVE  Fits(((t \o <<i>>) \o c) \o t \o <<k>>, P, S)
  BY CodeAssumptions, Code!FitsLoop DEF Fits

\* A row of instructions of which each keeps what is known.
LEMMA FitsRow ==
  ASSUME NEW P, P \subseteq Machine, NEW c \in Seq(AnyInstruction),
         \A k \in 1 .. Len(c) : Keeps(c[k], P, P, {})
  PROVE  Fits(c, P, P)
  BY CodeAssumptions, Code!FitsRow DEF Fits

LEMMA FitsIsCode ==
  ASSUME NEW P, NEW Q, NEW c, Fits(c, P, Q)
  PROVE  c \in Seq(AnyInstruction)
  BY CodeAssumptions, Code!FitsIsCode DEF Fits

LEMMA KnownFields ==
  ASSUME NEW B, NEW O, NEW D, NEW Z, NEW m \in Known(B, O, D, Z)
  PROVE  /\ m \in Machine
         /\ m.tape \in [Index -> Cell] /\ m.pointer \in Index
         /\ m.bases \in SUBSET {"rax", "rsi"}
         /\ m.rcx \in {Junk} \union Nat /\ m.dl \in {Junk} \union Cell
         /\ B \subseteq m.bases /\ (B # {} => m.rcx = m.pointer)
         /\ (\A d \in O : m.pointer + d \in Index)
         /\ m.dl \in D
         /\ (\A d \in Z : m.tape[m.pointer + d] # 0)
  BY MachineFields DEF Known, OnTape

LEMMA KnownMachine ==
  ASSUME NEW B, NEW O, NEW D, NEW Z
  PROVE  Known(B, O, D, Z) \subseteq Machine
  BY DEF Known

LEMMA KnownLess ==
  ASSUME NEW B, NEW O, NEW D, NEW Z, NEW A \in SUBSET B, NEW P \in SUBSET O,
         NEW E, D \subseteq E, NEW Y \in SUBSET Z
  PROVE  Known(B, O, D, Z) \subseteq Known(A, P, E, Y)
  BY DEF Known

\* At first nothing is known.
LEMMA KnownAll ==
  /\ Machine = Known({}, {}, AnyDl, {})
  /\ Machine \subseteq Known({}, {0}, AnyDl, {})
<1>1. ASSUME NEW m \in Machine PROVE m.pointer + 0 \in Index /\ m.dl \in AnyDl
  <2>1. m.pointer \in Index /\ m.dl \in {Junk} \union Cell  BY MachineFields
  <2>2. m.pointer + 0 = m.pointer  BY <2>1 DEF Index
  <2> QED  BY <2>1, <2>2 DEF AnyDl
<1> QED  BY <1>1 DEF Known, OnTape

\* A row of instructions of which each keeps what is known.
LEMMA BelowFits ==
  ASSUME NEW B \in SUBSET {"rsi"}, NEW O, NEW D, NEW Z,
         NEW min \in Int, min < 0, NEW reason \in 1 .. 9
  PROVE  Fits(<<Below(min, reason)>>, Known(B, O, D, Z), Known(B, O \union (min .. 0), D, Z))
<1> DEFINE i == Below(min, reason)
           P == Known(B, O, D, Z)
           Q == Known(B, O \union (min .. 0), D, Z)
<1>1. i \in AnyInstruction
  BY DEF Below, Instruction, AnyInstruction, Ops, CheckOps
<1>2. i.op = "below" /\ i.off = min /\ i.val = reason
  BY DEF Below, Instruction
<1>3. ASSUME NEW m \in P, m.pointer >= -min PROVE Without(m, "rax") \in Q
  <2>1. \A d \in min .. 0 : m.pointer + d \in Index
    <3>1. m.pointer \in Index  BY KnownFields
    <3> QED  BY <1>3, <3>1, TapeAssumption DEF Index
  <2>2. B \subseteq m.bases \ {"rax"}  BY KnownFields
  <2>3. Without(m, "rax") \in Machine  BY KnownFields DEF Machine, State, Without
  <2> QED  BY <2>1, <2>2, <2>3, KnownFields DEF Known, OnTape, State, Without
<1>4. Keeps(i, P, Q, {})
  <2> HIDE DEF i, P, Q
  <2> QED  BY <1>2, <1>3 DEF Keeps, Takes, TakesCheck, MemoryOps, CheckOps
<1> QED  BY <1>1, <1>4, KnownMachine, FitsOne

LEMMA AboveFits ==
  ASSUME NEW B \in SUBSET {"rsi"}, NEW O, NEW D, NEW Z,
         NEW max \in Int, max > 0, NEW reason \in 1 .. 9
  PROVE  Fits(<<Above(max, reason)>>, Known(B, O, D, Z), Known(B, O \union (0 .. max), D, Z))
<1> DEFINE i == Above(max, reason)
           P == Known(B, O, D, Z)
           Q == Known(B, O \union (0 .. max), D, Z)
<1>1. i \in AnyInstruction
  BY DEF Above, Instruction, AnyInstruction, Ops, CheckOps
<1>2. i.op = "above" /\ i.off = max /\ i.val = reason
  BY DEF Above, Instruction
<1>3. ASSUME NEW m \in P, m.pointer + max < TapeSize PROVE Without(m, "rax") \in Q
  <2>1. \A d \in 0 .. max : m.pointer + d \in Index
    <3>1. m.pointer \in Index  BY KnownFields
    <3> QED  BY <1>3, <3>1, TapeAssumption DEF Index
  <2>2. B \subseteq m.bases \ {"rax"}  BY KnownFields
  <2>3. Without(m, "rax") \in Machine  BY KnownFields DEF Machine, State, Without
  <2> QED  BY <2>1, <2>2, <2>3, KnownFields DEF Known, OnTape, State, Without
<1>4. Keeps(i, P, Q, {})
  <2> HIDE DEF i, P, Q
  <2> QED  BY <1>2, <1>3 DEF Keeps, Takes, TakesCheck, MemoryOps, CheckOps
<1> QED  BY <1>1, <1>4, KnownMachine, FitsOne

LEMMA LoadFits ==
  ASSUME NEW B \in SUBSET {"rax", "rsi"}, NEW O, NEW D, NEW Z, NEW base \in {"rax", "rsi"}
  PROVE  Fits(<<Load(base)>>, Known(B, O, D, Z), Known(B \union {base}, O, D, Z))
<1> DEFINE i == Load(base)
           P == Known(B, O, D, Z)
           Q == Known(B \union {base}, O, D, Z)
<1>1. i \in AnyInstruction
  <2>1. CASE base = "rax"  BY <2>1 DEF Load, Instruction, AnyInstruction, Ops
  <2>2. CASE base = "rsi"  BY <2>2 DEF Load, Instruction, AnyInstruction, Ops
  <2> QED  BY <2>1, <2>2
<1>2. i.op = "load" /\ i.base = base
  BY DEF Load, Instruction
<1>3. ASSUME NEW m \in P PROVE Loaded(m, base) \in Q
  <2>1. B \union {base} \subseteq m.bases \union {base}  BY KnownFields
  <2>2. Loaded(m, base) \in Machine
    <3>1. m.pointer \in Nat  BY KnownFields, TapeAssumption DEF Index
    <3> QED  BY <3>1, KnownFields DEF Machine, State, Loaded
  <2> QED  BY <2>1, <2>2, KnownFields DEF Known, OnTape, State, Loaded
<1>4. Keeps(i, P, Q, {})
  <2> HIDE DEF i, P, Q
  <2> QED  BY <1>2, <1>3 DEF Keeps, Takes, TakesCheck, MemoryOps, CheckOps
<1>5. P \subseteq Machine /\ Q \subseteq Machine
  BY KnownMachine
<1> HIDE DEF i, P, Q
<1>6. Fits(<<i>>, P, Q)
  BY <1>1, <1>4, <1>5, FitsOne
<1> QED  BY <1>6 DEF i, P, Q

\* An instruction that writes a value to a cell on the tape.
LEMMA PutIsKnown ==
  ASSUME NEW B, NEW O, NEW D, NEW m \in Known(B, O, D, {}), NEW off \in O, NEW v \in Cell
  PROVE  PutAt(m, m.pointer + off, v) \in Known(B, O, D, {})
<1>1. m.pointer + off \in Index
  BY KnownFields
<1>2. PutAt(m, m.pointer + off, v) \in Machine
  BY <1>1, KnownFields DEF Machine, State, PutAt
<1> QED  BY <1>2, KnownFields DEF Known, OnTape, State, PutAt

LEMMA AddImmKeeps ==
  ASSUME NEW B, "rax" \in B, NEW O \in SUBSET Int, NEW D, NEW off \in O, NEW v \in Int
  PROVE  /\ AddImm(off, v) \in AnyInstruction
         /\ Keeps(AddImm(off, v), Known(B, O, D, {}), Known(B, O, D, {}), {})
<1> DEFINE i == AddImm(off, v)
           P == Known(B, O, D, {})
<1>1. i \in AnyInstruction
  BY DEF AddImm, Instruction, AnyInstruction, Ops, MemoryOps
<1>2. i.op = "add" /\ i.base = "rax" /\ i.off = off /\ i.val = v
  BY DEF AddImm, Instruction
<1>3. ASSUME NEW m \in P
      PROVE  /\ "rax" \in m.bases /\ Place(m, i) \in Index
             /\ PutAt(m, Place(m, i), Byte(m.tape[Place(m, i)] + v)) \in P
  <2>1. "rax" \in m.bases /\ m.rcx = m.pointer /\ m.pointer + off \in Index
    BY KnownFields
  <2>2. Place(m, i) = m.pointer + off
    BY <1>2, <2>1 DEF Place
  <2>3. m.tape[m.pointer + off] \in Int
    BY <2>1, KnownFields, CellCountAssumption DEF Cell
  <2>4. Byte(m.tape[m.pointer + off] + v) \in Cell
    BY <2>3, ByteIsCell
  <2> QED  BY <2>1, <2>2, <2>4, PutIsKnown
<1>4. Keeps(i, P, P, {})
  <2> HIDE DEF i, P
  <2> QED  BY <1>2, <1>3 DEF Keeps, Takes, TakesMemory, MemoryOps, CheckOps, OnTape
<1> QED  BY <1>1, <1>4

LEMMA StoreKeeps ==
  ASSUME NEW B, NEW base \in {"rax", "rsi"}, base \in B, NEW O \in SUBSET Int, NEW D,
         NEW off \in O, NEW v \in Cell
  PROVE  /\ Store(base, off, v) \in AnyInstruction
         /\ Keeps(Store(base, off, v), Known(B, O, D, {}), Known(B, O, D, {}), {})
<1> DEFINE i == Store(base, off, v)
           P == Known(B, O, D, {})
<1>1. i \in AnyInstruction
  <2>0. v \in Int  BY CellCountAssumption DEF Cell
  <2>1. CASE base = "rax"
    BY <2>0, <2>1 DEF Store, Instruction, AnyInstruction, Ops, MemoryOps
  <2>2. CASE base = "rsi"
    BY <2>0, <2>2 DEF Store, Instruction, AnyInstruction, Ops, MemoryOps
  <2> QED  BY <2>1, <2>2
<1>2. i.op = "store" /\ i.base = base /\ i.off = off /\ i.val = v
  BY DEF Store, Instruction
<1>3. ASSUME NEW m \in P
      PROVE  /\ base \in m.bases /\ Place(m, i) \in Index
             /\ PutAt(m, Place(m, i), v) \in P
  <2>1. base \in m.bases /\ m.rcx = m.pointer /\ m.pointer + off \in Index
    BY KnownFields
  <2>2. Place(m, i) = m.pointer + off
    BY <1>2, <2>1 DEF Place
  <2> QED  BY <2>1, <2>2, PutIsKnown
<1>4. Keeps(i, P, P, {})
  <2> HIDE DEF i, P
  <2> QED  BY <1>2, <1>3 DEF Keeps, Takes, TakesMemory, MemoryOps, CheckOps, OnTape
<1> QED  BY <1>1, <1>4

LEMMA StoreDlKeeps ==
  ASSUME NEW B, "rax" \in B, NEW O \in SUBSET Int, NEW D \in SUBSET Cell, NEW off \in O
  PROVE  /\ StoreDl(off) \in AnyInstruction
         /\ Keeps(StoreDl(off), Known(B, O, D, {}), Known(B, O, D, {}), {})
<1> DEFINE i == StoreDl(off)
           P == Known(B, O, D, {})
<1>1. i \in AnyInstruction
  BY DEF StoreDl, Instruction, AnyInstruction, Ops, MemoryOps
<1>2. i.op = "store_dl" /\ i.base = "rax" /\ i.off = off
  BY DEF StoreDl, Instruction
<1>3. ASSUME NEW m \in P
      PROVE  /\ "rax" \in m.bases /\ Place(m, i) \in Index
             /\ PutAt(m, Place(m, i), m.dl) \in P
  <2>1. "rax" \in m.bases /\ m.rcx = m.pointer /\ m.pointer + off \in Index /\ m.dl \in Cell
    BY KnownFields
  <2>2. Place(m, i) = m.pointer + off
    BY <1>2, <2>1 DEF Place
  <2> QED  BY <2>1, <2>2, PutIsKnown
<1>4. Keeps(i, P, P, {})
  <2> HIDE DEF i, P
  <2> QED  BY <1>2, <1>3 DEF Keeps, Takes, TakesMemory, MemoryOps, CheckOps, OnTape
<1> QED  BY <1>1, <1>4

\* A counter that is known not to be 0 is loaded so.
LEMMA LoadDlFits ==
  ASSUME NEW B, "rsi" \in B, NEW O \in SUBSET Int, NEW D, NEW Z, NEW off \in O
  PROVE  Fits(<<LoadDl(off)>>, Known(B, O, D, Z),
              Known(B, O, IF off \in Z THEN Counts ELSE Cell, Z))
<1> DEFINE i == LoadDl(off)
           P == Known(B, O, D, Z)
           E == IF off \in Z THEN Counts ELSE Cell
           Q == Known(B, O, E, Z)
<1>1. i \in AnyInstruction
  BY DEF LoadDl, Instruction, AnyInstruction, Ops, MemoryOps
<1>2. i.op = "load_dl" /\ i.base = "rsi" /\ i.off = off
  BY DEF LoadDl, Instruction
<1>3. ASSUME NEW m \in P
      PROVE  /\ "rsi" \in m.bases /\ Place(m, i) \in Index
             /\ SetDl(m, m.tape[Place(m, i)]) \in Q
  <2>1. "rsi" \in m.bases /\ m.rcx = m.pointer /\ m.pointer + off \in Index
    BY KnownFields
  <2>2. Place(m, i) = m.pointer + off
    BY <1>2, <2>1 DEF Place
  <2> DEFINE v == m.tape[m.pointer + off]
  <2>3. v \in Cell /\ (off \in Z => v # 0)
    BY <2>1, KnownFields
  <2>4. v \in E
    BY <2>3 DEF Counts
  <2> HIDE DEF v, E
  <2>5. SetDl(m, v) \in Machine
    BY <2>3, KnownFields DEF Machine, State, SetDl
  <2>6. SetDl(m, v) \in Q
    BY <2>4, <2>5, KnownFields DEF Known, OnTape, State, SetDl
  <2> QED  BY <2>1, <2>2, <2>6 DEF v
<1>4. Keeps(i, P, Q, {})
  <2> HIDE DEF i, P, Q
  <2> QED  BY <1>2, <1>3 DEF Keeps, Takes, TakesMemory, MemoryOps, CheckOps, OnTape
<1>5. P \subseteq Machine /\ Q \subseteq Machine
  BY KnownMachine
<1> HIDE DEF i, P, Q
<1>6. Fits(<<i>>, P, Q)
  BY <1>1, <1>4, <1>5, FitsOne
<1> QED  BY <1>6 DEF i, P, Q

LEMMA AddProductKeeps ==
  ASSUME NEW O \in SUBSET Int, NEW off \in O, NEW f \in Int
  PROVE  /\ AddProduct(off, f) \in AnyInstruction
         /\ Keeps(AddProduct(off, f), Known({"rsi"}, O, Counts, {}),
                  Known({"rsi"}, O, Counts, {}), {})
<1> DEFINE i == AddProduct(off, f)
           P == Known({"rsi"}, O, Counts, {})
<1>1. i \in AnyInstruction
  BY DEF AddProduct, Instruction, AnyInstruction, Ops, MemoryOps
<1>2. i.op = "term" /\ i.base = "rsi" /\ i.off = off /\ i.val = f
  BY DEF AddProduct, Instruction
<1>3. ASSUME NEW m \in P
      PROVE  /\ "rsi" \in m.bases /\ Place(m, i) \in Index /\ m.dl \notin {Junk, 0}
             /\ PutAt(IF f \in {1, -1} THEN m ELSE Without(m, "rax"), Place(m, i),
                      Byte(m.tape[Place(m, i)] + m.dl * f)) \in P
  <2>1. /\ "rsi" \in m.bases /\ m.rcx = m.pointer /\ m.pointer + off \in Index
        /\ m.dl \in Cell /\ m.dl # 0
    BY KnownFields DEF Counts
  <2>2. Place(m, i) = m.pointer + off
    BY <1>2, <2>1 DEF Place
  <2>3. m.tape[m.pointer + off] \in Int /\ m.dl * f \in Int
    BY <2>1, KnownFields, CellCountAssumption DEF Cell
  <2> DEFINE v == Byte(m.tape[m.pointer + off] + m.dl * f)
             w == IF f \in {1, -1} THEN m ELSE Without(m, "rax")
  <2>4. v \in Cell
    <3>1. m.tape[m.pointer + off] + m.dl * f \in Int  BY <2>3
    <3> QED  BY <3>1, ByteIsCell
  <2>5. w \in P /\ w.pointer = m.pointer
    <3>1. Without(m, "rax") \in P /\ Without(m, "rax").pointer = m.pointer
      <4>1. Without(m, "rax") \in Machine  BY KnownFields DEF Machine, State, Without
      <4> QED  BY <4>1, KnownFields DEF Known, OnTape, State, Without
    <3> QED  BY <3>1
  <2> HIDE DEF v, w
  <2>6. PutAt(w, w.pointer + off, v) \in P
    BY <2>4, <2>5, PutIsKnown
  <2>7. m.dl \notin {Junk, 0}
    BY <2>1, CellCountAssumption DEF Junk, Cell
  <2> QED  BY <2>1, <2>2, <2>5, <2>6, <2>7 DEF v, w
<1>4. Keeps(i, P, P, {})
  <2> HIDE DEF i, P
  <2> QED  BY <1>2, <1>3 DEF Keeps, Takes, TakesMemory, MemoryOps, CheckOps, OnTape
<1> QED  BY <1>1, <1>4

\* A branch on a cell finds out whether it is 0.
LEMMA IfZeroKeeps ==
  ASSUME NEW B, NEW base \in {"rax", "rsi"}, base \in B, NEW O \in SUBSET Int, NEW D,
         NEW off \in O, NEW to \in Int
  PROVE  /\ IfZero(base, off, to) \in AnyInstruction /\ IfZero(base, off, to).to = to
         /\ Keeps(IfZero(base, off, to), Known(B, O, D, {}), Known(B, O, D, {off}), Machine)
<1> DEFINE i == IfZero(base, off, to)
           P == Known(B, O, D, {})
           Q == Known(B, O, D, {off})
<1>1. i \in AnyInstruction
  <2>1. CASE base = "rax"
    BY <2>1 DEF IfZero, Instruction, AnyInstruction, Ops, MemoryOps
  <2>2. CASE base = "rsi"
    BY <2>2 DEF IfZero, Instruction, AnyInstruction, Ops, MemoryOps
  <2> QED  BY <2>1, <2>2
<1>2. i.op = "jz" /\ i.base = base /\ i.off = off /\ i.to = to
  BY DEF IfZero, Instruction
<1>3. ASSUME NEW m \in P
      PROVE  /\ base \in m.bases /\ Place(m, i) \in Index /\ m \in Machine
             /\ m.tape[Place(m, i)] # 0 => m \in Q
  <2>1. base \in m.bases /\ m.rcx = m.pointer /\ m.pointer + off \in Index
    BY KnownFields
  <2>2. Place(m, i) = m.pointer + off
    BY <1>2, <2>1 DEF Place
  <2>3. m.tape[m.pointer + off] # 0 => m \in Q
    BY DEF Known
  <2> QED  BY <2>1, <2>2, <2>3, KnownFields
<1>4. Keeps(i, P, Q, Machine)
  <2> HIDE DEF i, P, Q
  <2> QED  BY <1>2, <1>3 DEF Keeps, Takes, TakesMemory, MemoryOps, CheckOps, OnTape
<1> QED  BY <1>1, <1>2, <1>4

LEMMA IfNonzeroKeeps ==
  ASSUME NEW B, NEW base \in {"rax", "rsi"}, base \in B, NEW O \in SUBSET Int, NEW D,
         NEW off \in O, NEW to \in Int
  PROVE  /\ IfNonzero(base, off, to) \in AnyInstruction /\ IfNonzero(base, off, to).to = to
         /\ Keeps(IfNonzero(base, off, to), Known(B, O, D, {}), Machine, Machine)
<1> DEFINE i == IfNonzero(base, off, to)
           P == Known(B, O, D, {})
<1>1. i \in AnyInstruction
  <2>1. CASE base = "rax"
    BY <2>1 DEF IfNonzero, Instruction, AnyInstruction, Ops, MemoryOps
  <2>2. CASE base = "rsi"
    BY <2>2 DEF IfNonzero, Instruction, AnyInstruction, Ops, MemoryOps
  <2> QED  BY <2>1, <2>2
<1>2. i.op = "jnz" /\ i.base = base /\ i.off = off /\ i.to = to
  BY DEF IfNonzero, Instruction
<1>3. ASSUME NEW m \in P
      PROVE  base \in m.bases /\ Place(m, i) \in Index /\ m \in Machine
  <2>1. base \in m.bases /\ m.rcx = m.pointer /\ m.pointer + off \in Index
    BY KnownFields
  <2>2. Place(m, i) = m.pointer + off
    BY <1>2, <2>1 DEF Place
  <2> QED  BY <2>1, <2>2, KnownFields
<1>4. Keeps(i, P, Machine, Machine)
  <2> HIDE DEF i, P
  <2> QED  BY <1>2, <1>3 DEF Keeps, Takes, TakesMemory, MemoryOps, CheckOps, OnTape
<1> QED  BY <1>1, <1>2, <1>4

LEMMA IfDlZeroKeeps ==
  ASSUME NEW B, NEW O, NEW to \in Int
  PROVE  /\ IfDlZero(to) \in AnyInstruction /\ IfDlZero(to).to = to
         /\ Keeps(IfDlZero(to), Known(B, O, Cell, {}), Known(B, O, Counts, {}), Machine)
<1> DEFINE i == IfDlZero(to)
           P == Known(B, O, Cell, {})
           Q == Known(B, O, Counts, {})
<1>1. i \in AnyInstruction
  BY DEF IfDlZero, Instruction, AnyInstruction, Ops
<1>2. i.op = "jz_dl" /\ i.to = to
  BY DEF IfDlZero, Instruction
<1>3. ASSUME NEW m \in P PROVE m \in Machine /\ (m.dl # 0 => m \in Q)
  BY DEF Known, Counts
<1>4. Keeps(i, P, Q, Machine)
  <2> HIDE DEF i, P, Q
  <2> QED  BY <1>2, <1>3 DEF Keeps, Takes, MemoryOps, CheckOps
<1> QED  BY <1>1, <1>2, <1>4

\* Calls leave nothing in the registers.
LEMMA CallReadFits ==
  ASSUME NEW O, NEW B, NEW D, NEW Z
  PROVE  Fits(<<CallRead>>, Known(B, O, D, Z), Known({}, O, Cell, {}))
<1> DEFINE i == CallRead
           P == Known(B, O, D, Z)
           Q == Known({}, O, Cell, {})
<1>1. i \in AnyInstruction
  BY DEF CallRead, Instruction, AnyInstruction, Ops
<1>2. i.op = "call_read"
  BY DEF CallRead, Instruction
<1>3. ASSUME NEW m \in P, NEW byte \in Cell PROVE Called(m, byte) \in Q
  <2>1. Called(m, byte) \in Machine
    BY KnownFields DEF Machine, State, Called
  <2> QED  BY <2>1, KnownFields DEF Known, OnTape, State, Called
<1>4. Keeps(i, P, Q, {})
  <2> HIDE DEF i, P, Q
  <2> QED  BY <1>2, <1>3 DEF Keeps, Takes, MemoryOps, CheckOps
<1>5. P \subseteq Machine /\ Q \subseteq Machine
  BY KnownMachine
<1> HIDE DEF i, P, Q
<1>6. Fits(<<i>>, P, Q)
  BY <1>1, <1>4, <1>5, FitsOne
<1> QED  BY <1>6 DEF i, P, Q

LEMMA CallWriteFits ==
  ASSUME NEW B, "rax" \in B, NEW O \in SUBSET Int, NEW D, NEW Z, NEW off \in O
  PROVE  Fits(<<CallWrite(off)>>, Known(B, O, D, Z), Machine)
<1> DEFINE i == CallWrite(off)
           P == Known(B, O, D, Z)
<1>1. i \in AnyInstruction
  BY DEF CallWrite, Instruction, AnyInstruction, Ops, MemoryOps
<1>2. i.op = "call_write" /\ i.base = "rax" /\ i.off = off
  BY DEF CallWrite, Instruction
<1>3. ASSUME NEW m \in P
      PROVE  "rax" \in m.bases /\ Place(m, i) \in Index /\ Called(m, Junk) \in Machine
  <2>1. "rax" \in m.bases /\ m.rcx = m.pointer /\ m.pointer + off \in Index
    BY KnownFields
  <2>2. Place(m, i) = m.pointer + off
    BY <1>2, <2>1 DEF Place
  <2>3. Called(m, Junk) \in Machine
    BY KnownFields DEF Machine, State, Called
  <2> QED  BY <2>1, <2>2, <2>3
<1>4. Keeps(i, P, Machine, {})
  <2> HIDE DEF i, P
  <2> QED  BY <1>2, <1>3 DEF Keeps, Takes, TakesMemory, MemoryOps, CheckOps, OnTape
<1>5. P \subseteq Machine
  BY KnownMachine
<1> HIDE DEF i, P
<1>6. Fits(<<i>>, P, Machine)
  BY <1>1, <1>4, <1>5, FitsOne
<1> QED  BY <1>6 DEF i, P

\* The pointer is moved, checked or as rcx, and stored.
LEMMA MovePtrFits ==
  ASSUME NEW delta \in Int
  PROVE  Fits(<<MovePtr(delta)>>, Machine, Machine)
<1> DEFINE i == MovePtr(delta)
<1>1. i \in AnyInstruction
  BY DEF MovePtr, Instruction, AnyInstruction, Ops, CheckOps
<1>2. i.op = "add_ptr" /\ i.off = delta /\ i.val = 1
  BY DEF MovePtr, Instruction
<1>3. ASSUME NEW m \in Machine, m.pointer + delta \in Index
      PROVE  SetPtr(Without(m, "rax"), m.pointer + delta) \in Machine
  BY <1>3, MachineFields DEF Machine, State, SetPtr, Without
<1>4. Keeps(i, Machine, Machine, {})
  <2> HIDE DEF i
  <2> QED  BY <1>2, <1>3 DEF Keeps, Takes, TakesCheck, MemoryOps, CheckOps, OnTape
<1> QED  BY <1>1, <1>4, FitsOne

\* The states with a scan's cell on the tape: rcx may move off, and comes back.
RcxOnTape == {m \in Machine : m.rcx \in Index}

LEMMA StorePtrType == StorePtr \in AnyInstruction
  BY DEF StorePtr, Instruction, AnyInstruction, Ops

LEMMA StorePtrFits == Fits(<<StorePtr>>, RcxOnTape, Machine)
<1>1. StorePtr \in AnyInstruction
  BY StorePtrType
<1>2. StorePtr.op = "store_ptr"
  BY DEF StorePtr, Instruction
<1>3. ASSUME NEW m \in RcxOnTape PROVE SetPtr(m, m.rcx) \in Machine
  <2>1. m \in Machine /\ m.rcx \in Index  BY DEF RcxOnTape
  <2> QED  BY <2>1, MachineFields DEF Machine, State, SetPtr
<1>4. Keeps(StorePtr, RcxOnTape, Machine, {})
  BY <1>2, <1>3 DEF Keeps, Takes, MemoryOps, CheckOps
<1>5. RcxOnTape \subseteq Machine
  BY DEF RcxOnTape
<1> QED  BY <1>1, <1>4, <1>5, FitsOne

LEMMA AddRcxFits ==
  ASSUME NEW B, B # {}, NEW O, NEW D, NEW Z, NEW delta \in O, delta \in Int
  PROVE  Fits(<<AddRcx(delta)>>, Known(B, O, D, Z), RcxOnTape)
<1> DEFINE i == AddRcx(delta)
           P == Known(B, O, D, Z)
<1>1. i \in AnyInstruction
  BY DEF AddRcx, Instruction, AnyInstruction, Ops
<1>2. i.op = "advance" /\ i.off = delta
  BY DEF AddRcx, Instruction
<1>3. ASSUME NEW m \in P PROVE SetRcx(m, Place(m, i)) \in RcxOnTape
  <2>1. m.rcx = m.pointer /\ m.pointer + delta \in Index
    BY KnownFields
  <2>2. Place(m, i) \in Index
    BY <1>2, <2>1 DEF Place
  <2>3. Place(m, i) \in Nat
    BY <2>2, TapeAssumption DEF Index
  <2> HIDE DEF i
  <2>4. SetRcx(m, Place(m, i)) \in Machine
    BY <2>3, KnownFields DEF Machine, State, SetRcx
  <2> QED  BY <2>2, <2>4 DEF RcxOnTape, State, SetRcx
<1>4. Keeps(i, P, RcxOnTape, {})
  <2> HIDE DEF i, P
  <2> QED  BY <1>2, <1>3 DEF Keeps, Takes, MemoryOps, CheckOps
<1>5. P \subseteq Machine /\ RcxOnTape \subseteq Machine
  BY KnownMachine DEF RcxOnTape
<1> HIDE DEF i, P
<1>6. Fits(<<i>>, P, RcxOnTape)
  BY <1>1, <1>4, <1>5, FitsOne
<1> QED  BY <1>6 DEF i, P
-----------------------------------------------------------------------------
(* Guards, loads and stores.                                               *)

\* The offsets a piece of code uses are on the tape after the guard for them.
LEMMA RangeGuardFits ==
  ASSUME NEW B \in SUBSET {"rsi"}, NEW O, NEW D \in SUBSET AnyDl, NEW Z,
         NEW scope, ~scope.active, NEW min \in Int, NEW max \in Int,
         NEW below \in 1 .. 9, NEW above \in 1 .. 9
  PROVE  Fits(RangeGuard(scope, min, max, below, above),
              Known(B, O, D, Z), Known(B, O \union (min .. max), D, Z))
<1> DEFINE lower == When(min < 0, <<Below(min, below)>>)
           upper == When(max > 0, <<Above(max, above)>>)
           P  == O \union (min .. 0)
           Q  == P \union (0 .. max)
<1>1. RangeGuard(scope, min, max, below, above) = lower \o upper
  BY DEF RangeGuard, Covers
<1>2. ASSUME NEW m \in Machine PROVE m.pointer + 0 \in Index
  <2>1. m.pointer \in Index  BY MachineFields
  <2>2. m.pointer + 0 = m.pointer  BY <2>1 DEF Index
  <2> QED  BY <2>1, <2>2
<1>3. Fits(lower, Known(B, O, D, Z), Known(B, P, D, Z))
  <2>1. CASE min < 0
    <3>1. lower = <<Below(min, below)>>  BY <2>1 DEF When
    <3>2. Fits(<<Below(min, below)>>, Known(B, O, D, Z), Known(B, P, D, Z))
      <4> HIDE DEF lower, upper
      <4> QED  BY <2>1, BelowFits
    <3> HIDE DEF lower
    <3> QED  BY <3>1, <3>2
  <2>2. CASE ~(min < 0)
    <3>1. lower = <<>>  BY <2>2 DEF When
    <3>2. Known(B, O, D, Z) \subseteq Known(B, P, D, Z)
      <4>1. \A d \in min .. 0 : d = 0  BY <2>2
      <4> QED  BY <1>2, <4>1 DEF Known, OnTape
    <3>3. Fits(<<>>, Known(B, O, D, Z), Known(B, O, D, Z))  BY KnownMachine, FitsNothing
    <3>4. Known(B, O, D, Z) \subseteq Known(B, O, D, Z)  OBVIOUS
    <3> HIDE DEF lower, P
    <3> QED  BY <3>1, <3>2, <3>3, <3>4, FitsWeaker
  <2> QED  BY <2>1, <2>2
<1>4. Fits(upper, Known(B, P, D, Z), Known(B, Q, D, Z))
  <2> HIDE DEF P
  <2>1. CASE max > 0
    <3>1. upper = <<Above(max, above)>>  BY <2>1 DEF When
    <3>2. Fits(<<Above(max, above)>>, Known(B, P, D, Z), Known(B, Q, D, Z))
      <4> HIDE DEF lower, upper
      <4> QED  BY <2>1, AboveFits
    <3> HIDE DEF upper, Q
    <3> QED  BY <3>1, <3>2
  <2>2. CASE ~(max > 0)
    <3>1. upper = <<>>  BY <2>2 DEF When
    <3>2. Known(B, P, D, Z) \subseteq Known(B, Q, D, Z)
      <4>1. \A d \in 0 .. max : d = 0  BY <2>2
      <4> QED  BY <1>2, <4>1 DEF Known, OnTape
    <3>3. Fits(<<>>, Known(B, P, D, Z), Known(B, P, D, Z))  BY KnownMachine, FitsNothing
    <3>4. Known(B, P, D, Z) \subseteq Known(B, P, D, Z)  OBVIOUS
    <3> HIDE DEF upper, Q
    <3> QED  BY <3>1, <3>2, <3>3, <3>4, FitsWeaker
  <2> QED  BY <2>1, <2>2
<1>5. Known(B, Q, D, Z) \subseteq Known(B, O \union (min .. max), D, Z)
  <2>1. O \union (min .. max) \subseteq Q  OBVIOUS
  <2> HIDE DEF Q
  <2> QED  BY <2>1 DEF Known
<1> HIDE DEF lower, upper, Q, P
<1>6. Fits(lower \o upper, Known(B, O, D, Z), Known(B, Q, D, Z))
  BY <1>3, <1>4, FitsThen
<1>7. Known(B, O, D, Z) \subseteq Known(B, O, D, Z)  OBVIOUS
<1> QED  BY <1>1, <1>5, <1>6, <1>7, FitsWeaker

-----------------------------------------------------------------------------
(* Scans.                                                                  *)

\* rcx is what the scan has come to, and the cells at the offsets D from it are on
\* the tape.
Scanning(D) == {m \in Machine : /\ "rsi" \in m.bases /\ m.rcx \in Nat
                                /\ \A d \in D : OnTape(m.rcx + d)}

LEMMA ScanningFields ==
  ASSUME NEW D, NEW m \in Scanning(D)
  PROVE  /\ m \in Machine
         /\ m.tape \in [Index -> Cell] /\ m.pointer \in Index
         /\ m.bases \in SUBSET {"rax", "rsi"} /\ "rsi" \in m.bases
         /\ m.rcx \in Nat /\ m.dl \in {Junk} \union Cell
         /\ \A d \in D : m.rcx + d \in Index
  BY MachineFields DEF Scanning, OnTape

LEMMA ScanStarts ==
  Fits(<<Load("rsi")>>, Machine, Scanning({0}))
<1>1. Machine = Known({}, {}, AnyDl, {}) 
  BY KnownAll
<1>2. Fits(<<Load("rsi")>>, Known({}, {}, AnyDl, {}), Known({} \union {"rsi"}, {}, AnyDl, {}))
  BY LoadFits
<1>3. Known({} \union {"rsi"}, {}, AnyDl, {}) \subseteq Scanning({0})
  <2> SUFFICES ASSUME NEW m \in Known({"rsi"}, {}, AnyDl, {}) PROVE m \in Scanning({0})
    OBVIOUS
  <2>1. m \in Machine /\ "rsi" \in m.bases /\ m.rcx = m.pointer /\ m.pointer \in Index
    BY KnownFields
  <2>2. m.rcx \in Nat /\ m.rcx + 0 \in Index
    BY <2>1, TapeAssumption DEF Index
  <2> QED  BY <2>1, <2>2 DEF Scanning, OnTape
<1>4. Machine \subseteq Machine  OBVIOUS
<1> QED  BY <1>1, <1>2, <1>3, <1>4, FitsWeaker

LEMMA ScanTestKeeps ==
  ASSUME NEW D \in SUBSET Int, NEW off \in D, NEW to \in Int
  PROVE  /\ IfZero("rsi", off, to) \in AnyInstruction /\ IfZero("rsi", off, to).to = to
         /\ Keeps(IfZero("rsi", off, to), Scanning(D), Scanning(D), Scanning(D))
         /\ IfNonzero("rsi", off, to) \in AnyInstruction /\ IfNonzero("rsi", off, to).to = to
         /\ Keeps(IfNonzero("rsi", off, to), Scanning(D), Scanning(D), Scanning(D))
<1> DEFINE i == IfZero("rsi", off, to)
           k == IfNonzero("rsi", off, to)
<1>1. i \in AnyInstruction /\ k \in AnyInstruction
  BY DEF IfZero, IfNonzero, Instruction, AnyInstruction, Ops, MemoryOps
<1>2. /\ i.op = "jz" /\ i.base = "rsi" /\ i.off = off /\ i.to = to
      /\ k.op = "jnz" /\ k.base = "rsi" /\ k.off = off /\ k.to = to
  BY DEF IfZero, IfNonzero, Instruction
<1> HIDE DEF i, k
<1>3. ASSUME NEW m \in Scanning(D)
      PROVE  "rsi" \in m.bases /\ Place(m, i) \in Index /\ Place(m, k) \in Index
  BY <1>2, ScanningFields DEF Place
<1>4. Keeps(i, Scanning(D), Scanning(D), Scanning(D))
  BY <1>2, <1>3 DEF Keeps, Takes, TakesMemory, MemoryOps, CheckOps, OnTape
<1>5. Keeps(k, Scanning(D), Scanning(D), Scanning(D))
  BY <1>2, <1>3 DEF Keeps, Takes, TakesMemory, MemoryOps, CheckOps, OnTape
<1> QED  BY <1>1, <1>2, <1>4, <1>5 DEF i, k

\* rcx is moved to a cell on the tape, or further, where it is yet to be checked.
LEMMA ScanAdvances ==
  ASSUME NEW D \in SUBSET Int, NEW delta \in Int
  PROVE  /\ AddRcx(delta) \in AnyInstruction
         /\ delta \in D => Keeps(AddRcx(delta), Scanning(D), Scanning({0}), {})
         /\ delta \in Nat => Keeps(AddRcx(delta), Scanning(D), Scanning({}), {})
<1> DEFINE i == AddRcx(delta)
<1>1. i \in AnyInstruction
  BY DEF AddRcx, Instruction, AnyInstruction, Ops
<1>2. i.op = "advance" /\ i.off = delta
  BY DEF AddRcx, Instruction
<1> HIDE DEF i
<1>3. ASSUME NEW m \in Scanning(D)
      PROVE  /\ delta \in D => SetRcx(m, Place(m, i)) \in Scanning({0})
             /\ delta \in Nat => SetRcx(m, Place(m, i)) \in Scanning({})
  <2> DEFINE k == Place(m, i)
  <2>1. k = m.rcx + delta
    BY <1>2 DEF Place
  <2> HIDE DEF k
  <2>2. ASSUME k \in Nat
        PROVE  SetRcx(m, k) \in Machine /\ SetRcx(m, k).rcx = k /\ "rsi" \in SetRcx(m, k).bases
    BY <2>2, ScanningFields DEF Machine, State, SetRcx
  <2>3. ASSUME delta \in D PROVE SetRcx(m, k) \in Scanning({0})
    <3>1. k \in Index  BY <2>1, <2>3, ScanningFields
    <3>2. k \in Nat /\ k + 0 = k  BY <3>1, TapeAssumption DEF Index
    <3> QED  BY <2>2, <3>1, <3>2 DEF Scanning, OnTape
  <2>4. ASSUME delta \in Nat PROVE SetRcx(m, k) \in Scanning({})
    <3>1. k \in Nat  BY <2>1, <2>4, ScanningFields
    <3> QED  BY <2>2, <3>1 DEF Scanning
  <2> QED  BY <2>3, <2>4 DEF k
<1>4. delta \in D => Keeps(i, Scanning(D), Scanning({0}), {})
  BY <1>2, <1>3 DEF Keeps, Takes, MemoryOps, CheckOps
<1>5. delta \in Nat => Keeps(i, Scanning(D), Scanning({}), {})
  BY <1>2, <1>3 DEF Keeps, Takes, MemoryOps, CheckOps
<1> QED  BY <1>1, <1>4, <1>5 DEF i

LEMMA ScanChecks ==
  ASSUME NEW D, NEW reason \in 1 .. 9
  PROVE  /\ CheckRcx(reason) \in AnyInstruction
         /\ Keeps(CheckRcx(reason), Scanning(D), Scanning({0}), {})
<1> DEFINE i == CheckRcx(reason)
<1>1. i \in AnyInstruction
  BY DEF CheckRcx, Instruction, AnyInstruction, Ops, CheckOps
<1>2. i.op = "check_rcx" /\ i.val = reason
  BY DEF CheckRcx, Instruction
<1> HIDE DEF i
<1>3. ASSUME NEW m \in Scanning(D), m.rcx \in Index PROVE m \in Scanning({0})
  <2>1. m.rcx + 0 = m.rcx  BY ScanningFields
  <2> QED  BY <1>3, <2>1, ScanningFields DEF Scanning, OnTape
<1>4. Keeps(i, Scanning(D), Scanning({0}), {})
  BY <1>2, <1>3 DEF Keeps, Takes, TakesCheck, MemoryOps, CheckOps, OnTape
<1> QED  BY <1>1, <1>4 DEF i

LEMMA ScanChecksBack ==
  ASSUME NEW delta \in Nat, NEW reason \in 1 .. 9
  PROVE  /\ CheckBack(delta, reason) \in AnyInstruction
         /\ Keeps(CheckBack(delta, reason), Scanning({0}), Scanning({-delta}), {})
<1> DEFINE i == CheckBack(delta, reason)
<1>1. i \in AnyInstruction
  BY DEF CheckBack, Instruction, AnyInstruction, Ops, CheckOps
<1>2. i.op = "check_back" /\ i.val = reason /\ i.off = delta
  BY DEF CheckBack, Instruction
<1> HIDE DEF i
<1>3. ASSUME NEW m \in Scanning({0}), m.rcx >= delta PROVE m \in Scanning({-delta})
  <2>0. m.rcx \in Nat /\ m.rcx + 0 \in Index
    BY ScanningFields
  <2>1. m.rcx + (-delta) \in Index
    BY <1>3, <2>0, TapeAssumption DEF Index
  <2> QED  BY <2>1, ScanningFields DEF Scanning, OnTape
<1>4. Keeps(i, Scanning({0}), Scanning({-delta}), {})
  BY <1>2, <1>3 DEF Keeps, Takes, TakesCheck, MemoryOps, CheckOps
<1> QED  BY <1>1, <1>4 DEF i

LEMMA ScanTriesAdvance ==
  ASSUME NEW D, NEW delta \in Int, NEW reason \in 1 .. 9
  PROVE  /\ TryAddRcx(delta, reason) \in AnyInstruction
         /\ Keeps(TryAddRcx(delta, reason), Scanning(D), Scanning({0}), {})
<1> DEFINE i == TryAddRcx(delta, reason)
<1>1. i \in AnyInstruction
  BY DEF TryAddRcx, Instruction, AnyInstruction, Ops, CheckOps
<1>2. i.op = "try_advance" /\ i.val = reason
  BY DEF TryAddRcx, Instruction
<1> HIDE DEF i
<1>3. ASSUME NEW m \in Scanning(D), NEW k \in Index
      PROVE  SetRcx(Without(m, "rax"), k) \in Scanning({0})
  <2>1. k \in Nat /\ k + 0 = k  BY TapeAssumption DEF Index
  <2>2. SetRcx(Without(m, "rax"), k) \in Machine
    BY <2>1, ScanningFields DEF Machine, State, SetRcx, Without
  <2> QED  BY <2>1, <2>2, ScanningFields DEF Scanning, OnTape, State, SetRcx, Without
<1>4. Keeps(i, Scanning(D), Scanning({0}), {})
  BY <1>2, <1>3 DEF Keeps, Takes, TakesCheck, MemoryOps, CheckOps, OnTape
<1> QED  BY <1>1, <1>4 DEF i

\* The two branches of a scan's loop.
LEMMA ScanBranches ==
  LET i == IfZero("rsi", 0, 4)
      k == IfNonzero("rsi", 0, -2)
      S == Scanning({0})
  IN  /\ i \in AnyInstruction /\ i.to = 4 /\ Keeps(i, S, S, S)
      /\ k \in AnyInstruction /\ k.to = -2 /\ Keeps(k, S, S, S)
<1> DEFINE i == IfZero("rsi", 0, 4)
           k == IfNonzero("rsi", 0, -2)
           S == Scanning({0})
<1>1. {0} \in SUBSET Int /\ 0 \in {0} /\ 4 \in Int
  OBVIOUS
<1>2. i \in AnyInstruction /\ i.to = 4 /\ Keeps(i, S, S, S)
  BY <1>1, ScanTestKeeps
<1>3. k \in AnyInstruction /\ k.to = -2 /\ Keeps(k, S, S, S)
  <2> DEFINE t == -2
  <2>1. t \in Int  OBVIOUS
  <2> HIDE DEF t
  <2>2. /\ IfNonzero("rsi", 0, t) \in AnyInstruction /\ IfNonzero("rsi", 0, t).to = t
        /\ Keeps(IfNonzero("rsi", 0, t), S, S, S)
    BY <1>1, <2>1, ScanTestKeeps
  <2> QED  BY <2>2 DEF t
<1> QED  BY <1>2, <1>3

\* The loop of a scan, whose step are the instructions a and b.
LEMMA ScanLoopFits ==
  ASSUME NEW a \in AnyInstruction, NEW b \in AnyInstruction, NEW M, M \subseteq Machine,
         Keeps(a, Scanning({0}), M, {}), Keeps(b, M, Scanning({0}), {})
  PROVE  Fits(<<IfZero("rsi", 0, 4), a, b, IfNonzero("rsi", 0, -2), StorePtr>>,
              Scanning({0}), Machine)
<1> DEFINE i == IfZero("rsi", 0, 4)
           k == IfNonzero("rsi", 0, -2)
           c == <<i, a, b, k, StorePtr>>
           S == Scanning({0})
           known == [j \in Int |-> IF j \in {1, 2, 4, 5} THEN S ELSE IF j = 3 THEN M
                                   ELSE IF j = 6 THEN Machine ELSE {}]
<1>1. /\ i \in AnyInstruction /\ i.to = 4 /\ Keeps(i, S, S, S)
      /\ k \in AnyInstruction /\ k.to = -2 /\ Keeps(k, S, S, S)
  BY ScanBranches
<1>2. StorePtr \in AnyInstruction /\ Keeps(StorePtr, S, Machine, {})
  <2>1. StorePtr \in AnyInstruction
    BY StorePtrType
  <2>2. StorePtr.op = "store_ptr"
    BY DEF StorePtr, Instruction
  <2>3. ASSUME NEW m \in S PROVE SetPtr(m, m.rcx) \in Machine
    <3>1. m.rcx \in Nat /\ m.rcx + 0 \in Index  BY ScanningFields
    <3>2. m.rcx \in Index  BY <3>1
    <3> QED  BY <3>2, ScanningFields DEF Machine, State, SetPtr
  <2> HIDE DEF S
  <2>4. Keeps(StorePtr, S, Machine, {})
    BY <2>2, <2>3 DEF Keeps, Takes, MemoryOps, CheckOps
  <2> QED  BY <2>1, <2>4
<1>3. S \subseteq Machine /\ Keeps(a, S, M, {}) /\ Keeps(b, M, S, {})
  BY DEF Scanning
<1> HIDE DEF i, k, S
<1>4. /\ c \in Seq(AnyInstruction) /\ Len(c) = 5
      /\ c[1] = i /\ c[2] = a /\ c[3] = b /\ c[4] = k /\ c[5] = StorePtr
  BY <1>1, <1>2
<1>5. /\ known \in [Int -> SUBSET Machine]
      /\ known[1] = S /\ known[2] = S /\ known[3] = M /\ known[4] = S /\ known[5] = S
      /\ known[6] = Machine
      /\ \A j \in Int : j \notin 1 .. 6 => known[j] = {}
  BY <1>3
<1> HIDE DEF c, known
<1>6. ASSUME NEW x \in AnyInstruction, NEW y \in Int
      PROVE  known[y + x.to] \in SUBSET Machine
  <2>1. x.to \in Int  BY DEF AnyInstruction
  <2>2. y + x.to \in Int  BY <2>1
  <2> QED  BY <1>5, <2>2
<1>7. Keeps(c[1], known[1], known[1 + 1], known[1 + c[1].to])
  BY <1>1, <1>4, <1>5
<1>8. Keeps(c[2], known[2], known[2 + 1], known[2 + c[2].to])
  <2>1. {} \subseteq known[2 + c[2].to]  OBVIOUS
  <2> QED  BY <1>3, <1>4, <1>5, <2>1, KeepsMonotone
<1>9. Keeps(c[3], known[3], known[3 + 1], known[3 + c[3].to])
  <2>1. {} \subseteq known[3 + c[3].to]  OBVIOUS
  <2> QED  BY <1>3, <1>4, <1>5, <2>1, KeepsMonotone
<1>10. Keeps(c[4], known[4], known[4 + 1], known[4 + c[4].to])
  <2>1. 4 + (-2) = 2 /\ 4 + 1 = 5  OBVIOUS
  <2> QED  BY <1>1, <1>4, <1>5, <2>1
<1>11. Keeps(c[5], known[5], known[5 + 1], known[5 + c[5].to])
  <2>1. {} \subseteq known[5 + c[5].to]  OBVIOUS
  <2> QED  BY <1>2, <1>4, <1>5, <2>1, KeepsMonotone
<1>12. \A j \in 1 .. Len(c) : Keeps(c[j], known[j], known[j + 1], known[j + c[j].to])
  <2> SUFFICES ASSUME NEW j \in 1 .. 5
               PROVE  Keeps(c[j], known[j], known[j + 1], known[j + c[j].to])
    BY <1>4
  <2>1. j = 1 \/ j = 2 \/ j = 3 \/ j = 4 \/ j = 5  OBVIOUS
  <2> QED  BY <2>1, <1>7, <1>8, <1>9, <1>10, <1>11
<1>13. Valid(c, known)
  BY <1>4, <1>5, <1>12 DEF Valid, Code!Valid
<1>14. Len(c) + 1 = 6 /\ S \subseteq known[1] /\ known[6] \subseteq Machine
  BY <1>4, <1>5
<1> QED  BY <1>4, <1>13, <1>14 DEF Valid, Fits, Code!Fits, c, i, k, S

\* The step of a scan by step: it moves up and then looks whether it is still on the
\* tape, or looks before it moves down.
ScanStep(step) == IF step > 0 THEN <<AddRcx(step), CheckRcx(3)>>
                  ELSE <<CheckBack(-step, 3), AddRcx(step)>>

LEMMA ScanCoreFits ==
  ASSUME NEW step \in Int
  PROVE  Fits((<<IfZero("rsi", 0, 4)>> \o ScanStep(step)) \o <<IfNonzero("rsi", 0, -2), StorePtr>>,
              Scanning({0}), Machine)
<1>1. PICK a \in AnyInstruction, b \in AnyInstruction, M \in SUBSET Machine :
        /\ ScanStep(step) = <<a, b>>
        /\ Keeps(a, Scanning({0}), M, {}) /\ Keeps(b, M, Scanning({0}), {})
  <2>0. {0} \in SUBSET Int /\ Scanning({}) \in SUBSET Machine /\ 3 \in 1 .. 9
    BY DEF Scanning
  <2>1. CASE step > 0
    <3>1. ScanStep(step) = <<AddRcx(step), CheckRcx(3)>>  BY <2>1 DEF ScanStep
    <3>2. step \in Nat  BY <2>1
    <3>3. AddRcx(step) \in AnyInstruction /\ Keeps(AddRcx(step), Scanning({0}), Scanning({}), {})
      BY <2>0, <3>2, ScanAdvances
    <3>4. CheckRcx(3) \in AnyInstruction /\ Keeps(CheckRcx(3), Scanning({}), Scanning({0}), {})
      BY <2>0, ScanChecks
    <3> QED  BY <2>0, <3>1, <3>3, <3>4
  <2>2. CASE ~(step > 0)
    <3>1. ScanStep(step) = <<CheckBack(-step, 3), AddRcx(step)>>  BY <2>2 DEF ScanStep
    <3> DEFINE d == -step
    <3>2. d \in Nat /\ -d = step  BY <2>2
    <3> HIDE DEF d
    <3>3. /\ CheckBack(d, 3) \in AnyInstruction
          /\ Keeps(CheckBack(d, 3), Scanning({0}), Scanning({-d}), {})
      BY <2>0, <3>2, ScanChecksBack
    <3>4. {step} \in SUBSET Int /\ step \in {step} /\ Scanning({step}) \in SUBSET Machine
      BY DEF Scanning
    <3>5. /\ AddRcx(step) \in AnyInstruction
          /\ Keeps(AddRcx(step), Scanning({step}), Scanning({0}), {})
      BY <3>4, ScanAdvances
    <3>6. /\ CheckBack(-step, 3) \in AnyInstruction
          /\ Keeps(CheckBack(-step, 3), Scanning({0}), Scanning({step}), {})
      BY <3>2, <3>3 DEF d
    <3> QED  BY <3>1, <3>4, <3>5, <3>6
  <2> QED  BY <2>1, <2>2
<1> DEFINE i == IfZero("rsi", 0, 4)
           k == IfNonzero("rsi", 0, -2)
<1>2. i \in AnyInstruction /\ k \in AnyInstruction
  BY ScanBranches
<1>3. Fits(<<i, a, b, k, StorePtr>>, Scanning({0}), Machine)
  BY <1>1, ScanLoopFits
<1> HIDE DEF i, k
<1>4. (<<i>> \o <<a, b>>) \o <<k, StorePtr>> = <<i, a, b, k, StorePtr>>
  BY <1>2, StorePtrType, FiveTuple
<1> QED  BY <1>1, <1>3, <1>4 DEF i, k

LEMMA ScanFits ==
  ASSUME NEW step \in Int, NEW off \in Int
  PROVE  Fits(EmitScan(step, off), Machine, Machine)
<1> DEFINE S == Scanning({0})
           W == <<Load("rsi")>>
           X == When(off > 0, <<TryAddRcx(off, 1)>>)
           Y == When(off < 0, <<CheckBack(-off, 1), AddRcx(off)>>)
           Z == <<IfZero("rsi", 0, 4)>>
           M == ScanStep(step)
           E == <<IfNonzero("rsi", 0, -2), StorePtr>>
<1>1. EmitScan(step, off) = W \o X \o Y \o Z \o M \o E
  BY DEF EmitScan, ScanStep
<1>2. Fits(W, Machine, S)
  BY ScanStarts
<1>3. S \subseteq Machine
  BY DEF Scanning
<1>4. Fits(<<>>, S, S)
  BY <1>3, FitsNothing
<1>5. Fits(X, S, S)
  <2>1. CASE off > 0
    <3>1. X = <<TryAddRcx(off, 1)>>  BY <2>1 DEF When
    <3>2. 1 \in 1 .. 9  OBVIOUS
    <3>3. TryAddRcx(off, 1) \in AnyInstruction /\ Keeps(TryAddRcx(off, 1), S, S, {})
      BY <3>2, ScanTriesAdvance
    <3> HIDE DEF S, X
    <3> QED  BY <1>3, <3>1, <3>3, FitsOne
  <2>2. CASE ~(off > 0)
    <3>1. X = <<>>  BY <2>2 DEF When
    <3> QED  BY <1>4, <3>1
  <2> QED  BY <2>1, <2>2
<1>6. Fits(Y, S, S)
  <2>1. CASE off < 0
    <3> DEFINE d == -off
               T == Scanning({off})
    <3>1. d \in Nat /\ -d = off /\ 1 \in 1 .. 9  BY <2>1
    <3>2. T \subseteq Machine  BY DEF Scanning
    <3>3. {off} \in SUBSET Int /\ off \in {off}  OBVIOUS
    <3> HIDE DEF d
    <3>4. CheckBack(d, 1) \in AnyInstruction /\ Keeps(CheckBack(d, 1), S, T, {})
      BY <3>1, ScanChecksBack
    <3>5. AddRcx(off) \in AnyInstruction /\ Keeps(AddRcx(off), T, S, {})
      BY <3>3, ScanAdvances
    <3>6. Y = <<CheckBack(d, 1), AddRcx(off)>>  BY <2>1 DEF When, d
    <3> HIDE DEF S, T, Y
    <3>7. Fits(<<CheckBack(d, 1)>>, S, T)  BY <1>3, <3>2, <3>4, FitsOne
    <3>8. Fits(<<AddRcx(off)>>, T, S)  BY <1>3, <3>2, <3>5, FitsOne
    <3>9. Y = <<CheckBack(d, 1)>> \o <<AddRcx(off)>>  BY <3>4, <3>5, <3>6, Tuples
    <3> QED  BY <3>7, <3>8, <3>9, FitsThen
  <2>2. CASE ~(off < 0)
    <3>1. Y = <<>>  BY <2>2 DEF When
    <3> QED  BY <1>4, <3>1
  <2> QED  BY <2>1, <2>2
<1>7. Fits((Z \o M) \o E, S, Machine)
  BY ScanCoreFits
<1>8. Z \in Seq(AnyInstruction) /\ M \in Seq(AnyInstruction) /\ E \in Seq(AnyInstruction)
  <2> DEFINE i == IfZero("rsi", 0, 4)
             k == IfNonzero("rsi", 0, -2)
  <2>1. i \in AnyInstruction /\ k \in AnyInstruction
    BY ScanBranches
  <2> HIDE DEF i, k
  <2>2. <<i>> \in Seq(AnyInstruction) /\ <<k, StorePtr>> \in Seq(AnyInstruction)
    BY <2>1, StorePtrType
  <2>3. M \in Seq(AnyInstruction)
    <3>1. 3 \in 1 .. 9 /\ {} \in SUBSET Int  OBVIOUS
    <3>2. AddRcx(step) \in AnyInstruction /\ CheckRcx(3) \in AnyInstruction
      BY <3>1, ScanAdvances, ScanChecks
    <3>3. ASSUME ~(step > 0) PROVE CheckBack(-step, 3) \in AnyInstruction
      <4> DEFINE d == -step
      <4>1. d \in Nat  BY <3>3
      <4> HIDE DEF d
      <4>2. CheckBack(d, 3) \in AnyInstruction  BY <3>1, <4>1, ScanChecksBack
      <4> QED  BY <4>2 DEF d
    <3> QED  BY <3>2, <3>3 DEF ScanStep
  <2> QED  BY <2>2, <2>3 DEF i, k
<1> HIDE DEF S, W, X, Y, Z, M, E
<1> DEFINE F == W \o X \o Y
<1>9. Fits(F, Machine, S)
  <2>1. Fits(W \o X, Machine, S)  BY <1>2, <1>5, FitsThen
  <2> QED  BY <1>6, <2>1, FitsThen
<1> HIDE DEF F
<1>10. Fits(F \o ((Z \o M) \o E), Machine, Machine)
  BY <1>7, <1>9, FitsThen
<1>11. F \o ((Z \o M) \o E) = F \o Z \o M \o E
  <2>1. F \in Seq(AnyInstruction)  BY <1>9, FitsIsCode
  <2>2. Z \o M \in Seq(AnyInstruction)  BY <1>8
  <2>3. (F \o Z) \o M = F \o (Z \o M)  BY <1>8, <2>1, Associative
  <2>4. (F \o (Z \o M)) \o E = F \o ((Z \o M) \o E)  BY <1>8, <2>1, <2>2, Associative
  <2> QED  BY <2>3, <2>4
<1> QED  BY <1>1, <1>10, <1>11 DEF F

LEMMA JumpKeeps ==
  ASSUME NEW P, NEW to \in Int
  PROVE  /\ Jump(to) \in AnyInstruction /\ Jump(to).to = to
         /\ Keeps(Jump(to), P, {}, P)
<1> DEFINE i == Jump(to)
<1>1. i \in AnyInstruction
  BY DEF Jump, Instruction, AnyInstruction, Ops
<1>2. i.op = "jump" /\ i.to = to
  BY DEF Jump, Instruction
<1> HIDE DEF i
<1>3. Keeps(i, P, {}, P)
  BY <1>2 DEF Keeps, Takes, MemoryOps, CheckOps
<1> QED  BY <1>1, <1>2, <1>3 DEF i

\* The cells of four strides are on the tape, or the scan goes on one by one.
LEMMA AdvanceOutKeeps ==
  ASSUME NEW delta \in Nat, NEW to \in Int
  PROVE  /\ IfAdvanceOut(delta, to) \in AnyInstruction /\ IfAdvanceOut(delta, to).to = to
         /\ Keeps(IfAdvanceOut(delta, to), Scanning({0}), Scanning(0 .. delta), Scanning({0}))
<1> DEFINE i == IfAdvanceOut(delta, to)
<1>1. i \in AnyInstruction
  BY DEF IfAdvanceOut, Instruction, AnyInstruction, Ops
<1>2. i.op = "advance_out" /\ i.off = delta /\ i.to = to
  BY DEF IfAdvanceOut, Instruction
<1> HIDE DEF i
<1>3. ASSUME NEW m \in Scanning({0})
      PROVE  /\ Without(m, "rax") \in Scanning({0})
             /\ Place(m, i) \in Index => Without(m, "rax") \in Scanning(0 .. delta)
  <2> DEFINE w == Without(m, "rax")
  <2>1. w \in Machine /\ "rsi" \in w.bases /\ w.rcx = m.rcx
    BY ScanningFields DEF Machine, State, Without
  <2>2. m.rcx \in Nat /\ m.rcx + 0 \in Index
    BY ScanningFields
  <2> HIDE DEF w
  <2>3. w \in Scanning({0})
    BY <2>1, <2>2 DEF Scanning, OnTape
  <2>4. ASSUME Place(m, i) \in Index PROVE w \in Scanning(0 .. delta)
    <3>1. m.rcx + delta \in Index  BY <1>2, <2>4 DEF Place
    <3>2. \A d \in 0 .. delta : m.rcx + d \in Index
      BY <2>2, <3>1, TapeAssumption DEF Index
    <3> QED  BY <2>1, <2>2, <3>2 DEF Scanning, OnTape
  <2> QED  BY <2>3, <2>4 DEF w
<1>4. Keeps(i, Scanning({0}), Scanning(0 .. delta), Scanning({0}))
  BY <1>2, <1>3 DEF Keeps, Takes, MemoryOps, CheckOps, OnTape
<1> QED  BY <1>1, <1>2, <1>4 DEF i

LEMMA Scan4Fits == Fits(EmitScan4, Machine, Machine)
<1> DEFINE c == EmitScan4
           S == Scanning({0})
           L == Scanning({})
           F == Scanning(0 .. 12)
           known == [j \in Int |->
                       IF j \in {1, 18} THEN Machine
                       ELSE IF j \in {2, 9, 11} THEN L
                       ELSE IF j \in {3, 4, 10, 13, 15, 17} THEN S
                       ELSE IF j \in {5, 6, 7, 8, 12, 14, 16} THEN F ELSE {}]
<1>1. /\ S \subseteq Machine /\ L \subseteq Machine /\ F \subseteq Machine
      /\ S \subseteq L /\ F \subseteq L
  BY DEF Scanning
<1>2. {0} \in SUBSET Int /\ {} \in SUBSET Int /\ 0 .. 12 \in SUBSET Int /\ 3 \in 1 .. 9
  OBVIOUS
\* The instructions.
<1>3. Load("rsi") \in AnyInstruction /\ Keeps(Load("rsi"), Machine, S, {})
  <2>1. Load("rsi") \in AnyInstruction
    BY DEF Load, Instruction, AnyInstruction, Ops
  <2>2. Load("rsi").op = "load" /\ Load("rsi").base = "rsi"
    BY DEF Load, Instruction
  <2>3. ASSUME NEW m \in Machine PROVE Loaded(m, "rsi") \in S
    <3>1. m.pointer \in Index /\ m.pointer \in Nat /\ m.pointer + 0 = m.pointer
      BY MachineFields, TapeAssumption DEF Index
    <3>2. Loaded(m, "rsi") \in Machine
      BY <3>1, MachineFields DEF Machine, State, Loaded
    <3> QED  BY <3>1, <3>2 DEF Scanning, OnTape, State, Loaded
  <2> HIDE DEF S
  <2>4. Keeps(Load("rsi"), Machine, S, {})
    BY <2>2, <2>3 DEF Keeps, Takes, MemoryOps, CheckOps
  <2> QED  BY <2>1, <2>4
<1>4. CheckRcx(3) \in AnyInstruction /\ Keeps(CheckRcx(3), L, S, {})
  BY <1>2, ScanChecks
<1>5. /\ IfZero("rsi", 0, 14) \in AnyInstruction /\ IfZero("rsi", 0, 14).to = 14
      /\ Keeps(IfZero("rsi", 0, 14), S, S, S)
  <2>1. 0 \in {0} /\ 14 \in Int  OBVIOUS
  <2> QED  BY <1>2, <2>1, ScanTestKeeps
<1>6. /\ IfAdvanceOut(12, 6) \in AnyInstruction /\ IfAdvanceOut(12, 6).to = 6
      /\ Keeps(IfAdvanceOut(12, 6), S, F, S)
  <2>1. 12 \in Nat /\ 6 \in Int  OBVIOUS
  <2> QED  BY <2>1, AdvanceOutKeeps
<1>7. ASSUME NEW off \in 0 .. 12, NEW to \in Int
      PROVE  /\ IfZero("rsi", off, to) \in AnyInstruction /\ IfZero("rsi", off, to).to = to
             /\ Keeps(IfZero("rsi", off, to), F, F, F)
  BY <1>2, ScanTestKeeps
<1>8. ASSUME NEW delta \in 0 .. 12
      PROVE  AddRcx(delta) \in AnyInstruction /\ Keeps(AddRcx(delta), F, S, {})
  BY <1>2, ScanAdvances
<1>9. AddRcx(16) \in AnyInstruction /\ Keeps(AddRcx(16), F, L, {})
  <2>1. 16 \in Nat /\ 16 \in Int  OBVIOUS
  <2> QED  BY <1>2, <2>1, ScanAdvances
<1>10. AddRcx(4) \in AnyInstruction /\ Keeps(AddRcx(4), S, L, {})
  <2>1. 4 \in Nat /\ 4 \in Int  OBVIOUS
  <2> QED  BY <1>2, <2>1, ScanAdvances
<1>11. ASSUME NEW to \in Int
       PROVE  /\ Jump(to) \in AnyInstruction /\ Jump(to).to = to
              /\ Keeps(Jump(to), S, {}, S) /\ Keeps(Jump(to), L, {}, L)
  BY JumpKeeps
<1>12. StorePtr \in AnyInstruction /\ Keeps(StorePtr, S, Machine, {})
  <2>1. StorePtr.op = "store_ptr"
    BY DEF StorePtr, Instruction
  <2>2. ASSUME NEW m \in S PROVE SetPtr(m, m.rcx) \in Machine
    <3>1. m.rcx \in Nat /\ m.rcx + 0 \in Index  BY ScanningFields
    <3>2. m.rcx \in Index  BY <3>1
    <3> QED  BY <3>2, ScanningFields DEF Machine, State, SetPtr
  <2> HIDE DEF S
  <2>3. Keeps(StorePtr, S, Machine, {})
    BY <2>1, <2>2 DEF Keeps, Takes, MemoryOps, CheckOps
  <2> QED  BY <2>3, StorePtrType
<1> HIDE DEF S, L, F
<1> DEFINE fromTail  == Jump(-9)
           fromFour  == Jump(-7)
<1>13. /\ fromTail \in AnyInstruction /\ fromTail.to = -9 /\ Keeps(fromTail, L, {}, L)
       /\ fromFour \in AnyInstruction /\ fromFour.to = -7 /\ Keeps(fromFour, L, {}, L)
  <2> DEFINE a == -9
             b == -7
  <2>1. a \in Int /\ b \in Int  OBVIOUS
  <2> HIDE DEF a, b
  <2>2. Jump(a) \in AnyInstruction /\ Jump(a).to = a /\ Keeps(Jump(a), L, {}, L)
    BY <1>11, <2>1
  <2>3. Jump(b) \in AnyInstruction /\ Jump(b).to = b /\ Keeps(Jump(b), L, {}, L)
    BY <1>11, <2>1
  <2> QED  BY <2>2, <2>3 DEF a, b
<1>14. /\ IfZero("rsi", 4, 7) \in AnyInstruction /\ IfZero("rsi", 4, 7).to = 7
       /\ Keeps(IfZero("rsi", 4, 7), F, F, F)
       /\ IfZero("rsi", 8, 8) \in AnyInstruction /\ IfZero("rsi", 8, 8).to = 8
       /\ Keeps(IfZero("rsi", 8, 8), F, F, F)
       /\ IfZero("rsi", 12, 9) \in AnyInstruction /\ IfZero("rsi", 12, 9).to = 9
       /\ Keeps(IfZero("rsi", 12, 9), F, F, F)
  <2>1. 4 \in 0 .. 12 /\ 8 \in 0 .. 12 /\ 12 \in 0 .. 12 /\ 7 \in Int /\ 8 \in Int /\ 9 \in Int
    OBVIOUS
  <2> QED  BY <1>7, <2>1
<1>15. /\ Jump(4) \in AnyInstruction /\ Jump(4).to = 4 /\ Keeps(Jump(4), S, {}, S)
       /\ Jump(2) \in AnyInstruction /\ Jump(2).to = 2 /\ Keeps(Jump(2), S, {}, S)
  <2>1. 4 \in Int /\ 2 \in Int  OBVIOUS
  <2> QED  BY <1>11, <2>1
<1>16. /\ Keeps(AddRcx(4), F, S, {})
       /\ AddRcx(8) \in AnyInstruction /\ Keeps(AddRcx(8), F, S, {})
       /\ AddRcx(12) \in AnyInstruction /\ Keeps(AddRcx(12), F, S, {})
  <2>1. 4 \in 0 .. 12 /\ 8 \in 0 .. 12 /\ 12 \in 0 .. 12
    OBVIOUS
  <2> QED  BY <1>8, <2>1
\* The code.
<1>17. c \in Seq(AnyInstruction) /\ Len(c) = 17
  BY <1>3, <1>4, <1>5, <1>6, <1>9, <1>10, <1>12, <1>13, <1>14, <1>15, <1>16 DEF EmitScan4
<1>18. /\ c[1] = Load("rsi") /\ c[2] = CheckRcx(3) /\ c[3] = IfZero("rsi", 0, 14)
       /\ c[4] = IfAdvanceOut(12, 6) /\ c[5] = IfZero("rsi", 4, 7) /\ c[6] = IfZero("rsi", 8, 8)
       /\ c[7] = IfZero("rsi", 12, 9) /\ c[8] = AddRcx(16) /\ c[9] = fromFour
       /\ c[10] = AddRcx(4) /\ c[11] = fromTail /\ c[12] = AddRcx(4) /\ c[13] = Jump(4)
       /\ c[14] = AddRcx(8) /\ c[15] = Jump(2) /\ c[16] = AddRcx(12) /\ c[17] = StorePtr
  BY DEF EmitScan4
<1>19. /\ known \in [Int -> SUBSET Machine]
       /\ known[1] = Machine /\ known[18] = Machine
       /\ known[2] = L /\ known[9] = L /\ known[11] = L
       /\ known[3] = S /\ known[4] = S /\ known[10] = S /\ known[13] = S /\ known[15] = S
       /\ known[17] = S
       /\ known[5] = F /\ known[6] = F /\ known[7] = F /\ known[8] = F
       /\ known[12] = F /\ known[14] = F /\ known[16] = F
       /\ \A j \in Int : j \notin 1 .. 18 => known[j] = {}
  BY <1>1
<1> HIDE DEF c, known, fromTail, fromFour
<1> DEFINE Right(j) == Keeps(c[j], known[j], known[j + 1], known[j + c[j].to])
<1>20. ASSUME NEW j \in Int, NEW P, Keeps(c[j], P, known[j + 1], {}), known[j] \subseteq P
       PROVE  Right(j)
  <2>1. {} \subseteq known[j + c[j].to] /\ known[j + 1] \subseteq known[j + 1]  OBVIOUS
  <2> QED  BY <1>20, <2>1, KeepsMonotone
<1>21. Right(1)
  <2>1. 1 + 1 = 2 /\ 1 \in Int  OBVIOUS
  <2>2. Keeps(c[1], Machine, L, {})
    BY <1>1, <1>3, <1>18, KeepsMonotone
  <2> QED  BY <1>19, <1>20, <2>1, <2>2
<1>22. Right(2)
  <2>1. 2 + 1 = 3 /\ 2 \in Int  OBVIOUS
  <2> QED  BY <1>4, <1>18, <1>19, <1>20, <2>1
<1>23. Right(3)
  <2>1. 3 + 1 = 4 /\ 3 + 14 = 17  OBVIOUS
  <2> QED  BY <1>5, <1>18, <1>19, <2>1
<1>24. Right(4)
  <2>1. 4 + 1 = 5 /\ 4 + 6 = 10  OBVIOUS
  <2> QED  BY <1>6, <1>18, <1>19, <2>1
<1>25. Right(5)
  <2>1. 5 + 1 = 6 /\ 5 + 7 = 12  OBVIOUS
  <2> QED  BY <1>14, <1>18, <1>19, <2>1
<1>26. Right(6)
  <2>1. 6 + 1 = 7 /\ 6 + 8 = 14  OBVIOUS
  <2> QED  BY <1>14, <1>18, <1>19, <2>1
<1>27. Right(7)
  <2>1. 7 + 1 = 8 /\ 7 + 9 = 16  OBVIOUS
  <2> QED  BY <1>14, <1>18, <1>19, <2>1
<1>28. Right(8)
  <2>1. 8 + 1 = 9 /\ 8 \in Int  OBVIOUS
  <2> QED  BY <1>9, <1>18, <1>19, <1>20, <2>1
<1>29. Right(9)
  <2>1. 9 + (-7) = 2  OBVIOUS
  <2>2. {} \subseteq known[9 + 1] /\ known[9] \subseteq L  BY <1>19
  <2> QED  BY <1>13, <1>18, <1>19, <2>1, <2>2, KeepsMonotone
<1>30. Right(10)
  <2>1. 10 + 1 = 11 /\ 10 \in Int  OBVIOUS
  <2> QED  BY <1>10, <1>18, <1>19, <1>20, <2>1
<1>31. Right(11)
  <2>1. 11 + (-9) = 2  OBVIOUS
  <2>2. {} \subseteq known[11 + 1] /\ known[11] \subseteq L  BY <1>19
  <2> QED  BY <1>13, <1>18, <1>19, <2>1, <2>2, KeepsMonotone
<1>32. Right(12)
  <2>1. 12 + 1 = 13 /\ 12 \in Int  OBVIOUS
  <2> QED  BY <1>16, <1>18, <1>19, <1>20, <2>1
<1>33. Right(13)
  <2>1. 13 + 4 = 17  OBVIOUS
  <2>2. {} \subseteq known[13 + 1] /\ known[13] \subseteq S  BY <1>19
  <2> QED  BY <1>15, <1>18, <1>19, <2>1, <2>2, KeepsMonotone
<1>34. Right(14)
  <2>1. 14 + 1 = 15 /\ 14 \in Int  OBVIOUS
  <2> QED  BY <1>16, <1>18, <1>19, <1>20, <2>1
<1>35. Right(15)
  <2>1. 15 + 2 = 17  OBVIOUS
  <2>2. {} \subseteq known[15 + 1] /\ known[15] \subseteq S  BY <1>19
  <2> QED  BY <1>15, <1>18, <1>19, <2>1, <2>2, KeepsMonotone
<1>36. Right(16)
  <2>1. 16 + 1 = 17 /\ 16 \in Int  OBVIOUS
  <2> QED  BY <1>16, <1>18, <1>19, <1>20, <2>1
<1>37. Right(17)
  <2>1. 17 + 1 = 18 /\ 17 \in Int  OBVIOUS
  <2> QED  BY <1>12, <1>18, <1>19, <1>20, <2>1
<1>38. ASSUME NEW j \in 1 .. 17 PROVE Right(j)
  <2>1. j \in 1 .. 6 \/ j \in 7 .. 12 \/ j \in 13 .. 17  OBVIOUS
  <2> HIDE DEF Right
  <2>2. CASE j \in 1 .. 6
    <3>1. j = 1 \/ j = 2 \/ j = 3 \/ j = 4 \/ j = 5 \/ j = 6  BY <2>2
    <3> QED  BY <3>1, <1>21, <1>22, <1>23, <1>24, <1>25, <1>26
  <2>3. CASE j \in 7 .. 12
    <3>1. j = 7 \/ j = 8 \/ j = 9 \/ j = 10 \/ j = 11 \/ j = 12  BY <2>3
    <3> QED  BY <3>1, <1>27, <1>28, <1>29, <1>30, <1>31, <1>32
  <2>4. CASE j \in 13 .. 17
    <3>1. j = 13 \/ j = 14 \/ j = 15 \/ j = 16 \/ j = 17  BY <2>4
    <3> QED  BY <3>1, <1>33, <1>34, <1>35, <1>36, <1>37
  <2> QED  BY <2>1, <2>2, <2>3, <2>4
<1>39. Valid(c, known)
  <2>1. \A j \in 1 .. Len(c) : Keeps(c[j], known[j], known[j + 1], known[j + c[j].to])
    BY <1>17, <1>38
  <2> HIDE DEF Right
  <2>2. Len(c) + 1 = 18  BY <1>17
  <2> QED  BY <1>17, <1>19, <2>1, <2>2 DEF Valid, Code!Valid
<1>40. Machine \subseteq known[1] /\ known[Len(c) + 1] \subseteq Machine
  BY <1>17, <1>19
<1> QED  BY <1>17, <1>39, <1>40 DEF Valid, Fits, Code!Fits, c
-----------------------------------------------------------------------------
(* The code for a node.                                                    *)

LEMMA GuardAllFits ==
  ASSUME NEW B \in SUBSET {"rsi"}, NEW O, NEW D \in SUBSET AnyDl, NEW Z,
         NEW scope, ~scope.active, NEW S, S \subseteq Int, S # {},
         NEW b \in Nat, \A d \in S : -b <= d /\ d <= b,
         NEW below \in 1 .. 9, NEW above \in 1 .. 9
  PROVE  Fits(GuardAll(scope, S, below, above), Known(B, O, D, Z), Known(B, O \union S, D, Z))
<1> DEFINE min == Least(S)
           max == Greatest(S)
<1>1. min \in S /\ (\A y \in S : min <= y)
  <2>1. -b \in Int  OBVIOUS
  <2> QED  BY <2>1, LeastOfBounded
<1>2. max \in S /\ (\A y \in S : y <= max)
  <2>1. b \in Int  OBVIOUS
  <2> QED  BY <2>1, GreatestOfBounded
<1>3. GuardAll(scope, S, below, above) = RangeGuard(scope, min, max, below, above)
  BY DEF GuardAll
<1> HIDE DEF min, max
<1>4. min \in Int /\ max \in Int
  BY <1>1, <1>2
<1>5. Fits(RangeGuard(scope, min, max, below, above),
           Known(B, O, D, Z), Known(B, O \union (min .. max), D, Z))
  BY <1>4, RangeGuardFits
<1>6. Known(B, O \union (min .. max), D, Z) \subseteq Known(B, O \union S, D, Z)
  <2>1. S \subseteq min .. max
    <3> SUFFICES ASSUME NEW y \in S PROVE y \in min .. max
      OBVIOUS
    <3>1. y \in Int /\ min <= y /\ y <= max  BY <1>1, <1>2
    <3> QED  BY <1>4, <3>1
  <2> QED  BY <2>1 DEF Known
<1>7. Known(B, O, D, Z) \subseteq Known(B, O, D, Z)  OBVIOUS
<1> QED  BY <1>3, <1>5, <1>6, <1>7, FitsWeaker

\* The guard for one cell, from any state.
LEMMA GuardOneFits ==
  ASSUME NEW scope, ~scope.active, NEW off \in Int,
         NEW below \in 1 .. 9, NEW above \in 1 .. 9
  PROVE  Fits(RangeGuard(scope, off, off, below, above),
              Machine, Known({}, {off}, AnyDl, {}))
<1>1. Fits(RangeGuard(scope, off, off, below, above),
           Known({}, {}, AnyDl, {}), Known({}, {} \union (off .. off), AnyDl, {}))
  <2>1. {} \in SUBSET {"rsi"} /\ AnyDl \in SUBSET AnyDl  OBVIOUS
  <2> QED  BY <2>1, RangeGuardFits
<1>2. {} \union (off .. off) = {off}
  OBVIOUS
<1> QED  BY <1>1, <1>2, KnownAll

LEMMA InputFits ==
  ASSUME NEW scope, ~scope.active, NEW off \in Int
  PROVE  Fits(EmitInput(off, scope), Machine, Machine)
<1> DEFINE g == RangeGuard(scope, off, off, 8, 9)
           O == {off}
<1>1. Fits(g, Machine, Known({}, O, AnyDl, {}))
  <2>1. 8 \in 1 .. 9 /\ 9 \in 1 .. 9  OBVIOUS
  <2> QED  BY <2>1, GuardOneFits
<1>2. Fits(<<CallRead>>, Known({}, O, AnyDl, {}), Known({}, O, Cell, {}))
  BY CallReadFits
<1>3. Fits(<<Load("rax")>>, Known({}, O, Cell, {}), Known({"rax"}, O, Cell, {}))
  <2>1. {} \in SUBSET {"rax", "rsi"} /\ {} \union {"rax"} = {"rax"}  OBVIOUS
  <2>2. Fits(<<Load("rax")>>, Known({}, O, Cell, {}), Known({} \union {"rax"}, O, Cell, {}))
    BY <2>1, LoadFits
  <2> QED  BY <2>1, <2>2
<1>4. /\ StoreDl(off) \in AnyInstruction
      /\ Keeps(StoreDl(off), Known({"rax"}, O, Cell, {}), Known({"rax"}, O, Cell, {}), {})
  <2>1. "rax" \in {"rax"} /\ O \in SUBSET Int /\ Cell \in SUBSET Cell /\ off \in O  OBVIOUS
  <2> QED  BY <2>1, StoreDlKeeps
<1>5. Known({"rax"}, O, Cell, {}) \subseteq Machine
  BY KnownMachine
<1>6. Fits(<<StoreDl(off)>>, Known({"rax"}, O, Cell, {}), Machine)
  <2>1. Keeps(StoreDl(off), Known({"rax"}, O, Cell, {}), Machine, {})
    <3>1. /\ {} \subseteq {}
          /\ Known({"rax"}, O, Cell, {}) \subseteq Known({"rax"}, O, Cell, {})
      OBVIOUS
    <3> HIDE DEF O
    <3> QED  BY <1>4, <1>5, <3>1, KeepsMonotone
  <2> HIDE DEF O
  <2> QED  BY <1>4, <1>5, <2>1, FitsOne
<1> DEFINE rest == (<<CallRead>> \o <<Load("rax")>>) \o <<StoreDl(off)>>
<1>7. Fits(rest, Known({}, O, AnyDl, {}), Machine)
  <2> HIDE DEF O
  <2>1. Fits(<<CallRead>> \o <<Load("rax")>>, Known({}, O, AnyDl, {}), Known({"rax"}, O, Cell, {}))
    BY <1>2, <1>3, FitsThen
  <2> QED  BY <1>6, <2>1, FitsThen
<1>8. <<CallRead, Load("rax"), StoreDl(off)>> = rest
  <2>1. CallRead \in AnyInstruction /\ Load("rax") \in AnyInstruction
    BY DEF CallRead, Load, Instruction, AnyInstruction, Ops
  <2> HIDE DEF O
  <2> QED  BY <1>4, <2>1, Tuples
<1> HIDE DEF g, rest, O
<1>9. Fits(g \o rest, Machine, Machine)
  BY <1>1, <1>7, FitsThen
<1> QED  BY <1>8, <1>9 DEF EmitInput, g

LEMMA OutputFits ==
  ASSUME NEW scope, ~scope.active, NEW off \in Int
  PROVE  Fits(EmitOutput(off, scope), Machine, Machine)
<1> DEFINE g == RangeGuard(scope, off, off, 8, 9)
           O == {off}
<1>1. Fits(g, Machine, Known({}, O, AnyDl, {}))
  <2>1. 8 \in 1 .. 9 /\ 9 \in 1 .. 9  OBVIOUS
  <2> QED  BY <2>1, GuardOneFits
<1>2. Fits(<<Load("rax")>>, Known({}, O, AnyDl, {}), Known({"rax"}, O, AnyDl, {}))
  <2>1. {} \in SUBSET {"rax", "rsi"} /\ {} \union {"rax"} = {"rax"}  OBVIOUS
  <2>2. Fits(<<Load("rax")>>, Known({}, O, AnyDl, {}), Known({} \union {"rax"}, O, AnyDl, {}))
    BY <2>1, LoadFits
  <2> QED  BY <2>1, <2>2
<1>3. Fits(<<CallWrite(off)>>, Known({"rax"}, O, AnyDl, {}), Machine)
  <2>1. "rax" \in {"rax"} /\ O \in SUBSET Int /\ off \in O  OBVIOUS
  <2> QED  BY <2>1, CallWriteFits
<1> DEFINE rest == <<Load("rax")>> \o <<CallWrite(off)>>
<1>4. Fits(rest, Known({}, O, AnyDl, {}), Machine)
  <2> HIDE DEF O
  <2> QED  BY <1>2, <1>3, FitsThen
<1>5. <<Load("rax"), CallWrite(off)>> = rest
  <2>1. Load("rax") \in AnyInstruction
    BY DEF Load, Instruction, AnyInstruction, Ops
  <2>2. CallWrite(off) \in AnyInstruction
    BY DEF CallWrite, Instruction, AnyInstruction, Ops, MemoryOps
  <2> QED  BY <2>1, <2>2, Tuples
<1> HIDE DEF g, rest, O
<1>6. Fits(g \o rest, Machine, Machine)
  BY <1>1, <1>4, FitsThen
<1> QED  BY <1>5, <1>6 DEF EmitOutput, g

\* The test of a loop or an if.
LEMMA TestCellFits ==
  ASSUME NEW scope, ~scope.active, NEW off \in Int
  PROVE  Fits(TestCell(off, scope), Machine, Known({"rax"}, {off}, AnyDl, {}))
<1> DEFINE g == RangeGuard(scope, off, off, 1, 1)
           O == {off}
<1>1. Fits(g, Machine, Known({}, O, AnyDl, {}))
  <2>1. 1 \in 1 .. 9  OBVIOUS
  <2> QED  BY <2>1, GuardOneFits
<1>2. Fits(<<Load("rax")>>, Known({}, O, AnyDl, {}), Known({"rax"}, O, AnyDl, {}))
  <2>1. {} \in SUBSET {"rax", "rsi"} /\ {} \union {"rax"} = {"rax"}  OBVIOUS
  <2>2. Fits(<<Load("rax")>>, Known({}, O, AnyDl, {}), Known({} \union {"rax"}, O, AnyDl, {}))
    BY <2>1, LoadFits
  <2> QED  BY <2>1, <2>2
<1>3. TestCell(off, scope) = g \o <<Load("rax")>>
  BY DEF TestCell
<1> HIDE DEF g, O
<1>4. Fits(g \o <<Load("rax")>>, Machine, Known({"rax"}, O, AnyDl, {}))
  BY <1>1, <1>2, FitsThen
<1> QED  BY <1>3, <1>4 DEF O

LEMMA LoopFits ==
  ASSUME NEW scope, ~scope.active, NEW off \in Int, NEW body, Fits(body, Machine, Machine)
  PROVE  Fits(LoopCode(off, scope, body), Machine, Machine)
<1> DEFINE t == TestCell(off, scope)
           R == Known({"rax"}, {off}, AnyDl, {})
           out  == Len(t) + Len(body) + 2
           back == -(Len(t) + Len(body) + Len(t) + 1)
           i == IfZero("rax", off, out)
           k == IfNonzero("rax", off, back)
<1>1. Fits(t, Machine, R) /\ R \subseteq Machine
  BY TestCellFits, KnownMachine
<1>2. t \in Seq(AnyInstruction) /\ body \in Seq(AnyInstruction)
  BY <1>1, FitsIsCode
<1> HIDE DEF t
<1>3. out \in Int /\ back \in Int /\ Len(t \o body) = Len(t) + Len(body)
  BY <1>2
<1>4. LoopCode(off, scope, body) = ((t \o <<i>>) \o body) \o t \o <<k>>
  BY <1>3 DEF LoopCode, t
<1> HIDE DEF out, back
<1>5. i \in AnyInstruction /\ i.to = out /\ Keeps(i, R, Machine, Machine)
  <2>1. "rax" \in {"rax", "rsi"} /\ {off} \in SUBSET Int /\ off \in {off}  OBVIOUS
  <2>2. /\ i \in AnyInstruction /\ i.to = out
        /\ Keeps(i, R, Known({"rax"}, {off}, AnyDl, {off}), Machine)
    BY <1>3, <2>1, IfZeroKeeps
  <2>3. Known({"rax"}, {off}, AnyDl, {off}) \subseteq Machine  BY KnownMachine
  <2>4. R \subseteq R /\ Machine \subseteq Machine  OBVIOUS
  <2> HIDE DEF i, R
  <2> QED  BY <2>2, <2>3, <2>4, KeepsMonotone
<1>6. k \in AnyInstruction /\ k.to = back /\ Keeps(k, R, Machine, Machine)
  <2>1. "rax" \in {"rax", "rsi"} /\ {off} \in SUBSET Int /\ off \in {off}  OBVIOUS
  <2> QED  BY <1>3, <2>1, IfNonzeroKeeps
<1> HIDE DEF i, k, R
<1>7. Machine \subseteq Machine  OBVIOUS
<1>8. Fits(((t \o <<i>>) \o body) \o t \o <<k>>, Machine, Machine)
  BY <1>1, <1>5, <1>6, <1>7, FitsLoop DEF out, back
<1> QED  BY <1>4, <1>8

\* The body of an if is entered with a nonzero cell.
LEMMA IfFits ==
  ASSUME NEW scope, ~scope.active, NEW off \in Int, NEW body, Fits(body, Nonzero(off), Machine)
  PROVE  Fits(IfCode(off, scope, body), Machine, Machine)
<1> DEFINE t == TestCell(off, scope)
           R == Known({"rax"}, {off}, AnyDl, {})
           out == Len(body) + 1
           i == IfZero("rax", off, out)
<1>1. Fits(t, Machine, R) /\ R \subseteq Machine
  BY TestCellFits, KnownMachine
<1>2. t \in Seq(AnyInstruction) /\ body \in Seq(AnyInstruction)
  BY <1>1, FitsIsCode
<1>3. IfCode(off, scope, body) = (t \o <<i>>) \o body
  BY DEF IfCode
<1>4. out \in Int
  BY <1>2
<1> HIDE DEF t
<1>5. i \in AnyInstruction /\ i.to = Len(body) + 1 /\ Keeps(i, R, Nonzero(off), Machine)
  <2>1. "rax" \in {"rax", "rsi"} /\ {off} \in SUBSET Int /\ off \in {off}  OBVIOUS
  <2> HIDE DEF out
  <2>2. /\ i \in AnyInstruction /\ i.to = out
        /\ Keeps(i, R, Known({"rax"}, {off}, AnyDl, {off}), Machine)
    BY <1>4, <2>1, IfZeroKeeps
  <2>3. Known({"rax"}, {off}, AnyDl, {off}) \subseteq Nonzero(off)
    BY DEF Known, Nonzero
  <2>4. R \subseteq R /\ Machine \subseteq Machine  OBVIOUS
  <2> HIDE DEF i, R
  <2>5. Keeps(i, R, Nonzero(off), Machine)
    BY <2>2, <2>3, <2>4, KeepsMonotone
  <2> QED  BY <2>2, <2>5 DEF out
<1> HIDE DEF i, R
<1>6. Machine \subseteq Machine  OBVIOUS
<1>7. Fits(<<i>> \o body, R, Machine)
  BY <1>1, <1>5, <1>6, FitsBehindJump
<1>8. Fits(t \o (<<i>> \o body), Machine, Machine)
  BY <1>1, <1>7, FitsThen
<1>9. t \o (<<i>> \o body) = (t \o <<i>>) \o body
  <2>1. <<i>> \in Seq(AnyInstruction)  BY <1>5
  <2> QED  BY <1>2, <2>1, Associative
<1> QED  BY <1>3, <1>8, <1>9

\* The terms of a multiply loop are added for a counter that is not 0, and the
\* counter is cleared.
LEMMA ProductsFit ==
  ASSUME NEW n \in Node, NEW off \in Int, NEW O \in SUBSET Int, off \in O,
         \A d \in TermOffsets(n) : off + d \in O
  PROVE  Fits(Products(n, off), Known({"rsi"}, O, Counts, {}), Machine)
<1> DEFINE P == Known({"rsi"}, O, Counts, {})
           row == [k \in DOMAIN n.terms |-> AddProduct(off + n.terms[k].offset, n.terms[k].factor)]
           end == Store("rsi", off, 0)
<1>1. n.terms \in Seq(Terms)
  BY NodeAssumption
<1>2. ASSUME NEW k \in DOMAIN n.terms
      PROVE  row[k] \in AnyInstruction /\ Keeps(row[k], P, P, {})
  <2> DEFINE a == off + n.terms[k].offset
             f == n.terms[k].factor
  <2>1. n.terms[k] \in Terms  BY <1>1
  <2>2. n.terms[k].offset \in TermOffsets(n)  BY DEF TermOffsets
  <2>3. a \in O /\ f \in Int  BY <2>1, <2>2 DEF Terms
  <2>4. row[k] = AddProduct(a, f)  OBVIOUS
  <2> HIDE DEF a, f, row
  <2> QED  BY <2>3, <2>4, AddProductKeeps
<1>3. row \in Seq(AnyInstruction) /\ Len(row) = Len(n.terms) /\ DOMAIN n.terms = 1 .. Len(row)
  <2>1. Len(n.terms) \in Nat /\ DOMAIN n.terms = 1 .. Len(n.terms)  BY <1>1
  <2>2. row \in [1 .. Len(n.terms) -> AnyInstruction]
    <3>1. DOMAIN row = 1 .. Len(n.terms)  BY <2>1
    <3>2. \A k \in 1 .. Len(n.terms) : row[k] \in AnyInstruction  BY <1>2, <2>1
    <3>3. row = [k \in 1 .. Len(n.terms) |-> row[k]]  BY <2>1
    <3> HIDE DEF row
    <3> QED  BY <3>2, <3>3
  <2> HIDE DEF row
  <2>3. row \in Seq(AnyInstruction)  BY <2>1, <2>2
  <2> QED  BY <2>1, <2>2, <2>3
<1>4. P \subseteq Machine
  BY KnownMachine
<1>5. end \in AnyInstruction /\ Keeps(end, P, P, {})
  <2>1. "rsi" \in {"rax", "rsi"} /\ "rsi" \in {"rsi"} /\ 0 \in Cell
    BY CellCountAssumption DEF Cell
  <2> QED  BY <2>1, StoreKeeps
<1>6. Products(n, off) = row \o <<end>>
  BY DEF Products
<1> HIDE DEF P, row, end
<1>7. Fits(row, P, P)
  BY <1>2, <1>3, <1>4, FitsRow
<1>8. Fits(<<end>>, P, P)
  BY <1>4, <1>5, FitsOne
<1>9. Fits(row \o <<end>>, P, P)
  BY <1>7, <1>8, FitsThen
<1>10. P \subseteq P  OBVIOUS
<1>11. Fits(row \o <<end>>, P, Machine)
  BY <1>4, <1>9, <1>10, FitsWeaker
<1> QED  BY <1>6, <1>11 DEF P

\* The offsets of a multiply loop are integers between two bounds.
LEMMA TermWindowBounded ==
  ASSUME NEW n \in Node, n.terms # <<>>, NEW off \in Int
  PROVE  /\ TermWindow(n, off) \subseteq Int /\ TermWindow(n, off) # {}
         /\ \E b \in Nat : \A d \in TermWindow(n, off) : -b <= d /\ d <= b
         /\ \A d \in TermOffsets(n) : off + d \in TermWindow(n, off)
<1> DEFINE W == TermWindow(n, off)
<1>1. TermOffsets(n) \subseteq Int
  BY TermOffsetsBounded
<1>2. PICK b \in Nat : \A d \in TermOffsets(n) : -b <= d /\ d <= b
  BY TermOffsetsBounded
<1>3. \A d \in TermOffsets(n) : off + d \in W
  BY DEF TermWindow
<1>4. ASSUME NEW e \in W PROVE e = off \/ \E d \in TermOffsets(n) : e = off + d
  BY DEF TermWindow
<1>5. W \subseteq Int
  BY <1>1, <1>4
<1>6. W # {}
  <2>1. n.terms \in Seq(Terms)  BY NodeAssumption
  <2>2. 1 \in DOMAIN n.terms  BY <2>1
  <2>3. n.terms[1].offset \in TermOffsets(n)  BY <2>2 DEF TermOffsets
  <2> QED  BY <1>3, <2>3
<1> HIDE DEF W
<1>7. PICK c \in Nat : c = IF off >= 0 THEN b + off ELSE b - off
  OBVIOUS
<1>8. \A e \in W : -c <= e /\ e <= c
  <2> SUFFICES ASSUME NEW e \in W PROVE -c <= e /\ e <= c
    OBVIOUS
  <2>1. CASE e = off  BY <1>7, <2>1
  <2>2. CASE e # off
    <3>1. PICK d \in TermOffsets(n) : e = off + d  BY <1>4, <2>2
    <3>2. d \in Int /\ -b <= d /\ d <= b  BY <1>1, <1>2
    <3> QED  BY <1>7, <3>1, <3>2
  <2> QED  BY <2>1, <2>2
<1> QED  BY <1>3, <1>5, <1>6, <1>8 DEF W

LEMMA ClearFits ==
  ASSUME NEW scope, ~scope.active, NEW off \in Int
  PROVE  Fits(RangeGuard(scope, off, off, 8, 9) \o <<Load("rax"), Store("rax", off, 0)>>,
              Machine, Machine)
<1> DEFINE g == RangeGuard(scope, off, off, 8, 9)
           O == {off}
           P == Known({"rax"}, O, AnyDl, {})
           end == Store("rax", off, 0)
<1>1. Fits(g, Machine, Known({}, O, AnyDl, {}))
  <2>1. 8 \in 1 .. 9 /\ 9 \in 1 .. 9  OBVIOUS
  <2> QED  BY <2>1, GuardOneFits
<1>2. Fits(<<Load("rax")>>, Known({}, O, AnyDl, {}), P)
  <2>1. {} \in SUBSET {"rax", "rsi"} /\ {} \union {"rax"} = {"rax"}  OBVIOUS
  <2>2. Fits(<<Load("rax")>>, Known({}, O, AnyDl, {}), Known({} \union {"rax"}, O, AnyDl, {}))
    BY <2>1, LoadFits
  <2> QED  BY <2>1, <2>2
<1>3. end \in AnyInstruction /\ Keeps(end, P, P, {})
  <2>1. "rax" \in {"rax", "rsi"} /\ "rax" \in {"rax"} /\ 0 \in Cell /\ O \in SUBSET Int /\ off \in O
    BY CellCountAssumption DEF Cell
  <2> QED  BY <2>1, StoreKeeps
<1>4. Load("rax") \in AnyInstruction
  BY DEF Load, Instruction, AnyInstruction, Ops
<1>5. P \subseteq Machine
  BY KnownMachine
<1> HIDE DEF g, P, O, end
<1>6. Fits(<<end>>, P, P)
  BY <1>3, <1>5, FitsOne
<1> DEFINE rest == <<Load("rax")>> \o <<end>>
<1>7. Fits(rest, Known({}, O, AnyDl, {}), P)
  BY <1>2, <1>6, FitsThen
<1>8. <<Load("rax"), end>> = rest
  BY <1>3, <1>4, Tuples
<1> HIDE DEF rest
<1>9. Fits(g \o rest, Machine, P)
  BY <1>1, <1>7, FitsThen
<1>10. Machine \subseteq Machine  OBVIOUS
<1>11. Fits(g \o rest, Machine, Machine)
  BY <1>5, <1>9, <1>10, FitsWeaker
<1> QED  BY <1>8, <1>11 DEF g, end

\* A multiply loop, which a NONNULL_MULTIPLY_LOOP may not be executed as unless the
\* counter is known not to be 0.
LEMMA MultiplyFits ==
  ASSUME NEW scope, ~scope.active, NEW off \in Int, NEW n \in Node
  PROVE  /\ Fits(EmitMultiply(n, off, scope), Nonzero(off), Machine)
         /\ n.kind # "NONNULL_MULTIPLY_LOOP" => Fits(EmitMultiply(n, off, scope), Machine, Machine)
<1> DEFINE W == TermWindow(n, off)
           O == {off}
           Q == O \union W
           code1 == EmitMultiply(n, off, scope)
           window == GuardAll(scope, W, 4, 5)
           apply  == Products(n, off)
           source == <<Load("rsi"), LoadDl(off)>>
           near == RangeGuard(scope, off, off, 4, 5)
           skip == Len(window \o apply) + 1
           i == IfDlZero(skip)
<1>1. Nonzero(off) \subseteq Machine /\ Machine \subseteq Machine
  BY KnownMachine DEF Nonzero
<1>2. CASE n.terms = <<>>
  <2>1. Fits(code1, Machine, Machine)
    BY <1>2, ClearFits DEF EmitMultiply
  <2> HIDE DEF code1
  <2>2. Fits(code1, Nonzero(off), Machine)
    BY <1>1, <2>1, FitsWeaker
  <2> QED  BY <2>1, <2>2 DEF code1
<1>3. CASE n.terms # <<>>
  <2>1. /\ W \subseteq Int /\ W # {}
        /\ \A d \in TermOffsets(n) : off + d \in W
    BY <1>3, TermWindowBounded
  <2>2. PICK b \in Nat : \A d \in W : -b <= d /\ d <= b
    BY <1>3, TermWindowBounded
  <2> HIDE DEF W
  <2>3. ASSUME NEW B \in SUBSET {"rsi"}, NEW D \in SUBSET AnyDl, NEW Z
        PROVE  Fits(window, Known(B, O, D, Z), Known(B, Q, D, Z))
    <3>1. 4 \in 1 .. 9 /\ 5 \in 1 .. 9  OBVIOUS
    <3> HIDE DEF O
    <3> QED  BY <2>1, <2>2, <3>1, GuardAllFits
  <2>4. Fits(apply, Known({"rsi"}, Q, Counts, {}), Machine)
    <3>1. Q \in SUBSET Int /\ off \in Q /\ \A d \in TermOffsets(n) : off + d \in Q
      BY <2>1
    <3> HIDE DEF Q
    <3> QED  BY <3>1, ProductsFit
  \* The counter is loaded, and is one of E then.
  <2>5. ASSUME NEW A, A \in {O, Q}, NEW Z
        PROVE  Fits(source, Known({}, A, AnyDl, Z),
                    Known({"rsi"}, A, IF off \in Z THEN Counts ELSE Cell, Z))
    <3>1. Fits(<<Load("rsi")>>, Known({}, A, AnyDl, Z), Known({"rsi"}, A, AnyDl, Z))
      <4>1. {} \in SUBSET {"rax", "rsi"} /\ {} \union {"rsi"} = {"rsi"}  OBVIOUS
      <4>2. Fits(<<Load("rsi")>>, Known({}, A, AnyDl, Z), Known({} \union {"rsi"}, A, AnyDl, Z))
        BY <4>1, LoadFits
      <4> QED  BY <4>1, <4>2
    <3>2. A \in SUBSET Int /\ off \in A /\ "rsi" \in {"rsi"}
      BY <2>1, <2>5
    <3> DEFINE E == IF off \in Z THEN Counts ELSE Cell
    <3>3. Fits(<<LoadDl(off)>>, Known({"rsi"}, A, AnyDl, Z), Known({"rsi"}, A, E, Z))
      BY <3>2, LoadDlFits
    <3>4. source = <<Load("rsi")>> \o <<LoadDl(off)>>
      <4>1. Load("rsi") \in AnyInstruction
        BY DEF Load, Instruction, AnyInstruction, Ops
      <4>2. LoadDl(off) \in AnyInstruction
        BY DEF LoadDl, Instruction, AnyInstruction, Ops, MemoryOps
      <4> QED  BY <4>1, <4>2, Tuples
    <3> HIDE DEF E, source
    <3>5. Fits(source, Known({}, A, AnyDl, Z), Known({"rsi"}, A, E, Z))
      BY <3>1, <3>3, <3>4, FitsThen
    <3> QED  BY <3>5 DEF E
  <2>6. CASE n.kind = "NONNULL_MULTIPLY_LOOP"
    <3>1. code1 = window \o source \o apply
      BY <1>3, <2>6 DEF EmitMultiply, W
    <3>2. Fits(window, Nonzero(off), Known({}, Q, AnyDl, O))
      <4>1. {} \in SUBSET {"rsi"} /\ AnyDl \in SUBSET AnyDl  OBVIOUS
      <4>2. Nonzero(off) = Known({}, O, AnyDl, O)  BY DEF Nonzero
      <4> HIDE DEF O, Q, window
      <4> QED  BY <2>3, <4>1, <4>2
    <3>3. Fits(source, Known({}, Q, AnyDl, O), Known({"rsi"}, Q, Counts, O))
      <4>1. (IF off \in O THEN Counts ELSE Cell) = Counts  OBVIOUS
      <4> HIDE DEF O, Q, source
      <4> QED  BY <2>5, <4>1
    <3>4. Known({"rsi"}, Q, Counts, O) \subseteq Known({"rsi"}, Q, Counts, {})
      BY DEF Known
    <3> HIDE DEF code1, window, source, apply, O, Q
    <3>5. Fits(window \o source, Nonzero(off), Known({"rsi"}, Q, Counts, O))
      BY <3>2, <3>3, FitsThen
    <3>6. Fits(window \o source, Nonzero(off), Known({"rsi"}, Q, Counts, {}))
      <4>1. Nonzero(off) \subseteq Nonzero(off)  OBVIOUS
      <4> QED  BY <3>4, <3>5, <4>1, FitsWeaker
    <3>7. Fits((window \o source) \o apply, Nonzero(off), Machine)
      BY <2>4, <3>6, FitsThen
    <3> QED  BY <2>6, <3>1, <3>7 DEF code1
  <2>7. CASE n.kind # "NONNULL_MULTIPLY_LOOP"
    <3>1. code1 = near \o source \o <<i>> \o window \o apply
      BY <1>3, <2>7 DEF EmitMultiply, W
    <3>2. Fits(near, Machine, Known({}, O, AnyDl, {}))
      <4>1. 4 \in 1 .. 9 /\ 5 \in 1 .. 9  OBVIOUS
      <4> QED  BY <4>1, GuardOneFits
    <3>3. Fits(source, Known({}, O, AnyDl, {}), Known({"rsi"}, O, Cell, {}))
      <4>1. (IF off \in {} THEN Counts ELSE Cell) = Cell  OBVIOUS
      <4> HIDE DEF O, Q, source
      <4> QED  BY <2>5, <4>1
    <3>4. Fits(window, Known({"rsi"}, O, Counts, {}), Known({"rsi"}, Q, Counts, {}))
      <4>1. {"rsi"} \in SUBSET {"rsi"} /\ Counts \in SUBSET AnyDl  BY DEF Counts, AnyDl
      <4> HIDE DEF O, Q, window
      <4> QED  BY <2>3, <4>1
    <3> HIDE DEF code1, near, source, apply, window, O, Q, i
    <3>5. Fits(window \o apply, Known({"rsi"}, O, Counts, {}), Machine)
      BY <2>4, <3>4, FitsThen
    <3>6. /\ window \in Seq(AnyInstruction) /\ apply \in Seq(AnyInstruction)
          /\ near \in Seq(AnyInstruction) /\ source \in Seq(AnyInstruction)
      BY <2>4, <3>2, <3>3, <3>4, FitsIsCode
    <3>7. skip \in Int
      BY <3>6
    <3>8. /\ i \in AnyInstruction /\ i.to = skip
          /\ Keeps(i, Known({"rsi"}, O, Cell, {}), Known({"rsi"}, O, Counts, {}), Machine)
      <4> HIDE DEF skip
      <4> QED  BY <3>7, IfDlZeroKeeps DEF i
    <3> DEFINE far == window \o apply
    <3>9. far \in Seq(AnyInstruction) /\ i.to = Len(far) + 1
      BY <3>6, <3>8
    <3>10. Known({"rsi"}, O, Cell, {}) \subseteq Machine
      BY KnownMachine
    <3> HIDE DEF far, skip
    <3>11. Fits(<<i>> \o far, Known({"rsi"}, O, Cell, {}), Machine)
      BY <1>1, <3>5, <3>8, <3>9, <3>10, FitsBehindJump DEF far
    <3>12. Fits(near \o source, Machine, Known({"rsi"}, O, Cell, {}))
      BY <3>2, <3>3, FitsThen
    <3>13. Fits((near \o source) \o (<<i>> \o far), Machine, Machine)
      BY <3>11, <3>12, FitsThen
    <3>14. (near \o source) \o (<<i>> \o far) = near \o source \o <<i>> \o window \o apply
      <4> DEFINE x == near \o source
      <4>1. x \in Seq(AnyInstruction) /\ <<i>> \in Seq(AnyInstruction)
        BY <3>6, <3>8
      <4> HIDE DEF x
      <4>2. x \o (<<i>> \o far) = (x \o <<i>>) \o far
        BY <3>9, <4>1, Associative
      <4>3. x \o <<i>> \in Seq(AnyInstruction)
        BY <4>1
      <4>4. (x \o <<i>>) \o far = ((x \o <<i>>) \o window) \o apply
        BY <3>6, <4>3, Associative DEF far
      <4> QED  BY <4>2, <4>4 DEF x
    <3>15. Fits(code1, Machine, Machine)
      BY <3>1, <3>13, <3>14
    <3>16. Fits(code1, Nonzero(off), Machine)
      BY <1>1, <3>15, FitsWeaker
    <3> QED  BY <3>15, <3>16 DEF code1
  <2> QED  BY <2>6, <2>7
<1> QED  BY <1>2, <1>3

\* Several cells are zeroed, and the pointer moves.
LEMMA MultiZeroFits ==
  ASSUME NEW scope, ~scope.active, NEW n \in Node
  PROVE  Fits(EmitMultiZero(n, scope), Machine, Machine)
<1> DEFINE S     == TermOffsets(n) \union {n.arg}
           P     == Known({"rax"}, S, AnyDl, {})
           guard == GuardAll(scope, S, 8, 9)
           load  == <<Load("rax")>>
           row   == [k \in DOMAIN n.terms |-> Store("rax", n.terms[k].offset, 0)]
           move  == When(n.arg # 0, <<AddRcx(n.arg)>>)
<1>1. n.terms \in Seq(Terms) /\ n.arg \in Int
  BY NodeAssumption
<1>2. PICK b \in Nat : \A d \in TermOffsets(n) : -b <= d /\ d <= b
  BY TermOffsetsBounded
<1>3. S \subseteq Int /\ S # {} /\ n.arg \in S
  <2>1. TermOffsets(n) \subseteq Int  BY TermOffsetsBounded
  <2> QED  BY <1>1, <2>1
<1>4. \E c \in Nat : \A d \in S : -c <= d /\ d <= c
  <2>1. PICK c \in Nat : c = IF n.arg >= 0 THEN b + n.arg ELSE b - n.arg
    BY <1>1
  <2>2. ASSUME NEW d \in S PROVE -c <= d /\ d <= c
    <3>1. d \in Int  BY <1>3
    <3>2. CASE d = n.arg  BY <1>1, <2>1, <3>2
    <3>3. CASE d # n.arg
      <4>1. -b <= d /\ d <= b  BY <1>2, <3>3
      <4> QED  BY <1>1, <2>1, <3>1, <4>1
    <3> QED  BY <3>2, <3>3
  <2> QED  BY <2>2
<1>5. ASSUME NEW k \in DOMAIN n.terms
      PROVE  row[k] \in AnyInstruction /\ Keeps(row[k], P, P, {})
  <2> DEFINE a == n.terms[k].offset
  <2>1. a \in TermOffsets(n)  BY DEF TermOffsets
  <2>2. a \in S  BY <2>1
  <2>3. row[k] = Store("rax", a, 0)  OBVIOUS
  <2>4. "rax" \in {"rax", "rsi"} /\ "rax" \in {"rax"} /\ 0 \in Cell
    BY CellCountAssumption DEF Cell
  <2> HIDE DEF a, row, S
  <2> QED  BY <1>3, <2>2, <2>3, <2>4, StoreKeeps
<1>6. row \in Seq(AnyInstruction) /\ Len(row) = Len(n.terms) /\ DOMAIN n.terms = 1 .. Len(row)
  <2>1. Len(n.terms) \in Nat /\ DOMAIN n.terms = 1 .. Len(n.terms)  BY <1>1
  <2>2. row \in [1 .. Len(n.terms) -> AnyInstruction]
    <3>1. DOMAIN row = 1 .. Len(n.terms)  BY <2>1
    <3>2. \A k \in 1 .. Len(n.terms) : row[k] \in AnyInstruction  BY <1>5, <2>1
    <3>3. row = [k \in 1 .. Len(n.terms) |-> row[k]]  BY <2>1
    <3> HIDE DEF row
    <3> QED  BY <3>2, <3>3
  <2> HIDE DEF row
  <2>3. row \in Seq(AnyInstruction)  BY <2>1, <2>2
  <2> QED  BY <2>1, <2>2, <2>3
<1>7. P \subseteq Machine /\ Machine \subseteq Machine /\ P \subseteq P
  BY KnownMachine
<1>8. Fits(guard, Machine, Known({}, S, AnyDl, {}))
  <2>1. 8 \in 1 .. 9 /\ 9 \in 1 .. 9 /\ {} \in SUBSET {"rsi"} /\ AnyDl \in SUBSET AnyDl
    OBVIOUS
  <2>2. Machine = Known({}, {}, AnyDl, {}) /\ {} \union S = S
    BY KnownAll
  <2> HIDE DEF S
  <2>3. Fits(guard, Known({}, {}, AnyDl, {}), Known({}, {} \union S, AnyDl, {}))
    BY <1>3, <1>4, <2>1, GuardAllFits
  <2> QED  BY <2>2, <2>3
<1>9. Fits(load, Known({}, S, AnyDl, {}), P)
  <2>1. {} \in SUBSET {"rax", "rsi"} /\ {} \union {"rax"} = {"rax"}  OBVIOUS
  <2> HIDE DEF S
  <2>2. Fits(load, Known({}, S, AnyDl, {}), Known({} \union {"rax"}, S, AnyDl, {}))
    BY <2>1, LoadFits
  <2> QED  BY <2>1, <2>2
<1>10. Fits(row, P, P)
  <2> HIDE DEF row, P, S
  <2> QED  BY <1>5, <1>6, <1>7, FitsRow
<1>11. Fits(move, P, RcxOnTape)
  <2>1. CASE n.arg # 0
    <3>1. move = <<AddRcx(n.arg)>>  BY <2>1 DEF When
    <3>2. {"rax"} # {}  OBVIOUS
    <3> HIDE DEF S
    <3>3. Fits(<<AddRcx(n.arg)>>, P, RcxOnTape)  BY <1>1, <1>3, <3>2, AddRcxFits
    <3> QED  BY <3>1, <3>3
  <2>2. CASE n.arg = 0
    <3>1. move = <<>>  BY <2>2 DEF When
    <3>2. P \subseteq RcxOnTape
      <4> SUFFICES ASSUME NEW m \in P PROVE m \in RcxOnTape
        OBVIOUS
      <4>1. m \in Machine /\ m.pointer \in Index /\ m.rcx = m.pointer
        BY KnownFields
      <4> QED  BY <4>1 DEF RcxOnTape
    <3> HIDE DEF P, move
    <3> QED  BY <1>7, <3>1, <3>2, FitsNothing, FitsWeaker
  <2> QED  BY <2>1, <2>2
<1> HIDE DEF S, P, guard, load, row, move
<1>12. Fits(guard \o load, Machine, P)
  BY <1>8, <1>9, FitsThen
<1>13. Fits((guard \o load) \o row, Machine, P)
  BY <1>10, <1>12, FitsThen
<1>14. Fits(((guard \o load) \o row) \o move, Machine, RcxOnTape)
  BY <1>11, <1>13, FitsThen
<1>15. Fits((((guard \o load) \o row) \o move) \o <<StorePtr>>, Machine, Machine)
  BY <1>14, StorePtrFits, FitsThen
<1> QED  BY <1>15 DEF EmitMultiZero, S, guard, load, row, move
-----------------------------------------------------------------------------
(* Runs of simple nodes.                                                   *)

Effects(S) == [off : S, kind : {"add", "set", "none"}, value : Cell]

\* The planning BFEmitter_proofs is about is that of the backend.
LEMMA SamePlan ==
  /\ \A effects : Code!Collapse(effects) = Collapse(effects)
  /\ \A n : Code!HasMultiplyTail(n) = HasMultiplyTail(n)
<1>1. ASSUME NEW effects PROVE Code!Collapse(effects) = Collapse(effects)
  BY Zenon DEF Code!Collapse, Collapse, Code!Merged, Merged, Code!Byte, Byte,
         Code!FoldLeft, FoldLeft, Code!MapThenFoldSet, MapThenFoldSet,
         Code!Max, Max, Code!Last, Last, Code!Front, Front
<1>2. ASSUME NEW n PROVE Code!HasMultiplyTail(n) = HasMultiplyTail(n)
  BY Zenon DEF Code!HasMultiplyTail, HasMultiplyTail, Code!EffectsOf, EffectsOf,
         Code!FoldLeftDomain, FoldLeftDomain, Code!FoldLeft, FoldLeft,
         Code!MapThenFoldSet, MapThenFoldSet, Code!Max, Max, Code!IsSimple, IsSimple,
         Code!Effect, Effect, Code!Byte, Byte, Code!RunEnd, RunEnd, Code!Least, Least,
         Code!PointerDelta, PointerDelta, Code!FoldSeq, FoldSeq,
         Code!FoldFunction, FoldFunction, Code!FoldFunctionOnSet, FoldFunctionOnSet
<1> QED  BY <1>1, <1>2

LEMMA CollapseType ==
  ASSUME NEW S, NEW effects \in Seq(Effects(S))
  PROVE  Collapse(effects) \in Seq(Effects(S))
  BY SamePlan, CodeAssumptions, Code!CollapseType DEF Effects, Code!Effects, Cell, Code!Cell

\* A run of simple nodes, behind one guard for all its cells.
LEMMA RunFits ==
  ASSUME NEW scope, ~scope.active, NEW effects \in Seq(Effects(Int)), effects # <<>>
  PROVE  Fits(EmitRun(effects, scope), Machine, Machine)
<1> DEFINE S     == {effects[k].off : k \in DOMAIN effects}
           P     == Known({"rax"}, S, AnyDl, {})
           guard == GuardAll(scope, S, 8, 9)
           load  == <<Load("rax")>>
           row   == RunLoaded(effects)
           offs  == [k \in 1 .. Len(effects) |-> effects[k].off]
           all   == Collapse(effects)
<1>1. \A k \in 1 .. Len(effects) : effects[k].off \in Int
  <2> TAKE k \in 1 .. Len(effects)
  <2>1. effects[k] \in Effects(Int)  OBVIOUS
  <2> QED  BY <2>1 DEF Effects
<1>2. S \subseteq Int /\ S # {} /\ DOMAIN effects = 1 .. Len(effects)
  <2>1. 1 \in DOMAIN effects /\ DOMAIN effects = 1 .. Len(effects)  OBVIOUS
  <2>2. effects[1].off \in S  BY <2>1
  <2> QED  BY <1>1, <2>1, <2>2
<1>3. \E b \in Nat : \A d \in S : -b <= d /\ d <= b
  <2>1. offs \in Seq(Int) /\ Len(offs) = Len(effects)
    BY <1>1
  <2>2. \A k \in 1 .. Len(effects) : offs[k] = effects[k].off
    OBVIOUS
  <2> HIDE DEF offs
  <2>3. PICK b \in Nat : \A k \in 1 .. Len(offs) : -b <= offs[k] /\ offs[k] <= b
    BY <2>1, BoundsOfSequence
  <2> QED  BY <1>2, <2>1, <2>2, <2>3
<1>4. effects \in Seq(Effects(S))
  <2>1. \A k \in 1 .. Len(effects) : effects[k] \in Effects(S)
    <3> TAKE k \in 1 .. Len(effects)
    <3>1. effects[k] \in Effects(Int) /\ effects[k].off \in S  OBVIOUS
    <3> HIDE DEF S
    <3> QED  BY <3>1 DEF Effects
  <2> HIDE DEF S
  <2> QED  BY <2>1
<1>5. all \in Seq(Effects(S))
  <2> HIDE DEF S
  <2> QED  BY <1>4, CollapseType
<1>6. /\ DOMAIN row = DOMAIN all
      /\ \A k \in DOMAIN all : row[k] = IF all[k].kind = "add" THEN AddImm(all[k].off, all[k].value)
                                        ELSE Store("rax", all[k].off, all[k].value)
      /\ row = [k \in DOMAIN all |-> row[k]]
  BY DEF RunLoaded
<1> HIDE DEF S, row, all
<1>7. ASSUME NEW k \in 1 .. Len(all)
      PROVE  row[k] \in AnyInstruction /\ Keeps(row[k], P, P, {})
  <2>1. all[k] \in Effects(S) /\ k \in DOMAIN all  BY <1>5
  <2> DEFINE off == all[k].off
             v   == all[k].value
  <2>2. off \in S /\ v \in Cell /\ v \in Int
    BY <2>1, CellCountAssumption DEF Effects, Cell
  <2>3. row[k] = IF all[k].kind = "add" THEN AddImm(off, v) ELSE Store("rax", off, v)
    BY <1>6, <2>1
  <2> HIDE DEF off, v, P
  <2>4. AddImm(off, v) \in AnyInstruction /\ Keeps(AddImm(off, v), P, P, {})
    <3>1. "rax" \in {"rax"} /\ S \in SUBSET Int  BY <1>2
    <3> QED  BY <2>2, <3>1, AddImmKeeps DEF P
  <2>5. Store("rax", off, v) \in AnyInstruction /\ Keeps(Store("rax", off, v), P, P, {})
    <3>1. "rax" \in {"rax", "rsi"} /\ "rax" \in {"rax"} /\ S \in SUBSET Int  BY <1>2
    <3> QED  BY <2>2, <3>1, StoreKeeps DEF P
  <2> QED  BY <2>3, <2>4, <2>5
<1>8. row \in Seq(AnyInstruction) /\ Len(row) = Len(all)
  <2>1. DOMAIN all = 1 .. Len(all) /\ Len(all) \in Nat  BY <1>5
  <2>2. row \in [1 .. Len(all) -> AnyInstruction]
    <3>1. \A k \in 1 .. Len(all) : row[k] \in AnyInstruction  BY <1>7
    <3>2. row = [k \in 1 .. Len(all) |-> row[k]]  BY <1>6, <2>1
    <3> QED  BY <3>1, <3>2
  <2>3. row \in Seq(AnyInstruction)  BY <2>1, <2>2
  <2> QED  BY <1>6, <2>1, <2>3
<1>9. P \subseteq Machine /\ Machine \subseteq Machine
  BY KnownMachine
<1>10. Fits(guard, Machine, Known({}, S, AnyDl, {}))
  <2>1. 8 \in 1 .. 9 /\ 9 \in 1 .. 9 /\ {} \in SUBSET {"rsi"} /\ AnyDl \in SUBSET AnyDl
    OBVIOUS
  <2>2. Machine = Known({}, {}, AnyDl, {}) /\ {} \union S = S
    BY KnownAll
  <2>3. Fits(guard, Known({}, {}, AnyDl, {}), Known({}, {} \union S, AnyDl, {}))
    BY <1>2, <1>3, <2>1, GuardAllFits
  <2> QED  BY <2>2, <2>3
<1>11. Fits(load, Known({}, S, AnyDl, {}), P)
  <2>1. {} \in SUBSET {"rax", "rsi"} /\ {} \union {"rax"} = {"rax"}  OBVIOUS
  <2>2. Fits(load, Known({}, S, AnyDl, {}), Known({} \union {"rax"}, S, AnyDl, {}))
    BY <2>1, LoadFits
  <2> QED  BY <2>1, <2>2
<1> HIDE DEF P
<1>12. Fits(row, P, P)
  BY <1>7, <1>8, <1>9, FitsRow
<1>13. Fits(row, P, Machine)
  <2>1. P \subseteq P  OBVIOUS
  <2> QED  BY <1>9, <1>12, <2>1, FitsWeaker
<1> HIDE DEF guard, load
<1>14. Fits(guard \o load, Machine, P)
  BY <1>10, <1>11, FitsThen
<1>15. Fits((guard \o load) \o row, Machine, Machine)
  BY <1>13, <1>14, FitsThen
<1> QED  BY <1>15 DEF EmitRun, S, guard, load, row
LEMMA ScanCodeFits ==
  ASSUME NEW step \in Int, NEW off \in Int
  PROVE  Fits(ScanCode(step, off), Machine, Machine)
<1>1. Fits(EmitScan(step, off), Machine, Machine)
  BY ScanFits
<1>2. Fits(EmitScan4, Machine, Machine)
  BY Scan4Fits
<1> QED  BY <1>1, <1>2 DEF ScanCode


LEMMA LoopIsCode ==
  ASSUME NEW scope, ~scope.active, NEW off \in Int, NEW body \in Seq(AnyInstruction)
  PROVE  LoopCode(off, scope, body) \in Seq(AnyInstruction)
<1> DEFINE t == TestCell(off, scope)
           out  == Len(t \o body) + 2
           back == -(Len(t \o body) + Len(t) + 1)
           i == IfZero("rax", off, out)
           k == IfNonzero("rax", off, back)
<1>1. t \in Seq(AnyInstruction)
  BY TestCellFits, FitsIsCode
<1>2. LoopCode(off, scope, body) = t \o <<i>> \o body \o t \o <<k>>
  BY DEF LoopCode
<1> HIDE DEF t
<1>3. out \in Int /\ back \in Int
  BY <1>1
<1> HIDE DEF out, back
<1>4. i \in AnyInstruction /\ k \in AnyInstruction
  <2>1. "rax" \in {"rax", "rsi"} /\ "rax" \in {"rax"} /\ {off} \in SUBSET Int /\ off \in {off}
    OBVIOUS
  <2> QED  BY <1>3, <2>1, IfZeroKeeps, IfNonzeroKeeps
<1> HIDE DEF i, k
<1>5. t \o <<i>> \o body \o t \o <<k>> \in Seq(AnyInstruction)
  BY <1>1, <1>4
<1> QED  BY <1>2, <1>5

LEMMA IfIsCode ==
  ASSUME NEW scope, ~scope.active, NEW off \in Int, NEW body \in Seq(AnyInstruction)
  PROVE  IfCode(off, scope, body) \in Seq(AnyInstruction)
<1> DEFINE t == TestCell(off, scope)
           out == Len(body) + 1
           i == IfZero("rax", off, out)
<1>1. t \in Seq(AnyInstruction)
  BY TestCellFits, FitsIsCode
<1>2. IfCode(off, scope, body) = t \o <<i>> \o body
  BY DEF IfCode
<1>3. out \in Int
  OBVIOUS
<1> HIDE DEF t, out
<1>4. i \in AnyInstruction
  <2>1. "rax" \in {"rax", "rsi"} /\ "rax" \in {"rax"} /\ {off} \in SUBSET Int /\ off \in {off}
    OBVIOUS
  <2> QED  BY <1>3, <2>1, IfZeroKeeps
<1> HIDE DEF i
<1>5. t \o <<i>> \o body \in Seq(AnyInstruction)
  BY <1>1, <1>4
<1> QED  BY <1>2, <1>5


-----------------------------------------------------------------------------
(* The programs that are compiled as they should be.                       *)

\* The guard scope an emitter finds in its fields is not active: with a garbage
\* one that is, guards are left out (run native_scope).
NoGuardScope == \A scope \in Scopes : ~scope.active

\* No if is compiled as a multiply loop with a tail, whose products go through a
\* register that does not hold the tape's address (run native_tail).
NoMultiplyTail == \A n \in Node : ~HasMultiplyTail(n)

\* A NONNULL_MULTIPLY_LOOP is the first node of an if's body (BFLoops, and an
\* invariant of the optimiser), and none of a program.
NonnullBeginsIf ==
  /\ \A n \in Node : NonnullIsFirst(n)
  /\ \A program \in Programs : NoNonnull(program)

-----------------------------------------------------------------------------
(* The callbacks, and with them all that is emitted.                       *)

LEMMA NodesFit ==
  ASSUME NoGuardScope
  PROVE  Code!NodesFit
<1>1. \A delta \in Int : Code!Fits(<<Code!MovePtr(delta)>>, Machine, Machine)
  <2> TAKE delta \in Int
  <2>1. Code!MovePtr(delta) = MovePtr(delta)
    BY DEF Code!MovePtr, MovePtr, Code!Instruction, Instruction
  <2>2. Fits(<<MovePtr(delta)>>, Machine, Machine)
    BY MovePtrFits
  <2> QED  BY <2>1, <2>2 DEF Fits
<1>2. \A step \in Int, off \in Int : Code!Fits(ScanCode(step, off), Machine, Machine)
  BY ScanCodeFits DEF Fits
<1>3. ASSUME NEW scope \in Scopes
      PROVE  /\ \A effects \in Seq(Code!Effects(Int)) :
                  effects # <<>> => Code!Fits(EmitRun(effects, scope), Machine, Machine)
             /\ \A off \in Int : /\ Code!Fits(EmitInput(off, scope), Machine, Machine)
                                 /\ Code!Fits(EmitOutput(off, scope), Machine, Machine)
             /\ \A n \in Node : Code!Fits(EmitMultiZero(n, scope), Machine, Machine)
             /\ \A n \in Node, off \in Int :
                  Code!Fits(EmitMultiply(n, off, scope),
                       IF n.kind = "NONNULL_MULTIPLY_LOOP" THEN Nonzero(off) ELSE Machine, Machine)
  <2>1. ~scope.active
    BY DEF NoGuardScope
  <2>2. \A effects \in Seq(Code!Effects(Int)) :
          effects # <<>> => Code!Fits(EmitRun(effects, scope), Machine, Machine)
    BY <2>1, RunFits DEF Fits, Effects, Code!Effects, Cell, Code!Cell
  <2>3. \A off \in Int : /\ Code!Fits(EmitInput(off, scope), Machine, Machine)
                         /\ Code!Fits(EmitOutput(off, scope), Machine, Machine)
    BY <2>1, InputFits, OutputFits DEF Fits
  <2>4. \A n \in Node : Code!Fits(EmitMultiZero(n, scope), Machine, Machine)
    BY <2>1, MultiZeroFits DEF Fits
  <2>5. ASSUME NEW n \in Node, NEW off \in Int
        PROVE  Code!Fits(EmitMultiply(n, off, scope),
                 IF n.kind = "NONNULL_MULTIPLY_LOOP" THEN Nonzero(off) ELSE Machine, Machine)
    <3>1. /\ Fits(EmitMultiply(n, off, scope), Nonzero(off), Machine)
          /\ n.kind # "NONNULL_MULTIPLY_LOOP" => Fits(EmitMultiply(n, off, scope), Machine, Machine)
      BY <2>1, MultiplyFits
    <3> QED  BY <3>1 DEF Fits
  <2> QED  BY <2>2, <2>3, <2>4, <2>5
<1> QED  BY <1>1, <1>2, <1>3 DEF Code!NodesFit

LEMMA BodiesFit ==
  ASSUME NoGuardScope, NoMultiplyTail
  PROVE  Code!BodiesFit
<1>1. \A off \in Int : Nonzero(off) \subseteq Machine
  BY KnownMachine DEF Nonzero
<1>2. ASSUME NEW scope \in Scopes, NEW off \in Int
      PROVE  /\ \A body \in Seq(AnyInstruction) :
                  /\ LoopCode(off, scope, body) \in Seq(AnyInstruction)
                  /\ IfCode(off, scope, body) \in Seq(AnyInstruction)
             /\ \A body : Code!Fits(body, Machine, Machine) =>
                            Code!Fits(LoopCode(off, scope, body), Machine, Machine)
             /\ \A body : Code!Fits(body, Nonzero(off), Machine) =>
                            Code!Fits(IfCode(off, scope, body), Machine, Machine)
  <2>1. ~scope.active
    BY DEF NoGuardScope
  <2>2. \A body \in Seq(AnyInstruction) :
          /\ LoopCode(off, scope, body) \in Seq(AnyInstruction)
          /\ IfCode(off, scope, body) \in Seq(AnyInstruction)
    BY <2>1, LoopIsCode, IfIsCode
  <2>3. \A body : Code!Fits(body, Machine, Machine) =>
                   Code!Fits(LoopCode(off, scope, body), Machine, Machine)
    BY <2>1, LoopFits DEF Fits
  <2>4. \A body : Code!Fits(body, Nonzero(off), Machine) =>
                   Code!Fits(IfCode(off, scope, body), Machine, Machine)
    BY <2>1, IfFits DEF Fits
  <2> QED  BY <2>2, <2>3, <2>4
<1>3. \A n \in Node : ~Code!HasMultiplyTail(n)
  BY SamePlan DEF NoMultiplyTail
<1> QED  BY <1>1, <1>2, <1>3 DEF Code!BodiesFit

\* The driver BFEmitter_proofs is about is that of the backend.
LEMMA SameEmitted ==
  ASSUME NEW program, NEW scope
  PROVE  Emitter!Emitted(program, scope) = Code!Emitted(program, scope)
  BY Zenon DEF
       Emitter!Emitted, Code!Emitted, Emitter!Flushed, Code!Flushed,
       Emitter!EmitBlock, Code!EmitBlock, Emitter!Piece, Code!Piece,
       Emitter!Pieces, Code!Pieces, Emitter!EmitAt, Code!EmitAt,
       Emitter!EmitSimpleRun, Code!EmitSimpleRun, Emitter!EmitNode, Code!EmitNode,
       Emitter!Also, Code!Also, Emitter!CodeAtOffset, Code!CodeAtOffset,
       Emitter!EmitScan, Code!EmitScan, Emitter!EmitControl, Code!EmitControl,
       Emitter!ControlCode, Code!ControlCode, Emitter!BodyCode, Code!BodyCode,
       Emitter!Settled, Code!Settled, Emitter!ScansAtOffset, Code!ScansAtOffset,
       Emitter!When, Code!When, Emitter!MovePtr, Code!MovePtr,
       Emitter!Instruction, Code!Instruction,
       Emitter!HasMultiplyTail, Code!HasMultiplyTail,
       Emitter!ControlAtOffset, Code!ControlAtOffset,
       Emitter!OffsetSafeZeroDelta, Code!OffsetSafeZeroDelta,
       Emitter!IsSegmentNode, Code!IsSegmentNode, Emitter!ControlKinds, Code!ControlKinds,
       Emitter!PointerDelta, Code!PointerDelta, Emitter!FoldSeq, Code!FoldSeq,
       Emitter!FoldFunction, Code!FoldFunction,
       Emitter!FoldFunctionOnSet, Code!FoldFunctionOnSet,
       Emitter!MapThenFoldSet, Code!MapThenFoldSet,
       Emitter!FoldLeftDomain, Code!FoldLeftDomain, Emitter!FoldLeft, Code!FoldLeft,
       Emitter!Max, Code!Max, Emitter!IsSimple, Code!IsSimple,
       Emitter!Effect, Code!Effect, Emitter!EffectsOf, Code!EffectsOf,
       Emitter!Byte, Code!Byte, Emitter!RunEnd, Code!RunEnd, Emitter!Least, Code!Least

\* A program may be entered in every state, and left in every state.
LEMMA EmittedFits ==
  ASSUME NoGuardScope, NoMultiplyTail, NonnullBeginsIf, FinitelyNested,
         NEW program \in Programs, NEW scope \in Scopes
  PROVE  Fits(Emitter!Emitted(program, scope), Machine, Machine)
<1>1. Code!CallbacksFit
  BY NodesFit, BodiesFit DEF Code!CallbacksFit
<1>2. Code!IfsBeginWithNonnull
  BY DEF NonnullBeginsIf, Code!IfsBeginWithNonnull, NonnullIsFirst, Code!NonnullIsFirst
<1>3. program \in Seq(Node) /\ Code!NoNonnull(program)
  BY ProgramsAssumption DEF NonnullBeginsIf, NoNonnull, Code!NoNonnull
<1>4. Code!FinitelyNested
  BY DEF FinitelyNested, Code!FinitelyNested, Heights, Code!Heights
<1>5. Code!Fits(Code!Emitted(program, scope), Machine, Machine)
  BY <1>1, <1>2, <1>3, <1>4, CodeAssumptions, Code!EmittedFits
<1> QED  BY <1>5, SameEmitted DEF Fits

\* The epilogue, to which the error blocks jump, may be reached in every state.
LEMMA ProgramIsAnnotated ==
  ASSUME NoGuardScope, NoMultiplyTail, NonnullBeginsIf, FinitelyNested,
         NEW program \in Programs, NEW scope \in Scopes
  PROVE  \E known : Annotated(EmitProgram(program, scope), known)
<1> DEFINE e == Emitter!Emitted(program, scope)
<1>1. Fits(e, Machine, Machine)
  BY EmittedFits
<1>2. Epilogue \in AnyInstruction /\ Epilogue.op = "epilogue"
  BY DEF Epilogue, Instruction, AnyInstruction, Ops
<1>3. \A next, there : Keeps(Epilogue, Machine, next, there)
  BY <1>2 DEF Keeps, Takes, MemoryOps, CheckOps
<1>4. EmitProgram(program, scope) = e \o <<Epilogue>>
  BY DEF EmitProgram
<1> HIDE DEF e
<1>5. \E known : Code!Annotated(e \o <<Epilogue>>, known)
  BY <1>1, <1>2, <1>3, CodeAssumptions, Code!FittingIsAnnotated DEF Fits
<1> QED  BY <1>4, <1>5 DEF Annotated, Code!Annotated

\* The inductive invariant.
AnnotatedInv == \E known : Inv(known)

LEMMA InitInv ==
  ASSUME NoGuardScope, NoMultiplyTail, NonnullBeginsIf, FinitelyNested, Init
  PROVE  AnnotatedInv
<1>1. PICK program \in Programs, scope \in Scopes, stdin \in Inputs : Start(program, scope, stdin)
  BY DEF Init
<1>2. PICK known : Annotated(code, known)
  BY <1>1, ProgramIsAnnotated DEF Start
<1>3. Now \in Machine
  <2>1. 0 \in Index /\ 0 \in Cell
    BY TapeAssumption, CellCountAssumption DEF Index, Cell
  <2>2. /\ tape \in [Index -> Cell] /\ pointer \in Index /\ bases \in SUBSET {"rax", "rsi"}
        /\ rcx \in {Junk} \union Nat /\ dl \in {Junk} \union Cell
    BY <1>1, <2>1 DEF Start
  <2> QED  BY <2>2 DEF Now, State, Machine
<1>4. pc = 0 /\ 0 \in 0 .. Len(code)
  BY <1>1, <1>2 DEF Start, Annotated
<1>5. error \in 0 .. 9 /\ input \in Seq(Cell) /\ result.status \in {"running", "done", "failed"}
  BY <1>1, InputsAssumption DEF Start
<1>6. Inv(known)
  BY <1>2, <1>3, <1>4, <1>5 DEF Inv
<1> QED  BY <1>6 DEF AnnotatedInv

LEMMA NextKeepsAnnotatedInv == AnnotatedInv /\ [Next]_vars => AnnotatedInv'
<1> SUFFICES ASSUME AnnotatedInv, [Next]_vars PROVE AnnotatedInv'
  OBVIOUS
<1>1. PICK known : Inv(known)
  BY DEF AnnotatedInv
<1>2. Inv(known)'
  BY <1>1, NextKeepsInv
<1> QED  BY <1>2 DEF AnnotatedInv

LEMMA AnnotatedInvIsSafe == AnnotatedInv => TypeOK /\ AccessesAreSafe /\ CounterIsNonzero
  BY InvIsSafe DEF AnnotatedInv
-----------------------------------------------------------------------------
(***************************************************************************)
(* The theorems.  Their hypotheses are the two disagreements between the   *)
(* code and its comments that runs native_scope and native_tail show, the  *)
(* shape of the programs the optimiser leaves, and that nodes are trees.   *)
(***************************************************************************)

\* Every variable keeps its range while generated code runs: the pointer stays on
\* the tape and cells stay bytes, and it is never left but through its epilogue
\* (bf_jit_emit_block_with_pending_offset_shared and the x86-64 callbacks).
THEOREM NativeTypeOK ==
  ASSUME NoGuardScope, NoMultiplyTail, NonnullBeginsIf, FinitelyNested
  PROVE  Spec => []TypeOK
<1>1. Init => AnnotatedInv  BY InitInv
<1>2. AnnotatedInv => TypeOK  BY AnnotatedInvIsSafe
<1> QED  BY <1>1, <1>2, NextKeepsAnnotatedInv, PTL DEF Spec

\* Memory safety of the x86-64 code of every program: each access is to the tape,
\* through a register that holds the tape's address, although moves are deferred,
\* guards merged over a run or a loop's targets, and registers kept between nodes.
THEOREM NativeMemorySafe ==
  ASSUME NoGuardScope, NoMultiplyTail, NonnullBeginsIf, FinitelyNested
  PROVE  Spec => []AccessesAreSafe
<1>1. Init => AnnotatedInv  BY InitInv
<1>2. AnnotatedInv => AccessesAreSafe  BY AnnotatedInvIsSafe
<1> QED  BY <1>1, <1>2, NextKeepsAnnotatedInv, PTL DEF Spec

\* A multiply loop's terms are added for a loaded counter that is not 0, also where
\* the test is left out because an if is known to have made it.
THEOREM NativeCounterIsNonzero ==
  ASSUME NoGuardScope, NoMultiplyTail, NonnullBeginsIf, FinitelyNested
  PROVE  Spec => []CounterIsNonzero
<1>1. Init => AnnotatedInv  BY InitInv
<1>2. AnnotatedInv => CounterIsNonzero  BY AnnotatedInvIsSafe
<1> QED  BY <1>1, <1>2, NextKeepsAnnotatedInv, PTL DEF Spec
=============================================================================
