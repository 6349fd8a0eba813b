-------------------------------- MODULE BFArm --------------------------------
(***************************************************************************)
(* The aarch64 code generator (bfjit_backend_aarch64.c), which the shared  *)
(* driver (BFEmitter) calls.                                               *)
(*                                                                         *)
(* Kept are the registers that matter: x10 is the tape's address, x8 a     *)
(* copy of the pointer, x15 a cursor on a cell, x12 the tape's size in a   *)
(* guard or scan and the counter in a multiply loop.  An access is at an   *)
(* immediate offset from the cursor (base "x15"), at x10 + x8 ("x10"), or  *)
(* at an address computed from these into x9 ("x9"), when no immediate     *)
(* holds the offset.  What is left out of BFX86 is left out here too.      *)
(***************************************************************************)
EXTENDS BFCodeGen

CONSTANTS
  MaxImm,       \* the largest unsigned immediate: 4095 in the code
  MaxBack       \* and how far back an access may be: 256 in the code

ASSUME ImmediateAssumption == MaxImm \in Nat \ {0} /\ MaxBack \in Nat
-----------------------------------------------------------------------------
(* Instructions.                                                           *)

Load               == Instruction("load", "", 0, 0, 0)          \* x10 and x8
Cursor(off)        == Instruction("cursor", "", off, 0, 0)      \* x15: x10 + x8 + off
MoveCursor(delta)  == Instruction("move_cursor", "", delta, 0, 0)
LoadCounter        == Instruction("load_counter", "x15", 0, 0, 0)
IfCounterZero(to)  == Instruction("jz_counter", "", 0, 0, to)
LoadBound          == Instruction("load_bound", "", 0, 0, 0)    \* x12: the tape's size
CheckBound(reason) == Instruction("check_bound", "", 0, reason, 0)
CheckBackImm(delta, reason) == Instruction("check_back_imm", "", delta, reason, 0)
AddX8(delta)       == Instruction("advance", "", delta, 0, 0)
AddTo(base, off, val)   == Instruction("add", base, off, val, 0)
Term(base, off, factor) == Instruction("term", base, off, factor, 0)
StoreW0(base, off)      == Instruction("store_w0", base, off, 0, 0)
CallWrite(base, off)    == Instruction("call_write", base, off, 0, 0)

\* The test of an if, whose emission reads the variable ok before it is set.
IfZeroUnset(to)    == Instruction("jz", "x10", 0, 1, to)

Near(off) == -MaxBack <= off /\ off <= MaxImm

Base(off) == IF Near(off) THEN "x15" ELSE "x9"
-----------------------------------------------------------------------------
(* Runs of simple nodes.                                                   *)

EffectAt(e, base, off) ==
  IF e.kind = "add" THEN AddTo(base, off, e.value) ELSE Store(base, off, e.value)

\* Mutant: the cursor is moved as if it were still on the pointer's cell.
RunFromPointer(effects) ==
  LET all == Collapse(effects)
  IN  FlattenSeq([k \in DOMAIN all |->
        When(all[k].off # 0, <<MoveCursor(all[k].off)>>) \o <<EffectAt(all[k], "x15", 0)>>])

\* bf_jit_emit_simple_run_with_loaded_ptr_base_offset: the cursor goes from cell
\* to cell.
RunAtCursor(effects) ==
  LET all     == Collapse(effects)
      from(k) == IF k = 1 THEN 0 ELSE all[k - 1].off
      one(k)  == When(all[k].off # from(k), <<MoveCursor(all[k].off - from(k))>>)
                   \o <<EffectAt(all[k], "x15", 0)>>
  IN  FlattenSeq([k \in DOMAIN all |-> one(k)])

\* bf_jit_emit_simple_run
RunCode(effects, scope) ==
  LET all == Collapse(effects)
  IN  GuardAll(scope, {effects[k].off : k \in DOMAIN effects}, 8, 9)
        \o <<Load, Cursor(0)>>
        \o (IF Len(effects) > 2 THEN <<Cursor(0)>> \o RunAtCursor(effects)
            ELSE [k \in DOMAIN all |-> EffectAt(all[k], Base(all[k].off), all[k].off)])
-----------------------------------------------------------------------------
(* Nodes without a body, at an offset from the pointer.                    *)

InputCode(off, scope) ==
  RangeGuard(scope, off, off, 8, 9)
    \o (IF off = 0 THEN <<CallRead, Load, StoreW0("x10", 0)>>
        ELSE <<CallRead, Load, Cursor(0), StoreW0(Base(off), off)>>)

OutputCode(off, scope) ==
  RangeGuard(scope, off, off, 8, 9)
    \o (IF off = 0 THEN <<Load, CallWrite("x10", 0)>>
        ELSE <<Load, Cursor(0), CallWrite(Base(off), off)>>)

\* The terms, then the counter, with the cursor on the counter's cell.
Products(n) ==
  [k \in DOMAIN n.terms |->
     Term(Base(n.terms[k].offset), n.terms[k].offset, n.terms[k].factor)]
    \o <<Store("x15", 0, 0)>>

\* Mutant: the counter is not loaded again behind the far guard.
NotReloaded(place) == place

\* The far guard has used the counter's register for the tape's size.
Reloaded(place) == place \o <<LoadCounter>>

(***************************************************************************)
(* bf_jit_emit_op_multiply_loop, bf_jit_emit_op_nonnull_multiply_loop and  *)
(* bf_jit_emit_op_multiply_loop_with_offset.  The far guard loads the      *)
(* tape's size into the counter's register and the pointer into x8.  When  *)
(* a term is too far for an immediate, x8 itself is moved to the counter.  *)
(***************************************************************************)
MultiplyCode(n, off, scope) ==
  LET window == GuardAll(scope, TermWindow(n, off), 4, 5)
      fast   == \A d \in TermOffsets(n) : Near(d)
      moved  == When(off # 0, <<AddX8(off)>>) \o <<Cursor(0)>>
      place  == <<Load>> \o (IF fast THEN <<Cursor(off)>> ELSE moved)
      again  == IF off # 0 /\ fast THEN <<>> ELSE moved
      apply  == window \o Reloaded(again) \o Products(n)
  IN  IF n.terms = <<>>
      THEN RangeGuard(scope, off, off, 8, 9) \o <<Load>>
             \o (IF off = 0 THEN <<Store("x10", 0, 0)>>
                 ELSE <<Cursor(0), Store(Base(off), off, 0)>>)
      ELSE IF n.kind = "NONNULL_MULTIPLY_LOOP"
      THEN window \o place \o <<LoadCounter>> \o Products(n)
      ELSE RangeGuard(scope, off, off, 4, 5) \o place
             \o <<LoadCounter, IfCounterZero(Len(apply) + 1)>> \o apply

MultiZeroCode(n, scope) ==
  GuardAll(scope, TermOffsets(n) \union {n.arg}, 8, 9)
    \o <<Load>>
    \o [k \in DOMAIN n.terms |-> Store("x9", n.terms[k].offset, 0)]
    \o When(n.arg # 0, <<AddX8(n.arg)>>) \o <<StorePtr>>
-----------------------------------------------------------------------------
(* Scans.  The cell is tested through the cursor.                          *)

\* bf_jit_emit_scan_shared for step 4: four cells of the stride per turn.
ScanFour ==
  <<Load, LoadBound,
    CheckBound(3), Cursor(0), IfZero("x15", 0, 17), IfAdvanceOut(12, 9),   \* loop_start
    Cursor(0), IfZero("x15", 4, 9), Cursor(0), IfZero("x15", 8, 9),
    Cursor(0), IfZero("x15", 12, 9),
    AddX8(16), Jump(-11),
    AddX8(4),  Jump(-13),                                                  \* loop_tail
    AddX8(4),  Jump(4),                                                    \* found_plus4
    AddX8(8),  Jump(2),                                                    \* found_plus8
    AddX8(12),                                                             \* found_plus12
    StorePtr>>                                                             \* loop_done

(***************************************************************************)
(* The other steps, and bf_jit_emit_op_scan_with_pending_offset.  A scan   *)
(* by one and a scan from a negative offset find in x12 what was there.    *)
(***************************************************************************)
ScanCode(step, off) ==
  IF step = 4 /\ off = 0 THEN ScanFour
  ELSE <<Load>>
    \o When(off > 0, <<AddX8(off), LoadBound, CheckBound(1)>>)
    \o When(off < 0, <<CheckBackImm(-off, 1), AddX8(off)>>)
    \o When(off = 0 /\ step > 1, <<LoadBound>>)
    \o <<Cursor(0), IfZero("x15", 0, 5)>>
    \o (IF step > 0 THEN <<AddX8(step), CheckBound(3)>>
        ELSE <<CheckBack(-step, 3), AddX8(step)>>)
    \o <<Cursor(0), IfNonzero("x15", 0, -3), StorePtr>>
-----------------------------------------------------------------------------
(* Loops and ifs.                                                          *)

\* Mutant: the cell at an offset is not guarded.
TestCellUnguarded(off, scope) == IF off = 0 THEN <<Load>> ELSE <<Load, Cursor(off)>>

\* bf_jit_emit_current_cell_branch_zero and _at_offset, without the branch.
TestCell(off, scope) ==
  IF off = 0 THEN <<Load>>
  ELSE RangeGuard(scope, off, off, 1, 1) \o <<Load, Cursor(off)>>

TestBase(off) == IF off = 0 THEN "x10" ELSE "x15"

LoopCode(off, scope, body) ==
  LET test == TestCell(off, scope)
      size == Len(test \o body)
  IN  test \o <<IfZero(TestBase(off), 0, size + 2)>> \o body
        \o test \o <<IfNonzero(TestBase(off), 0, -(size + Len(test) + 1))>>

IfCode(off, scope, body) ==
  TestCell(off, scope)
    \o (IF off = 0 THEN <<IfZeroUnset(Len(body) + 1)>> ELSE <<IfZero("x15", 0, Len(body) + 1)>>)
    \o body

\* bf_jit_emit_op_if with a multiply tail: one guard, one load and one cursor.
TailIfCode(n, scope) ==
  LET first   == n.body[1]
      effects == EffectsOf(n.body, 2, 0)
      near    == IF first.terms = <<>> THEN {0} ELSE TermOffsets(first)
      tail    == GuardAll(scope, near \union {effects[k].off : k \in DOMAIN effects}, 4, 5)
                   \o <<Load, Cursor(0), LoadCounter>> \o Products(first) \o RunAtCursor(effects)
  IN  <<Load, IfZero("x10", 0, Len(tail) + 1)>> \o tail
-----------------------------------------------------------------------------
(* Programs.                                                               *)

\* bf_jit_node_size_hint
NodeHint(n) ==
  CASE n.kind = "ADD_PTR" -> 28
    [] n.kind = "ADD_DATA" -> 20
    [] n.kind = "SET_ZERO" -> 12
    [] n.kind \in {"SET_CONST", "IF"} -> 16
    [] n.kind \in {"INPUT", "OUTPUT"} -> 48
    [] n.kind = "SCAN" -> 80
    [] n.kind = "MULTI_ZERO" -> 64 + 16 * Len(n.terms) + (IF n.arg # 0 THEN 16 ELSE 0)
    [] n.kind \in MultiplyKinds -> IF n.terms = <<>> THEN 12 ELSE 96 + 32 * Len(n.terms)
    [] n.kind = "LOOP" -> 24

Emitter == INSTANCE BFEmitter

\* bf_jit_arch_emit_program
EmitProgram(program, scope) == Emitter!Emitted(program, scope) \o <<Epilogue>>

CodeSize(program) == Emitter!CodeSize(program)

\* The words bf_jit_emit_add_or_sub_x_imm takes to add delta.
AddWords(delta) ==
  LET amount == IF delta < 0 THEN -delta ELSE delta
  IN  (amount + MaxImm - 1) \div MaxImm

\* The words of one access; an address that fits no immediate is computed first.
AccessWords(instr) ==
  IF instr.base = "x9" THEN 2 + AddWords(instr.off) ELSE 1

Words(instr) ==
  LET access == AccessWords(instr)
      delta  == AddWords(instr.off)
  IN  CASE instr.op = "below" -> 7
        [] instr.op \in {"above", "add_ptr"} -> 5 + delta
        [] instr.op \in {"load", "check_bound", "check_back_imm", "jz", "jnz"} -> 2
        [] instr.op = "check_back" -> IF instr.off <= MaxImm THEN 2 ELSE 6
        [] instr.op = "cursor" -> 1 + delta
        [] instr.op \in {"move_cursor", "advance"} -> delta
        [] instr.op \in {"load_counter", "jz_counter", "load_bound", "jump", "store_ptr"} -> 1
        [] instr.op = "add" -> 2 * access + 1
        [] instr.op = "store" -> access + (IF instr.val = 0 THEN 0 ELSE 1)
        [] instr.op = "store_w0" -> access
        [] instr.op = "term" -> access + (IF instr.val < 0 THEN 4 ELSE 3)
        [] instr.op = "advance_out" -> 3 + delta
        [] instr.op = "call_read" -> 5
        [] instr.op = "call_write" -> 5 + access
        [] instr.op = "epilogue" -> 4

Reasons(code) ==
  {code[k].val : k \in {j \in DOMAIN code :
     code[j].op \in {"below", "above", "add_ptr", "check_bound", "check_back", "check_back_imm"}}}

\* With the prologue and the error blocks.
CodeBytes(code) ==
  4 * (7 + SumOf([k \in DOMAIN code |-> Words(code[k])]) + 4 * Cardinality(Reasons(code)))

\* The program has an if whose emission depends on an uninitialised variable.
EmissionMayFail(code) == \E k \in DOMAIN code : code[k].op = "jz" /\ code[k].val = 1
=============================================================================
