-------------------------------- MODULE BFX86 --------------------------------
(***************************************************************************)
(* The x86-64 code generator (bfjit_backend_x86_64.c), which the shared    *)
(* driver (BFEmitter) calls: from a block to a sequence of abstract        *)
(* instructions.  Kept are the registers that matter: the tape's address   *)
(* is loaded into rax or into rsi, the pointer into rcx, a multiply loop's *)
(* counter or an input byte into dl.                                       *)
(*                                                                         *)
(* Left out, since no program of the parser and optimiser gets there: a    *)
(* scan of step 0, a MULTI_ZERO without terms, and the multiply tail of an *)
(* if emitted at an offset (its body would not be offset safe).  Nor is an *)
(* addition of 0 kept, which the code still emits for a run of one or two. *)
(***************************************************************************)
EXTENDS BFCodeGen

-----------------------------------------------------------------------------
(* Instructions.                                                           *)

Load(base)         == Instruction("load", base, 0, 0, 0)        \* the tape, and rcx
AddImm(off, val)   == Instruction("add", "rax", off, val, 0)
StoreDl(off)       == Instruction("store_dl", "rax", off, 0, 0)
LoadDl(off)        == Instruction("load_dl", "rsi", off, 0, 0)
AddProduct(off, factor) == Instruction("term", "rsi", off, factor, 0)
IfDlZero(to)       == Instruction("jz_dl", "", 0, 0, to)
AddRcx(delta)     == Instruction("advance", "", delta, 0, 0)   \* rcx
TryAddRcx(delta, reason) == Instruction("try_advance", "", delta, reason, 0)
CheckRcx(reason)   == Instruction("check_rcx", "", 0, reason, 0)
CallWrite(off)     == Instruction("call_write", "rax", off, 0, 0)
-----------------------------------------------------------------------------
(* Runs of simple nodes.                                                   *)

\* bf_jit_emit_simple_run_with_loaded_ptr
RunLoaded(effects) ==
  LET all == Collapse(effects)
  IN  [k \in DOMAIN all |-> IF all[k].kind = "add" THEN AddImm(all[k].off, all[k].value)
                            ELSE Store("rax", all[k].off, all[k].value)]

\* bf_jit_emit_simple_run: one guard for the whole run.
EmitRun(effects, scope) ==
  GuardAll(scope, {effects[k].off : k \in DOMAIN effects}, 8, 9)
    \o <<Load("rax")>> \o RunLoaded(effects)
-----------------------------------------------------------------------------
(* Nodes without a body, at an offset from the pointer.                    *)

EmitInput(off, scope) ==
  RangeGuard(scope, off, off, 8, 9) \o <<CallRead, Load("rax"), StoreDl(off)>>

EmitOutput(off, scope) ==
  RangeGuard(scope, off, off, 8, 9) \o <<Load("rax"), CallWrite(off)>>

\* The terms, then the counter, with rsi and rcx loaded and the counter in dl.
Products(n, off) ==
  [k \in DOMAIN n.terms |-> AddProduct(off + n.terms[k].offset, n.terms[k].factor)]
    \o <<Store("rsi", off, 0)>>

\* Mutant: the counter is not tested before the far guard.
UntestedMultiply(n, off, scope) ==
  IF n.terms = <<>>
  THEN RangeGuard(scope, off, off, 8, 9) \o <<Load("rax"), Store("rax", off, 0)>>
  ELSE GuardAll(scope, TermWindow(n, off), 4, 5)
         \o <<Load("rsi"), LoadDl(off)>> \o Products(n, off)

(***************************************************************************)
(* bf_jit_emit_op_multiply_loop, bf_jit_emit_op_nonnull_multiply_loop and  *)
(* bf_jit_emit_op_multiply_loop_with_offset: the far guard is passed only  *)
(* with a counter that is not zero, which the second kind takes for        *)
(* granted.                                                                *)
(***************************************************************************)
EmitMultiply(n, off, scope) ==
  LET window == GuardAll(scope, TermWindow(n, off), 4, 5)
      apply  == Products(n, off)
      source == <<Load("rsi"), LoadDl(off)>>
  IN  IF n.terms = <<>>
      THEN RangeGuard(scope, off, off, 8, 9) \o <<Load("rax"), Store("rax", off, 0)>>
      ELSE IF n.kind = "NONNULL_MULTIPLY_LOOP" THEN window \o source \o apply
      ELSE RangeGuard(scope, off, off, 4, 5) \o source
             \o <<IfDlZero(Len(window \o apply) + 1)>> \o window \o apply

EmitMultiZero(n, scope) ==
  GuardAll(scope, TermOffsets(n) \union {n.arg}, 8, 9)
    \o <<Load("rax")>>
    \o [k \in DOMAIN n.terms |-> Store("rax", n.terms[k].offset, 0)]
    \o When(n.arg # 0, <<AddRcx(n.arg)>>) \o <<StorePtr>>

\* bf_jit_emit_scan_shared for step 4: four cells of the stride per turn.
EmitScan4 ==
  <<Load("rsi"),
    CheckRcx(3),  IfZero("rsi", 0, 14), IfAdvanceOut(12, 6),    \* loop_start
    IfZero("rsi", 4, 7), IfZero("rsi", 8, 8), IfZero("rsi", 12, 9),
    AddRcx(16), Jump(-7),
    AddRcx(4),  Jump(-9),                                      \* loop_tail
    AddRcx(4),  Jump(4),                                       \* found_plus4
    AddRcx(8),  Jump(2),                                       \* found_plus8
    AddRcx(12),                                                \* found_plus12
    StorePtr>>                                                  \* loop_done

(***************************************************************************)
(* bf_jit_emit_scan_shared for the other steps, and, when the scan starts  *)
(* at a pending offset, bf_jit_emit_op_scan_with_pending_offset.           *)
(***************************************************************************)
EmitScan(step, off) ==
  <<Load("rsi")>>
    \o When(off > 0, <<TryAddRcx(off, 1)>>)
    \o When(off < 0, <<CheckBack(-off, 1), AddRcx(off)>>)
    \o <<IfZero("rsi", 0, 4)>>
    \o (IF step > 0 THEN <<AddRcx(step), CheckRcx(3)>>
        ELSE <<CheckBack(-step, 3), AddRcx(step)>>)
    \o <<IfNonzero("rsi", 0, -2), StorePtr>>

ScanCode(step, off) == IF step = 4 /\ off = 0 THEN EmitScan4 ELSE EmitScan(step, off)
-----------------------------------------------------------------------------
(* Loops, ifs and blocks.                                                  *)

\* bf_jit_emit_current_cell_cmp_zero and _disp_cmp_zero, without the compare.
TestCell(off, scope) == RangeGuard(scope, off, off, 1, 1) \o <<Load("rax")>>

LoopCode(off, scope, body) ==
  LET test == TestCell(off, scope)
      size == Len(test \o body)
  IN  test \o <<IfZero("rax", off, size + 2)>> \o body
        \o test \o <<IfNonzero("rax", off, -(size + Len(test) + 1))>>

IfCode(off, scope, body) ==
  TestCell(off, scope) \o <<IfZero("rax", off, Len(body) + 1)>> \o body

\* bf_jit_emit_op_if with such a tail: one guard and one load for the multiply
\* loop and the run behind it.
MultiplyTail(n, scope) ==
  LET first   == n.body[1]
      effects == EffectsOf(n.body, 2, 0)
      near    == IF first.terms = <<>> THEN {0} ELSE TermOffsets(first)
  IN  GuardAll(scope, near \union {effects[k].off : k \in DOMAIN effects}, 4, 5)
        \o <<Load("rax"), LoadDl(0)>> \o Products(first, 0) \o RunLoaded(effects)

TailIfCode(n, scope) == IfCode(0, scope, MultiplyTail(n, scope))
-----------------------------------------------------------------------------
(* Programs.                                                               *)

\* bf_jit_node_size_hint
NodeHint(n) ==
  CASE n.kind \in {"ADD_PTR", "INPUT", "OUTPUT"} -> 32
    [] n.kind = "SCAN" -> 128
    [] n.kind = "MULTI_ZERO" -> 48 + 8 * Len(n.terms) + (IF n.arg # 0 THEN 8 ELSE 0)
    [] n.kind \in MultiplyKinds /\ n.terms # <<>> -> 64 + 16 * Len(n.terms)
    [] n.kind = "LOOP" -> 24
    [] OTHER -> 16

Emitter == INSTANCE BFEmitter WITH
  RunCode <- EmitRun, InputCode <- EmitInput, OutputCode <- EmitOutput,
  MultiplyCode <- EmitMultiply, MultiZeroCode <- EmitMultiZero

\* bf_jit_arch_emit_program
EmitProgram(program, scope) == Emitter!Emitted(program, scope) \o <<Epilogue>>

CodeSize(program) == Emitter!CodeSize(program)

(***************************************************************************)
(* The bytes of an instruction, and of a program's code: with the prologue *)
(* and one block for each error some instruction jumps to.  At the pointer *)
(* itself some instructions have a shorter form; a store only has one in a *)
(* multiply loop without terms, which is not told apart here.              *)
(***************************************************************************)
Bytes(instr) ==
  LET form(at, displaced) == IF instr.off = 0 THEN at ELSE displaced
  IN  CASE instr.op = "below" -> 16
        [] instr.op = "above" -> 20
        [] instr.op = "add_ptr" -> 24
        [] instr.op \in {"load", "advance"} -> 7
        [] instr.op \in {"add", "store", "jz_dl"} -> 8
        [] instr.op = "store_dl" -> form(3, 7)
        [] instr.op = "load_dl" -> form(4, 8)
        [] instr.op = "term" -> IF instr.val \in {1, -1} THEN 7 ELSE 15
        [] instr.op \in {"jz", "jnz"} -> form(10, 14)
        [] instr.op = "jump" -> 5
        [] instr.op = "try_advance" -> 22
        [] instr.op = "check_rcx" -> 10
        [] instr.op = "check_back" -> 13
        [] instr.op = "advance_out" -> 19
        [] instr.op = "store_ptr" -> 4
        [] instr.op = "call_read" -> 14
        [] instr.op = "call_write" -> form(16, 20)
        [] instr.op = "epilogue" -> 16

Reasons(code) ==
  {code[k].val : k \in {j \in DOMAIN code :
     code[j].op \in {"below", "above", "add_ptr", "try_advance", "check_rcx", "check_back"}}}

CodeBytes(code) ==
  26 + SumOf([k \in DOMAIN code |-> Bytes(code[k])]) + 10 * Cardinality(Reasons(code))
=============================================================================
