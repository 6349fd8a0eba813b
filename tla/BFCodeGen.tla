------------------------------ MODULE BFCodeGen ------------------------------
(***************************************************************************)
(* What the two code generators have in common: the plans of               *)
(* bfjit_backend_shared.c for runs of simple nodes and multiply loops, and *)
(* the abstract instructions both emit.  An instruction stands for the few *)
(* machine instructions one emit helper writes; a jump is relative to its  *)
(* own place.                                                              *)
(***************************************************************************)
EXTENDS BFJitPlan

CONSTANTS
  Scopes,       \* what an emitter may find in its scoped-guard fields
  BaseHint,     \* bytes estimated besides the nodes: 256 in the code
  MinCodeSize   \* bytes a code buffer has at least: 16384 in the code

ASSUME ScopesAssumption == Scopes \subseteq [active : BOOLEAN, min : Int, max : Int]

When(condition, code) == IF condition THEN code ELSE <<>>

Instruction(op, base, off, val, to) ==
  [op |-> op, base |-> base, off |-> off, val |-> val, to |-> to]

Below(off, reason) == Instruction("below", "", off, reason, 0)  \* error: pointer < -off
Above(off, reason) == Instruction("above", "", off, reason, 0)  \* error: pointer + off >= size
CheckBack(delta, reason) == Instruction("check_back", "", delta, reason, 0)  \* in a scan
IfAdvanceOut(delta, to)  == Instruction("advance_out", "", delta, 0, to)
MovePtr(delta)           == Instruction("add_ptr", "", delta, 1, 0)
StorePtr                 == Instruction("store_ptr", "", 0, 0, 0)
Store(base, off, val)    == Instruction("store", base, off, val, 0)
IfZero(base, off, to)    == Instruction("jz", base, off, 0, to)
IfNonzero(base, off, to) == Instruction("jnz", base, off, 0, to)
Jump(to)                 == Instruction("jump", "", 0, 0, to)
CallRead                 == Instruction("call_read", "", 0, 0, 0)
Epilogue                 == Instruction("epilogue", "", 0, 0, 0)

\* The sum of some lengths.
SumOf(length) ==
  MapThenSumSet(LAMBDA size : size * Cardinality({k \in DOMAIN length : length[k] = size}),
                Range(length))
-----------------------------------------------------------------------------
(* Guards.  The emitter finds a scoped guard in its fields, which          *)
(* bf_jit_emitter_init leaves uninitialised: inactive, or active with some *)
(* window.  Nothing ever sets it, bf_jit_enter_guard_scope has no caller.  *)

NoScope == [active |-> FALSE, min |-> 0, max |-> 0]

Covers(scope, min, max) == scope.active /\ scope.min <= min /\ max <= scope.max

\* Mutant: the lower end is not checked.
UpperGuard(scope, min, max, below, above) ==
  IF Covers(scope, min, max) THEN <<>> ELSE When(max > 0, <<Above(max, above)>>)

\* bf_jit_emit_ptr_range_guard
RangeGuard(scope, min, max, below, above) ==
  IF Covers(scope, min, max) THEN <<>>
  ELSE When(min < 0, <<Below(min, below)>>) \o When(max > 0, <<Above(max, above)>>)

GuardAll(scope, offsets, below, above) ==
  RangeGuard(scope, Least(offsets), Greatest(offsets), below, above)
-----------------------------------------------------------------------------
(* Runs of simple nodes and moves.                                         *)

IsSimple(n) == n.kind \in {"ADD_DATA", "SET_ZERO", "SET_CONST"}

\* Where the run from index i ends (next_index).
RunEnd(block, i) ==
  Least({k \in i .. Len(block) + 1 :
           k > Len(block) \/ ~(IsSimple(block[k]) \/ block[k].kind = "ADD_PTR")})

\* Mutant: the value is not converted to a byte.
EffectWide(n, off) ==
  [off   |-> off,
   kind  |-> IF n.kind = "ADD_DATA" THEN "add" ELSE "set",
   value |-> IF n.kind = "SET_ZERO" THEN 0 ELSE n.arg]

Effect(n, off) ==
  [off   |-> off,
   kind  |-> IF n.kind = "ADD_DATA" THEN "add" ELSE "set",
   value |-> IF n.kind = "SET_ZERO" THEN 0 ELSE Byte(n.arg)]

\* The effects of the run's nodes, each at its offset from the pointer.
EffectsOf(block, i, pending) ==
  LET run   == SubSeq(block, i, RunEnd(block, i) - 1)
      off(k) == pending + PointerDelta(SubSeq(run, 1, k))
  IN  FoldLeftDomain(LAMBDA seq, k : IF IsSimple(run[k]) THEN Append(seq, Effect(run[k], off(k)))
                                     ELSE seq,
                     <<>>, run)

\* bf_jit_merge_simple_effect, of two effects on one cell.
Merged(old, new) ==
  LET both == IF new.kind = "add" THEN [old EXCEPT !.value = Byte(@ + new.value)] ELSE new
  IN  IF both.kind = "add" /\ both.value = 0 THEN [both EXCEPT !.kind = "none"] ELSE both

\* Neighbouring effects on the same cell are merged; one that adds up to nothing
\* gives its place to the next, and is not emitted at the end.
Collapse(effects) ==
  LET add(seq, e) ==
        LET first == Merged([e EXCEPT !.kind = "add", !.value = 0], e)
        IN  IF seq = <<>> THEN <<first>>
            ELSE IF Last(seq).kind = "none" THEN Append(Front(seq), first)
            ELSE IF Last(seq).off # e.off THEN Append(seq, first)
            ELSE Append(Front(seq), Merged(Last(seq), e))
      all == FoldLeft(add, <<>>, effects)
  IN  IF all # <<>> /\ Last(all).kind = "none" THEN Front(all) ELSE all
-----------------------------------------------------------------------------
(* Multiply loops.                                                         *)

\* The window a multiply loop's guard covers; the counter's own offset is
\* included when it is not the pointer's.
TermWindow(n, off) ==
  {off + d : d \in TermOffsets(n)} \union (IF off = 0 THEN {} ELSE {off})

\* bf_jit_if_has_nonnull_multiply_simple_tail
HasMultiplyTail(n) ==
  /\ n.kind = "IF" /\ Len(n.body) >= 2
  /\ n.body[1].kind = "NONNULL_MULTIPLY_LOOP"
  /\ RunEnd(n.body, 2) = Len(n.body) + 1
  /\ EffectsOf(n.body, 2, 0) # <<>>
  /\ PointerDelta(n.body) = 0
=============================================================================
