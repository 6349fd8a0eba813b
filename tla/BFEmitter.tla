------------------------------ MODULE BFEmitter ------------------------------
(***************************************************************************)
(* The driver both code generators share (bfjit_backend_shared.c): it      *)
(* walks a block, defers the moves of the pointer, and has the backend     *)
(* emit each node at the offset the pointer lags behind.  The constants    *)
(* are the backend's callbacks (bf_jit_pending_offset_ops): the code for   *)
(* one thing, at an offset where they take one.                            *)
(***************************************************************************)
EXTENDS BFCodeGen

CONSTANTS
  RunCode(_, _),    \* effects, scope
  InputCode(_, _), OutputCode(_, _),         \* offset, scope
  MultiplyCode(_, _, _),                     \* node, offset, scope
  MultiZeroCode(_, _),                       \* node, scope
  ScanCode(_, _),                            \* step, offset
  LoopCode(_, _, _), IfCode(_, _, _),        \* offset, scope, the body's code
  TailIfCode(_, _),                          \* node, scope
  NodeHint(_)                                \* node

ScansAtOffset(n) == n.arg \in {9, -9}   \* bf_jit_scan_pending_offset_is_whitelisted

\* Mutant: a block leaves its last move unmade.
Unflushed(emitted) == emitted.code

Flushed(emitted) ==
  emitted.code \o When(emitted.pending # 0, <<MovePtr(emitted.pending)>>)

\* Mutant: the pending move is forgotten before a node emitted in its own place.
DropPending(acc) == [acc EXCEPT !.pending = 0]

\* A node emitted with nothing pending: the move is made first.
Settled(acc) == [acc EXCEPT !.code = Flushed(acc), !.pending = 0]
-----------------------------------------------------------------------------
(***************************************************************************)
(* What emitting a node adds to what has been emitted of its block: code,  *)
(* and the move still pending behind it.  next is the node to go on with:  *)
(* a run of simple nodes is emitted in one go.  emit is EmitBlock, for the *)
(* body of a node.                                                         *)
(***************************************************************************)
Also(acc, code) == [acc EXCEPT !.code = @ \o code]

\* A block to emit, with start pending before its first node.
Pieces == [block : Seq(Node), start : Int, scope : Scopes]

Piece(block, start, scope) == [block |-> block, start |-> start, scope |-> scope]

\* A body that is emitted at an offset leaves the pointer where it found it.
BodyCode(emit, n, off, scope) ==
  LET inner == emit[Piece(n.body, off, scope)]
  IN  IF off = 0 THEN Flushed(inner) ELSE inner.code

ControlCode(emit, n, off, scope) ==
  IF n.kind = "LOOP" THEN LoopCode(off, scope, BodyCode(emit, n, off, scope))
  ELSE IF HasMultiplyTail(n) THEN TailIfCode(n, scope)
  ELSE IfCode(off, scope, BodyCode(emit, n, off, scope))

EmitControl(emit, acc, n, scope) ==
  LET at == IF ControlAtOffset(n, acc.pending) THEN acc ELSE Settled(acc)
  IN  Also(at, ControlCode(emit, n, at.pending, scope))

EmitScan(acc, n) ==
  LET at == IF ScansAtOffset(n) THEN acc ELSE Settled(acc)
  IN  [Also(at, ScanCode(n.arg, at.pending)) EXCEPT !.pending = 0]

\* The nodes every offset is good for.
CodeAtOffset(n, off, scope) ==
  IF n.kind = "INPUT" THEN InputCode(off, scope)
  ELSE IF n.kind = "OUTPUT" THEN OutputCode(off, scope)
  ELSE MultiplyCode(n, off, scope)

EmitNode(emit, acc, n, scope) ==
  IF n.kind = "ADD_PTR" THEN [acc EXCEPT !.pending = @ + n.arg]
  ELSE IF n.kind \in ControlKinds THEN EmitControl(emit, acc, n, scope)
  ELSE IF n.kind = "SCAN" THEN EmitScan(acc, n)
  ELSE IF n.kind = "MULTI_ZERO" THEN Also(Settled(acc), MultiZeroCode(n, scope))
  ELSE Also(acc, CodeAtOffset(n, acc.pending, scope))

EmitSimpleRun(acc, block, i, scope) ==
  LET end == RunEnd(block, i)
  IN  [Also(acc, RunCode(EffectsOf(block, i, acc.pending), scope)) EXCEPT
         !.pending = @ + PointerDelta(SubSeq(block, i, end - 1)),
         !.next    = end]

EmitAt(emit, acc, block, i, scope) ==
  IF i < acc.next THEN acc
  ELSE IF IsSimple(block[i]) THEN EmitSimpleRun(acc, block, i, scope)
  ELSE EmitNode(emit, acc, block[i], scope)

\* bf_jit_emit_block_with_pending_offset_shared
EmitBlock[p \in Pieces] ==
  FoldLeftDomain(LAMBDA acc, i : EmitAt(EmitBlock, acc, p.block, i, p.scope),
                 [code |-> <<>>, pending |-> p.start, next |-> 1], p.block)

\* The code of a program, up to where it returns.
Emitted(program, scope) == Flushed(EmitBlock[Piece(program, 0, scope)])
-----------------------------------------------------------------------------
(* The code buffer, whose size is settled before anything is emitted.      *)

\* bf_jit_block_size_hint_shared
BlockHint[block \in Seq(Node)] ==
  FoldLeft(LAMBDA sum, n : sum + NodeHint(n)
                             + (IF n.kind \in ControlKinds THEN BlockHint[n.body] ELSE 0),
           0, block)

\* bf_jit_arch_code_size, in bytes
CodeSize(program) == Greatest({MinCodeSize, (BaseHint + BlockHint[program]) * 2})
=============================================================================
