------------------------------ MODULE BFPasses ------------------------------
(***************************************************************************)
(* The optimiser's passes over a block (bfopt.c), each an operator from a  *)
(* block to the block the pass leaves behind; those over one loop are in   *)
(* BFLoops.                                                                *)
(*                                                                         *)
(* A pass that allocates leaves its input as it is when malloc fails; that *)
(* choice belongs to the caller (BFOptimizer), except in FoldMultiZero,    *)
(* where each candidate allocates on its own.                              *)
(***************************************************************************)
EXTENDS BFLoops

CONSTANTS
  ScanReturnPass,  \* BOOLEAN: the passes under #if defined(__aarch64__)
  MaxNesting       \* bound on the nesting of blocks; the code has none

ASSUME MaxNestingAssumption == MaxNesting \in Nat

\* The nodes that nest no deeper than that.
NodesUpTo[depth \in Nat] ==
  IF depth = 0 THEN {}
  ELSE [kind : Kinds, arg : Int, body : Seq(NodesUpTo[depth - 1]), terms : Seq(Terms)]

AnyNode == NodesUpTo[MaxNesting]

\* Every node of a block, those of its nodes' bodies included.
NodesOf(block) ==
  LET nodes[b \in Seq(AnyNode)] ==
        UNION {{b[i]} \union nodes[b[i].body] : i \in DOMAIN b}
  IN  nodes[block]

\* A loop over a block that changes it as it goes: each turn leads from a block and
\* an index in it to the next, and there are no more turns than the block has nodes.
LoopStates == [block : Seq(AnyNode), index : Nat \ {0}]

LoopOver(turn, block) ==
  FoldLeftDomain(LAMBDA loop, k : turn[loop], [block |-> block, index |-> 1], block).block
-----------------------------------------------------------------------------
\* bf_opt_fold_set_const: a store followed by an addition to the same cell.
\* The index steps back after a fold, except at the first node.
FoldSetConstTurn(loop) ==
  LET block == loop.block  i == loop.index
  IN  IF i >= Len(block) THEN loop
      ELSE IF block[i].kind \in StoreKinds /\ block[i + 1].kind = "ADD_DATA"
      THEN LET value  == block[i].arg + block[i + 1].arg
               merged == Plain(IF value = 0 THEN "SET_ZERO" ELSE "SET_CONST", value)
           IN  [block |-> SubSeq(block, 1, i - 1) \o <<merged>>
                            \o SubSeq(block, i + 2, Len(block)),
                index |-> IF i > 1 THEN i ELSE i + 1]
      ELSE [loop EXCEPT !.index = i + 1]

FoldSetConst(block) == LoopOver([loop \in LoopStates |-> FoldSetConstTurn(loop)], block)

(***************************************************************************)
(* bf_opt_eliminate_dead_stores: one forward scan.  records maps an offset *)
(* to the last store to that cell that nothing has read or changed since;  *)
(* a later store, INPUT or MULTI_ZERO of the cell makes that store dead.   *)
(***************************************************************************)
DeadStores(block) ==
  LET forget(acc, offsets) ==
        [acc EXCEPT !.records = [d \in DOMAIN @ \ offsets |-> @[d]]]
      kill(acc, offsets) ==
        [forget(acc, offsets) EXCEPT
           !.dead = @ \union {acc.records[d] : d \in DOMAIN acc.records \intersect offsets}]
      visit(acc, i) ==
        LET n == block[i]  at == OffsetAt(block, i)
        IN  CASE n.kind = "ADD_PTR" -> acc
              [] n.kind \in StoreKinds ->
                   [kill(acc, {at}) EXCEPT !.records = (at :> i) @@ @]
              [] n.kind = "INPUT" -> kill(acc, {at})
              [] n.kind \in {"ADD_DATA", "OUTPUT"} -> forget(acc, {at})
              [] n.kind = "MULTI_ZERO" -> kill(acc, {at + d : d \in TermOffsets(n)})
              [] OTHER -> forget(acc, DOMAIN acc.records)
  IN  FoldLeftDomain(visit, [records |-> <<>>, dead |-> {}], block).dead

EliminateDeadStores(block) ==
  IF Len(block) < 2 THEN block
  ELSE LET dead == DeadStores(block)
       IN  FoldLeftDomain(LAMBDA kept, i : IF i \in dead THEN kept ELSE Append(kept, block[i]),
                          <<>>, block)

\* bf_opt_fold_redundant_scan_return: the first scan of "scan, step back,
\* scan back" is dropped.
FoldScanReturnTurn(loop) ==
  LET block == loop.block  i == loop.index
  IN  IF i + 2 > Len(block) THEN loop
      ELSE IF /\ block[i].kind = "SCAN" /\ block[i].arg # 0
              /\ block[i + 1].kind = "ADD_PTR" /\ block[i + 1].arg = -block[i].arg
              /\ block[i + 2].kind = "SCAN" /\ block[i + 2].arg = -block[i].arg
      THEN [block |-> RemoveAt(block, i), index |-> IF i > 1 THEN i ELSE i + 1]
      ELSE [loop EXCEPT !.index = i + 1]

FoldScanReturn(block) ==
  IF ScanReturnPass THEN LoopOver([loop \in LoopStates |-> FoldScanReturnTurn(loop)], block)
  ELSE block

(***************************************************************************)
(* bf_try_fold_multi_zero: SET_ZERO (ADD_PTR SET_ZERO)+ ADD_PTR? becomes   *)
(* one MULTI_ZERO that also makes the total move.  The candidates whose    *)
(* allocation fails are left alone.                                        *)
(***************************************************************************)
ZeroRunEnd(block, i) ==
  LET pairs == {m \in 0 .. Len(block) :
                  /\ i + 2 * m <= Len(block)
                  /\ \A k \in 1 .. m : /\ block[i + 2 * k - 1].kind = "ADD_PTR"
                                       /\ block[i + 2 * k].kind = "SET_ZERO"}
  IN  i + 2 * Greatest(pairs)

FoldMultiZeroTurn(loop, failing) ==
  LET block == loop.block
      i     == loop.index
      last  == ZeroRunEnd(block, i)
      stop  == IF last < Len(block) /\ block[last + 1].kind = "ADD_PTR" THEN last + 1 ELSE last
      run   == SubSeq(block, i, stop)
      node  == WithTerms("MULTI_ZERO", BlockDelta(run),
                         ZeroTerms([k \in 1 .. (last - i) \div 2 + 1 |->
                                      OffsetAt(run, 2 * k - 1)]))
  IN  IF i > Len(block) THEN loop
      ELSE IF block[i].kind # "SET_ZERO" \/ last = i \/ i \in failing
      THEN [loop EXCEPT !.index = i + 1]
      ELSE [block |-> SubSeq(block, 1, i - 1) \o <<node>> \o SubSeq(block, stop + 1, Len(block)),
            index |-> i + 1]

FoldMultiZero(block, failing) ==
  LoopOver([loop \in LoopStates |-> FoldMultiZeroTurn(loop, failing)], block)

\* The loop over the block that turns loops into ifs.
LoopsToIfs(block) == [i \in DOMAIN block |-> LoopToIf(block[i])]

\* The nodes of a block and of the bodies in it are marked, from the innermost out.
MarkEach(mark(_), block) ==
  LET marked[b \in Seq(AnyNode)] ==
        [i \in DOMAIN b |->
           mark(IF b[i].kind \in ControlKinds THEN [b[i] EXCEPT !.body = marked[@]] ELSE b[i])]
  IN  marked[block]

\* Mutant: every multiply loop of an if's body is marked.
MarkEveryMultiply(block) ==
  MarkEach(LAMBDA n :
             IF n.kind # "IF" THEN n
             ELSE [n EXCEPT !.body = [i \in DOMAIN @ |->
                                        IF @[i].kind # "MULTIPLY_LOOP" THEN @[i]
                                        ELSE [@[i] EXCEPT !.kind = "NONNULL_MULTIPLY_LOOP"]]],
           block)

\* An if whose body starts with a multiply loop enters it with a nonzero counter.
MarkFirst(n) ==
  IF n.kind = "IF" /\ n.body # <<>> /\ n.body[1].kind = "MULTIPLY_LOOP"
  THEN [n EXCEPT !.body[1].kind = "NONNULL_MULTIPLY_LOOP"] ELSE n

\* bf_mark_known_nonnull_multiply_in_ifs, which marks a node before those of its
\* body: that makes no difference, as a multiply loop has no body.
MarkNonnull(block) == MarkEach(MarkFirst, block)
-----------------------------------------------------------------------------
\* bf_opt_block, when every allocation succeeds.
OptimizeBlock(block) ==
  LET optimized[b \in Seq(AnyNode)] ==
        LET node(n) == IF n.kind # "LOOP" THEN n
                       ELSE RecognizeMultiply(ZeroingLoop(SetZero(
                              [n EXCEPT !.body = optimized[@]])))
            nodes   == FoldLeft(LAMBDA done, n : Append(done, node(n)), <<>>, b)
            stored  == EliminateDeadStores(FoldSetConst(nodes))
            zeroed  == EliminateDeadStores(FoldMultiZero(FoldScanReturn(stored), {}))
        IN  MarkNonnull(EliminateDeadStores(LoopsToIfs(zeroed)))
  IN  optimized[block]
=============================================================================
