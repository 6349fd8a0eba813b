---------------------------- MODULE BFOptimizer ----------------------------
(***************************************************************************)
(* The optimiser, bf_opt_program (bfopt.c): the passes of BFPasses in the  *)
(* order bf_opt_block runs them, one step each, inner blocks first.  The   *)
(* C call stack of bf_opt_block is the sequence frames.  Each malloc of a  *)
(* pass may fail, which leaves that pass's input as it was.                *)
(***************************************************************************)
EXTENDS BFPasses

CONSTANTS
  Programs,      \* the root blocks that are optimised
  AllocMayFail   \* BOOLEAN

\* What the parser makes nodes of.
ParsedKinds == {"ADD_PTR", "ADD_DATA", "INPUT", "OUTPUT", "LOOP"}

ASSUME ProgramsAssumption ==
  \A program \in Programs :
    /\ program \in Seq(AnyNode)
    /\ \A n \in NodesOf(program) : n.kind \in ParsedKinds

VARIABLES
  original,   \* history: the program as it was parsed
  frames,     \* invocations of bf_opt_block
  spared      \* history: an allocation has failed

vars == <<original, frames, spared>>

\* What an invocation does next: the three passes over the node at index, then
\* those over the block.
NodePasses  == <<"visit", "set zero", "zeroing loop", "multiply loop">>
BlockPasses == <<"fold set const", "dead stores 1", "scan return", "multi zero",
                 "dead stores 2", "loops to ifs", "dead stores 3", "mark nonnull">>

Invocation(block) == [block |-> block, index |-> 1, pass |-> "visit"]

Init ==
  /\ original \in Programs
  /\ frames = <<Invocation(original)>>
  /\ spared = FALSE
-----------------------------------------------------------------------------
Depth == Len(frames)
Top   == frames[Depth]
Here  == Top.block[Top.index]

Optimizing == frames # <<>> /\ Top.pass # "done"
At(pass) == Optimizing /\ Top.pass = pass

SetTop(frame) == frames' = [frames EXCEPT ![Depth] = frame]

\* The node at index becomes n, or the block becomes b, and the next pass is due.
NodeBecomes(n, pass)  == SetTop([Top EXCEPT !.block[Top.index] = n, !.pass = pass])
BlockBecomes(b, pass) == SetTop([Top EXCEPT !.block = b, !.pass = pass])

\* A pass that allocates may find no memory.
Spare(pass) ==
  /\ AllocMayFail
  /\ SetTop([Top EXCEPT !.pass = pass])
  /\ spared' = TRUE
  /\ UNCHANGED original

Done == UNCHANGED <<original, spared>>

NextNode == [Top EXCEPT !.index = @ + 1, !.pass = "visit"]
-----------------------------------------------------------------------------
(* The loop over the nodes of a block.                                     *)

\* A LOOP's body is optimised first; other nodes are left for later.
Visit ==
  /\ At("visit")
  /\ frames' =
       IF Top.index > Len(Top.block)
       THEN [frames EXCEPT ![Depth].pass = "fold set const"]
       ELSE IF Here.kind # "LOOP" THEN [frames EXCEPT ![Depth] = NextNode]
       ELSE Append([frames EXCEPT ![Depth].pass = "set zero"], Invocation(Here.body))
  /\ Done

SetZeroPass ==
  /\ At("set zero")
  /\ NodeBecomes(SetZero(Here), "zeroing loop")
  /\ Done

ZeroingLoopPass ==
  /\ At("zeroing loop")
  /\ \/ NodeBecomes(ZeroingLoop(Here), "multiply loop") /\ Done
     \/ Here.kind = "LOOP" /\ Len(Here.body) >= 2 /\ Spare("multiply loop")

\* Mutant: the index stays at a node that is still a LOOP.
MultiplyLoopAgain ==
  /\ At("multiply loop")
  /\ LET n == RecognizeMultiply(Here)
     IN  SetTop([Top EXCEPT !.block[Top.index] = n,
                            !.index = IF n.kind = "LOOP" THEN @ ELSE @ + 1,
                            !.pass = "visit"])
  /\ Done

MultiplyLoopPass ==
  /\ At("multiply loop")
  /\ \/ /\ SetTop([NextNode EXCEPT !.block[Top.index] = RecognizeMultiply(Here)])
        /\ Done
     \/ /\ AllocMayFail
        /\ IsMultiplyLoop(Here) /\ MultiplyTerms(Here.body) # <<>>
        /\ SetTop(NextNode)
        /\ spared' = TRUE
        /\ UNCHANGED original
-----------------------------------------------------------------------------
(* The passes over a block.                                                *)

FoldSetConstPass ==
  /\ At("fold set const")
  /\ BlockBecomes(FoldSetConst(Top.block), "dead stores 1")
  /\ Done

DeadStoresPass(pass, next) ==
  /\ At(pass)
  /\ \/ BlockBecomes(EliminateDeadStores(Top.block), next) /\ Done
     \/ Len(Top.block) >= 2 /\ Spare(next)

DeadStoresPasses ==
  \/ DeadStoresPass("dead stores 1", "scan return")
  \/ DeadStoresPass("dead stores 2", "loops to ifs")
  \/ DeadStoresPass("dead stores 3", "mark nonnull")

FoldScanReturnPass ==
  /\ At("scan return")
  /\ BlockBecomes(FoldScanReturn(Top.block), "multi zero")
  /\ Done

\* Each candidate allocates its terms: some may fail and others not.
FoldMultiZeroPass ==
  /\ At("multi zero")
  /\ \E failing \in IF AllocMayFail THEN SUBSET (DOMAIN Top.block) ELSE {{}} :
       /\ BlockBecomes(FoldMultiZero(Top.block, failing), "dead stores 2")
       /\ spared' = (spared \/ failing # {})
  /\ UNCHANGED original

\* Mutant: only the root's loops become ifs.
LoopsToIfsAtRoot ==
  /\ At("loops to ifs")
  /\ BlockBecomes(IF Depth = 1 THEN LoopsToIfs(Top.block) ELSE Top.block, "dead stores 3")
  /\ Done

LoopsToIfsPass ==
  /\ At("loops to ifs")
  /\ BlockBecomes(LoopsToIfs(Top.block), "dead stores 3")
  /\ Done

\* The last pass, and the return to the invocation for the block around it.
MarkNonnullPass ==
  /\ At("mark nonnull")
  /\ frames' = IF Depth = 1 THEN <<[Top EXCEPT !.block = MarkNonnull(@), !.pass = "done"]>>
               ELSE LET caller == frames[Depth - 1]
                    IN  [SubSeq(frames, 1, Depth - 1) EXCEPT
                           ![Depth - 1].block[caller.index].body = MarkNonnull(Top.block)]
  /\ Done

Finished == ~Optimizing /\ UNCHANGED vars

Step ==
  \/ Visit \/ SetZeroPass \/ ZeroingLoopPass \/ MultiplyLoopPass
  \/ FoldSetConstPass \/ DeadStoresPasses \/ FoldScanReturnPass
  \/ FoldMultiZeroPass \/ LoopsToIfsPass \/ MarkNonnullPass

Next == Step \/ Finished

Spec == Init /\ [][Next]_vars

\* The optimiser runs on one thread that nothing blocks.
FairSpec == Spec /\ WF_vars(Step)
-----------------------------------------------------------------------------
(* Properties.                                                             *)

\* The program as it would be executed if the optimiser stopped now: the blocks
\* on the stack, each put back into the one that holds it.
Rebuilt ==
  LET plugged[i \in 1 .. Depth] ==
        IF i = Depth THEN frames[i].block
        ELSE [frames[i].block EXCEPT ![frames[i].index].body = plugged[i + 1]]
  IN  plugged[1]

\* No cell has two terms of a multiply loop, so that the order they are applied in
\* is of no matter, and none is the counter, which the interpreter and the backends
\* read until the last one is done.  (A MULTI_ZERO may name a cell twice, when dead
\* stores could not be removed.)
TermsAreDistinct(n) ==
  n.kind \in MultiplyKinds =>
    /\ IsInjective([k \in DOMAIN n.terms |-> n.terms[k].offset])
    /\ 0 \notin TermOffsets(n)

\* What the interpreter and the backends take for granted of multiply loops, and of
\* IFs and NONNULL_MULTIPLY_LOOPs (BFOptimized), holds from pass to pass, whichever
\* allocations fail: no later pass over a block around them takes away why
\* bf_try_convert_loop_to_if or bf_mark_known_nonnull_multiply_in_ifs made them.
JustifiedSoFar ==
  /\ \A n \in NodesOf(Rebuilt) : TermsAreDistinct(n) /\ IfIsJustified(n) /\ NonnullIsFirst(n)
  /\ NoNonnull(Rebuilt)

\* With memory enough, the passes end in what OptimizeBlock says, which is what
\* the runs of the interpreter start from.
EndsOptimized == ~Optimizing /\ ~spared => Rebuilt = OptimizeBlock(original)
=============================================================================
