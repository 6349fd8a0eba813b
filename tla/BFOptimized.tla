----------------------------- MODULE BFOptimized -----------------------------
(***************************************************************************)
(* The interpreter (BFRuntime) on programs as the optimiser leaves them.   *)
(* bf_runtime_execute_block runs the body of an IF once and never looks at *)
(* the cell again, and the backends do not test a NONNULL_MULTIPLY_LOOP's  *)
(* counter: both rely on what bfopt.c made of the program.  BFOptimizer    *)
(* has what is said here as its invariant JustifiedSoFar.                  *)
(***************************************************************************)
EXTENDS BFRuntime, BFLoops

\* The programs that are run are ones it can have left.
OptimizedPrograms ==
  /\ \A n \in Node : IfIsJustified(n) /\ NonnullIsFirst(n)
  /\ \A program \in Programs : NoNonnull(program)
=============================================================================
