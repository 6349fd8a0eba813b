------------------------------ MODULE BFJitPlan ------------------------------
(***************************************************************************)
(* The planning helpers both JIT backends share (bfjit_backend_shared.c)   *)
(* that the profiled interpreter also calls to shadow the pointer offset   *)
(* the JIT would be deferring at each node.                                *)
(***************************************************************************)
EXTENDS BFIR, SequencesExt

CONSTANT Node           \* the nodes of the programs under study

\* Every node of a program's tree: closed under taking a node's body.
ASSUME NodeAssumption ==
  \A n \in Node : /\ n.kind \in Kinds
                  /\ n.arg \in Int
                  /\ n.body \in Seq(Node)
                  /\ n.terms \in Seq(Terms)

\* The pointer movement of a block's own ADD_PTR nodes.
PointerDelta(block) ==
  FoldSeq(LAMBDA n, sum : IF n.kind = "ADD_PTR" THEN sum + n.arg ELSE sum, 0, block)

(***************************************************************************)
(* bf_jit_block_is_offset_safe_zero_delta: the block can be emitted at a   *)
(* constant displacement from the pointer, because neither it nor a nested *)
(* block scans, multiplies or zeroes several cells, and each of them       *)
(* leaves the pointer where it found it.                                   *)
(***************************************************************************)
OffsetSafeZeroDelta[block \in Seq(Node)] ==
  /\ \A i \in DOMAIN block :
       \/ IsSegmentNode(block[i])
       \/ block[i].kind \in {"INPUT", "OUTPUT"}
       \/ block[i].kind \in ControlKinds /\ OffsetSafeZeroDelta[block[i].body]
  /\ PointerDelta(block) = 0

\* bf_jit_build_control_flow_plan: the node is emitted at the pending offset.
ControlAtOffset(n, pending) ==
  /\ pending # 0
  /\ n.kind \in ControlKinds
  /\ OffsetSafeZeroDelta[n.body]
=============================================================================
