-------------------------------- MODULE BFIR --------------------------------
(***************************************************************************)
(* The intermediate representation every part of bfjit works on: nodes,    *)
(* blocks and cell arithmetic (include/bfparser.h, include/bfjit.h).       *)
(*                                                                         *)
(* A block is a sequence of nodes.  A node is a record; its body is empty  *)
(* unless it is a LOOP or an IF, its terms are empty unless it is a        *)
(* MULTI_ZERO or a multiply loop.  ADD_DATA_OFFSET and SET_CONST_OFFSET    *)
(* are left out: their only producer, bf_fold_offset_cell_ops, is never    *)
(* called, so no block of a running program holds one.                     *)
(***************************************************************************)
EXTENDS Integers, Sequences

CONSTANT CellCount      \* values of a tape cell: 256 in the code (uint8_t)

ASSUME CellCountAssumption == CellCount \in Nat \ {0}

Cell == 0 .. CellCount - 1

\* The conversion (uint8_t)v.
Byte(v) == v % CellCount

\* (uint8_t)EOF, the byte INPUT stores at the end of the input.
EofByte == Byte(-1)

Kinds == {"ADD_PTR", "ADD_DATA", "INPUT", "OUTPUT", "LOOP", "IF", "SET_ZERO",
          "SET_CONST", "MULTI_ZERO", "SCAN", "MULTIPLY_LOOP",
          "NONNULL_MULTIPLY_LOOP"}

ControlKinds  == {"LOOP", "IF"}
MultiplyKinds == {"MULTIPLY_LOOP", "NONNULL_MULTIPLY_LOOP"}
DeltaKinds    == {"ADD_PTR", "ADD_DATA"}

Terms == [offset : Int, factor : Int]

Plain(kind, arg) == [kind |-> kind, arg |-> arg, body |-> <<>>, terms |-> <<>>]

Loop(body) == [Plain("LOOP", 0) EXCEPT !.body = body]

WithTerms(kind, arg, terms) == [Plain(kind, arg) EXCEPT !.terms = terms]

\* The nodes bf_runtime_execute_simple_segment runs in one go.
IsSegmentNode(n) == n.kind \in {"ADD_PTR", "ADD_DATA", "SET_ZERO", "SET_CONST"}

\* The offsets of a node's terms, and the extremes of a set of offsets.
TermOffsets(n) == {n.terms[i].offset : i \in DOMAIN n.terms}
Least(S)    == CHOOSE x \in S : \A y \in S : x <= y
Greatest(S) == CHOOSE x \in S : \A y \in S : y <= x

\* The cells a scan looks at, on a tape of size cells, and the first of some of
\* them on its way.
StrideOn(start, step, size) == {start + k * step : k \in 0 .. size - 1} \intersect (0 .. size - 1)
FirstOf(cells, step) == IF step > 0 THEN Least(cells) ELSE Greatest(cells)
Between(i, a, b)     == (a <= i /\ i <= b) \/ (b <= i /\ i <= a)
=============================================================================
