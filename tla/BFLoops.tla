------------------------------- MODULE BFLoops -------------------------------
(***************************************************************************)
(* The optimiser's passes over one loop (bfopt.c), each an operator from a *)
(* node to the node the pass leaves behind, and what they find out about a *)
(* loop's body.                                                            *)
(***************************************************************************)
EXTENDS BFIR, SequencesExt

CONSTANT MultiplyMaxOffsets  \* BF_MULTIPLY_MAX_OFFSETS: 256 in the code

StoreKinds == {"SET_ZERO", "SET_CONST"}

\* Mutant: the move a MULTI_ZERO makes is forgotten.
MoveOfAddPtr(n) == IF n.kind = "ADD_PTR" THEN n.arg ELSE 0

\* How far a node moves the pointer, when that is known.
Move(n) == IF n.kind \in {"ADD_PTR", "MULTI_ZERO"} THEN n.arg ELSE 0

\* The pointer's offset from the block's start when node i is reached.
OffsetAt(block, i) == SumFunction([k \in 1 .. i - 1 |-> Move(block[k])])

BlockDelta(block) == OffsetAt(block, Len(block) + 1)

\* Mutant: an offset is listed once for each node.
OffsetsWithRepeats(block, kinds) ==
  FoldLeftDomain(LAMBDA seen, i : IF block[i].kind \notin kinds THEN seen
                                  ELSE Append(seen, OffsetAt(block, i)),
                 <<>>, block)

\* The offsets that the nodes of some kinds act on, in order of first use.
OffsetsOf(block, kinds) ==
  FoldLeftDomain(LAMBDA seen, i :
                   IF block[i].kind \notin kinds \/ Contains(seen, OffsetAt(block, i))
                   THEN seen ELSE Append(seen, OffsetAt(block, i)),
                 <<>>, block)

\* The sum of the ADD_DATA arguments at one offset.
DeltaAt(block, offset) ==
  FoldLeftDomain(LAMBDA sum, i :
                   IF block[i].kind = "ADD_DATA" /\ OffsetAt(block, i) = offset
                   THEN sum + block[i].arg ELSE sum,
                 0, block)

ZeroTerms(offsets) == [i \in DOMAIN offsets |-> [offset |-> offsets[i], factor |-> 0]]
-----------------------------------------------------------------------------
(* Passes over one loop node.                                              *)

\* bf_opt_set_zero: [-] and [+] become SET_ZERO, [>>] and the like a SCAN.
SetZero(n) ==
  IF n.kind # "LOOP" \/ Len(n.body) # 1 THEN n
  ELSE LET only == n.body[1]
       IN  CASE only.kind = "ADD_DATA" /\ only.arg \in {-1, 1} -> Plain("SET_ZERO", 0)
             [] only.kind = "ADD_PTR" -> Plain("SCAN", only.arg)
             [] OTHER -> n

\* bf_try_recognize_zeroing_loop: a loop that counts its cell down and only
\* zeroes others zeroes them all in one go (it stays a LOOP).
IsZeroingLoop(n) ==
  /\ n.kind = "LOOP"
  /\ Len(n.body) >= 2
  /\ \A i \in DOMAIN n.body :
       LET m == n.body[i]
       IN  \/ m.kind = "ADD_PTR" /\ m.arg # 0
           \/ /\ m.kind = "SET_ZERO" \/ (m.kind = "SET_CONST" /\ m.arg = 0)
              /\ OffsetAt(n.body, i) # 0
           \/ m.kind = "ADD_DATA" /\ OffsetAt(n.body, i) = 0
  /\ BlockDelta(n.body) = 0
  /\ OffsetsOf(n.body, StoreKinds) # <<>>
  /\ DeltaAt(n.body, 0) \in {-1, 1}

ZeroingLoop(n) ==
  IF ~IsZeroingLoop(n) THEN n
  ELSE Loop(<<WithTerms("MULTI_ZERO", 0,
                        ZeroTerms(<<0>> \o OffsetsOf(n.body, StoreKinds)))>>)

\* bf_try_recognize_multiply_loop: a loop that counts its cell down by one (or
\* up, with every factor negated) and adds constants to others.
IsMultiplyLoop(n) ==
  /\ n.kind = "LOOP"
  /\ \A i \in DOMAIN n.body : n.body[i].kind \in DeltaKinds
  /\ Len(OffsetsOf(n.body, {"ADD_DATA"})) <= MultiplyMaxOffsets
  /\ BlockDelta(n.body) = 0
  /\ DeltaAt(n.body, 0) \in {-1, 1}

\* The terms for the offsets but the loop's own, in their order.
TermsFor(offsets, body, sign) ==
  FoldLeft(LAMBDA terms, d :
             IF d = 0 THEN terms
             ELSE Append(terms, [offset |-> d, factor |-> sign * DeltaAt(body, d)]),
           <<>>, offsets)

\* Mutant: the factors keep their sign when the loop counts up.
UnsignedMultiplyTerms(body) == TermsFor(OffsetsOf(body, {"ADD_DATA"}), body, 1)

MultiplyTerms(body) == TermsFor(OffsetsOf(body, {"ADD_DATA"}), body, -DeltaAt(body, 0))

RecognizeMultiply(n) ==
  IF IsMultiplyLoop(n) THEN WithTerms("MULTIPLY_LOOP", 0, MultiplyTerms(n.body)) ELSE n

\* Mutant: an INPUT into the loop's cell is overlooked.
InputLeavesOriginZero(body) ==
  /\ BlockDelta(body) = 0
  /\ \A i \in DOMAIN body : body[i].kind \in {"ADD_PTR", "INPUT", "OUTPUT", "SET_ZERO"}
  /\ Contains(OffsetsOf(body, StoreKinds), 0)

(***************************************************************************)
(* bf_try_convert_loop_to_if: a loop whose body provably leaves zero in    *)
(* the loop's own cell, under the pointer, runs at most once.  What is     *)
(* known of that cell, the origin, after a node that is reached at an      *)
(* offset from it: "zero", "unknown", or "given_up".                        *)
(***************************************************************************)
Touches(n, at) == \E d \in TermOffsets(n) : at + d = 0

GivesUpAt(n, at) ==
  \/ n.kind \in ControlKinds \union {"SCAN"}
  \/ n.kind \in {"ADD_DATA", "INPUT"} /\ at = 0
  \/ n.kind \in MultiplyKinds /\ at # 0 /\ Touches(n, at)

ZeroesOrigin(n, at) ==
  \/ at = 0 /\ n.kind \in MultiplyKinds \union {"SET_ZERO"}
  \/ at = 0 /\ n.kind = "SET_CONST" /\ n.arg = 0
  \/ n.kind = "MULTI_ZERO" /\ Touches(n, at)

KnownAfter(known, n, at) ==
  IF known = "given_up" \/ GivesUpAt(n, at) THEN "given_up"
  ELSE IF ZeroesOrigin(n, at) THEN "zero"
  ELSE IF n.kind = "SET_CONST" /\ at = 0 THEN "unknown" ELSE known

\* What is known of the origin after each node of the body, and before the first.
OriginKnown(body) ==
  LET known[i \in 0 .. Len(body)] ==
        IF i = 0 THEN "unknown" ELSE KnownAfter(known[i - 1], body[i], OffsetAt(body, i))
  IN  known

LeavesOriginZero(body) ==
  OriginKnown(body)[Len(body)] = "zero" /\ BlockDelta(body) = 0

LoopToIf(n) ==
  IF n.kind = "LOOP" /\ LeavesOriginZero(n.body) THEN [n EXCEPT !.kind = "IF"] ELSE n
-----------------------------------------------------------------------------
(* What an optimised program's nodes have in common: every IF was a loop   *)
(* whose body leaves zero in its cell, and only the first node of an IF's  *)
(* body, which a nonzero cell leads to, is a NONNULL_MULTIPLY_LOOP.        *)

IfIsJustified(n) == n.kind = "IF" => LeavesOriginZero(n.body)

NonnullIsFirst(n) ==
  \A i \in DOMAIN n.body :
    n.body[i].kind = "NONNULL_MULTIPLY_LOOP" => n.kind = "IF" /\ i = 1

NoNonnull(block) == \A i \in DOMAIN block : block[i].kind # "NONNULL_MULTIPLY_LOOP"
=============================================================================
