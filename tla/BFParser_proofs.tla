--------------------------- MODULE BFParser_proofs ---------------------------
(***************************************************************************)
(* The parser never writes outside a block's array and never leaks or      *)
(* frees one twice, the blocks it builds are canonical, the program it     *)
(* accepts is the one ParseSource says, and the error it reports is the    *)
(* one the text deserves: for every source, every first capacity and       *)
(* whichever realloc fails.                                                *)
(***************************************************************************)
EXTENDS BFParser, BFFolds_proofs, SequenceTheorems

\* A node the parser makes, with its body in B.
NodeOver(B) == [kind : Kinds, arg : Int, body : B, terms : {<<>>}]

\* A frame whose block fits its array, is canonical, and owns its array apart
\* from those of its loops; L holds what begin may be.
GoodFrame(B, L) ==
  {f \in [nodes : Seq(NodeOver(B)), capacity : Nat, room : Nat,
          array : SUBSET Nat, nested : SUBSET Nat, begin : L] :
     /\ Len(f.nodes) <= f.room
     /\ CanonicalBlock(f.nodes)
     /\ f.array \intersect f.nested = {}}

Exact(f) == f.capacity = f.room

\* The arrays of the blocks on a stack are those on the heap, and no two blocks
\* share one.
OwnedOnce(stack, arrays) ==
  /\ arrays = UNION {Owned(stack[i]) : i \in DOMAIN stack}
  /\ \A i, j \in DOMAIN stack : i # j => Owned(stack[i]) \intersect Owned(stack[j]) = {}

Sound ==
  /\ \E B, L : <<>> \in B /\ LexerStart \in L /\ frames \in Seq(GoodFrame(B, L))
  /\ frames # <<>>
  /\ Parsing => \A i \in DOMAIN frames : Exact(frames[i])
  /\ OwnedOnce(frames, heap)
  /\ IsFiniteSet(heap)
  /\ status = "rejected" => heap = {}
-----------------------------------------------------------------------------
\* All of a sequence but its last element.
LEMMA FrontOf ==
  ASSUME NEW S, NEW s \in Seq(S), NEW n \in Nat, Len(s) = n + 1
  PROVE  /\ SubSeq(s, 1, n) \in Seq(S)
         /\ Len(SubSeq(s, 1, n)) = n
         /\ \A i \in 1 .. n : SubSeq(s, 1, n)[i] = s[i] /\ i \in DOMAIN s
<1>1. \A i \in 1 .. n : s[i] \in S /\ i \in DOMAIN s
  OBVIOUS
<1>2. SubSeq(s, 1, n) \in Seq(S)
  BY <1>1, SubSeqProperties
<1>3. Len(SubSeq(s, 1, n)) = IF 1 <= n THEN n - 1 + 1 ELSE 0
  BY <1>1, SubSeqProperties
<1>4. \A i \in 1 .. n - 1 + 1 : SubSeq(s, 1, n)[i] = s[1 + i - 1]
  BY <1>1, SubSeqProperties
<1>5. \A i \in 1 .. n : i \in 1 .. n - 1 + 1 /\ 1 + i - 1 = i
  OBVIOUS
<1>6. (IF 1 <= n THEN n - 1 + 1 ELSE 0) = n
  OBVIOUS
<1>7. \A i \in 1 .. n : SubSeq(s, 1, n)[i] = s[i]
  BY <1>4, <1>5
<1> QED  BY <1>1, <1>2, <1>3, <1>6, <1>7
-----------------------------------------------------------------------------
(* Frames.                                                                 *)

\* Wider sets of bodies and locations hold the same frames.
LEMMA WiderFrames ==
  ASSUME NEW B, NEW L, NEW B2, NEW L2, B \subseteq B2, L \subseteq L2
  PROVE  /\ NodeOver(B) \subseteq NodeOver(B2)
         /\ GoodFrame(B, L) \subseteq GoodFrame(B2, L2)
<1>1. NodeOver(B) \subseteq NodeOver(B2)
  BY DEF NodeOver
<1>2. Seq(NodeOver(B)) \subseteq Seq(NodeOver(B2))
  BY <1>1, SeqMonotonic
<1> QED  BY <1>1, <1>2 DEF GoodFrame

\* A new invocation of bf_parse_block has an empty block without an array.
LEMMA EmptyBlockGood ==
  ASSUME NEW B, NEW L, NEW b \in L
  PROVE  /\ EmptyBlock(b) \in GoodFrame(B, L)
         /\ Exact(EmptyBlock(b)) /\ Owned(EmptyBlock(b)) = {}
<1>1. <<>> \in Seq(NodeOver(B)) /\ Len(<<>>) = 0 /\ DOMAIN <<>> = {}
  OBVIOUS
<1>2. CanonicalBlock(<<>>)
  BY <1>1 DEF CanonicalBlock
<1> QED  BY <1>1, <1>2 DEF GoodFrame, EmptyBlock, Exact, Owned

\* The form of a block without its last node.
LEMMA FrontCanonical ==
  ASSUME NEW B, NEW s \in Seq(NodeOver(B)), s # <<>>, CanonicalBlock(s)
  PROVE  LET front == SubSeq(s, 1, Len(s) - 1)
         IN  front \in Seq(NodeOver(B)) /\ Len(front) = Len(s) - 1 /\ CanonicalBlock(front)
<1> DEFINE front == SubSeq(s, 1, Len(s) - 1)
<1>1. Len(s) \in Nat /\ Len(s) >= 1
  OBVIOUS
<1>2. front \in Seq(NodeOver(B)) /\ Len(front) = Len(s) - 1
      /\ \A i \in 1 .. Len(s) - 1 : front[i] = s[i]
  <2>1. Len(s) - 1 \in Nat /\ Len(s) = (Len(s) - 1) + 1
    BY <1>1
  <2> QED  BY <2>1, FrontOf
<1>3. CanonicalBlock(front)
  <2> HIDE DEF front
  <2> SUFFICES ASSUME NEW i \in 1 .. Len(s) - 1, front[i].kind \in DeltaKinds
               PROVE  front[i].arg # 0 /\ (i > 1 => front[i - 1].kind # front[i].kind)
    BY <1>1, <1>2 DEF CanonicalBlock
  <2>1. i \in DOMAIN s /\ front[i] = s[i]
    BY <1>1, <1>2
  <2>2. i > 1 => front[i - 1] = s[i - 1]
    BY <1>1, <1>2
  <2> QED  BY <2>1, <2>2 DEF CanonicalBlock
<1> QED  BY <1>2, <1>3

\* And with another argument in its last node.
LEMMA LastArgCanonical ==
  ASSUME NEW B, NEW s \in Seq(NodeOver(B)), s # <<>>, CanonicalBlock(s),
         NEW v \in Int, v # 0
  PROVE  LET t == [s EXCEPT ![Len(s)] = [s[Len(s)] EXCEPT !.arg = v]]
         IN  t \in Seq(NodeOver(B)) /\ Len(t) = Len(s) /\ CanonicalBlock(t)
<1> DEFINE n == [s[Len(s)] EXCEPT !.arg = v]
           t == [s EXCEPT ![Len(s)] = n]
<1>1. Len(s) \in DOMAIN s /\ s[Len(s)] \in NodeOver(B)
  OBVIOUS
<1>2. n \in NodeOver(B) /\ n.arg = v /\ n.kind = s[Len(s)].kind
  BY <1>1 DEF NodeOver
<1> HIDE DEF n
<1>3. t \in Seq(NodeOver(B)) /\ Len(t) = Len(s) /\ DOMAIN t = DOMAIN s
      /\ \A i \in DOMAIN s : t[i] = IF i = Len(s) THEN n ELSE s[i]
  BY <1>1, <1>2, ExceptSeq
<1> HIDE DEF t
<1>4. CanonicalBlock(t)
  <2>1. \A i \in DOMAIN s : t[i].kind = s[i].kind
    BY <1>2, <1>3
  <2>2. \A i \in DOMAIN s : s[i].kind \in DeltaKinds => t[i].arg # 0
    BY <1>2, <1>3 DEF CanonicalBlock
  <2>3. \A i \in DOMAIN s : i > 1 => i - 1 \in DOMAIN s
    OBVIOUS
  <2> QED  BY <1>3, <2>1, <2>2, <2>3 DEF CanonicalBlock
<1> QED  BY <1>3, <1>4 DEF n, t

\* bf_ir_block_append_delta, of a delta that the last node takes up.
WithDelta(f, kind, d) == [f EXCEPT !.nodes = AppendDelta(f.nodes, kind, d)]

LEMMA MergedGood ==
  ASSUME NEW B, NEW L, NEW f \in GoodFrame(B, L), NEW kind, NEW d \in Int,
         Merges(f.nodes, kind)
  PROVE  /\ WithDelta(f, kind, d) \in GoodFrame(B, L)
         /\ Owned(WithDelta(f, kind, d)) = Owned(f)
         /\ Exact(f) => Exact(WithDelta(f, kind, d))
<1> DEFINE s == AppendDelta(f.nodes, kind, d)
<1>1. /\ f.nodes \in Seq(NodeOver(B)) /\ f.nodes # <<>> /\ CanonicalBlock(f.nodes)
      /\ Len(f.nodes) <= f.room /\ f.room \in Nat
  BY DEF GoodFrame, Merges
<1>2. s \in Seq(NodeOver(B)) /\ CanonicalBlock(s) /\ Len(s) <= Len(f.nodes)
  <2>1. Len(f.nodes) \in DOMAIN f.nodes /\ f.nodes[Len(f.nodes)] \in NodeOver(B)
    BY <1>1
  <2>2. f.nodes[Len(f.nodes)].arg \in Int
    BY <2>1 DEF NodeOver
  <2>3. CASE f.nodes[Len(f.nodes)].arg + d = 0
    <3>1. s = SubSeq(f.nodes, 1, Len(f.nodes) - 1)
      BY <2>3 DEF AppendDelta
    <3> QED  BY <1>1, <3>1, FrontCanonical
  <2>4. CASE f.nodes[Len(f.nodes)].arg + d # 0
    <3> DEFINE v == f.nodes[Len(f.nodes)].arg + d
    <3>1. s = [f.nodes EXCEPT ![Len(f.nodes)] = [f.nodes[Len(f.nodes)] EXCEPT !.arg = v]]
      BY <2>1, <2>4 DEF AppendDelta
    <3>2. v \in Int /\ v # 0
      BY <2>2, <2>4
    <3> HIDE DEF v, s
    <3> QED  BY <1>1, <3>1, <3>2, LastArgCanonical
  <2> QED  BY <2>3, <2>4
<1> HIDE DEF s
<1>3. Len(s) <= f.room
  BY <1>1, <1>2
<1> DEFINE g == [f EXCEPT !.nodes = s]
<1>4. /\ g.nodes = s /\ g.capacity = f.capacity /\ g.room = f.room
      /\ g.array = f.array /\ g.nested = f.nested
  BY DEF GoodFrame
<1>5. g \in GoodFrame(B, L)
  BY <1>2, <1>3 DEF GoodFrame
<1>6. Owned(g) = Owned(f) /\ (Exact(f) => Exact(g))
  BY <1>4 DEF Owned, Exact
<1> QED  BY <1>5, <1>6 DEF s, WithDelta

\* bf_ir_block_reserve makes room for one node more.
LEMMA ReservedEnough ==
  ASSUME NEW B, NEW L, NEW f \in GoodFrame(B, L)
  PROVE  /\ Reserved(f) \in Nat
         /\ ~MustGrow(f) => Reserved(f) = f.capacity
         /\ Exact(f) => Reserved(f) >= Len(f.nodes) + 1
<1>1. /\ f.capacity \in Nat /\ f.room \in Nat /\ Len(f.nodes) \in Nat
      /\ Len(f.nodes) <= f.room
  BY DEF GoodFrame
<1> QED  BY <1>1, FirstCapacityAssumption DEF Reserved, MustGrow, Exact

\* What a push may append keeps the form of a block.
LEMMA AppendCanonical ==
  ASSUME NEW B, NEW s \in Seq(NodeOver(B)), NEW n \in NodeOver(B), CanonicalBlock(s),
         n.kind \in DeltaKinds => n.arg # 0 /\ ~Merges(s, n.kind)
  PROVE  /\ Append(s, n) \in Seq(NodeOver(B))
         /\ Len(Append(s, n)) = Len(s) + 1
         /\ CanonicalBlock(Append(s, n))
<1> DEFINE t == Append(s, n)
<1>1. /\ t \in Seq(NodeOver(B)) /\ Len(t) = Len(s) + 1
      /\ t[Len(s) + 1] = n
      /\ \A i \in 1 .. Len(s) : t[i] = s[i]
  BY AppendProperties
<1> HIDE DEF t
<1>2. Len(s) \in Nat /\ DOMAIN s = 1 .. Len(s)
  OBVIOUS
<1>3. DOMAIN t = 1 .. Len(s) + 1
  BY <1>1
<1>4. CanonicalBlock(t)
  <2> SUFFICES ASSUME NEW i \in 1 .. Len(s) + 1, t[i].kind \in DeltaKinds
               PROVE  t[i].arg # 0 /\ (i > 1 => t[i - 1].kind # t[i].kind)
    BY <1>3 DEF CanonicalBlock
  <2>1. CASE i \in 1 .. Len(s)
    <3>1. t[i] = s[i] /\ (i > 1 => t[i - 1] = s[i - 1])
      BY <1>1, <1>2, <2>1
    <3> QED  BY <1>2, <2>1, <3>1 DEF CanonicalBlock
  <2>2. CASE i = Len(s) + 1
    <3>1. t[i] = n
      BY <1>1, <2>2
    <3>2. n.arg # 0 /\ ~Merges(s, n.kind)
      BY <3>1
    <3>3. i > 1 => s # <<>> /\ t[i - 1] = s[Len(s)]
      BY <1>1, <1>2, <2>2
    <3> QED  BY <3>1, <3>2, <3>3 DEF Merges
  <2> QED  BY <1>2, <2>1, <2>2
<1> QED  BY <1>1, <1>4 DEF t

\* An address malloc returns is a new one.
LEMMA FreshIsFresh ==
  ASSUME IsFiniteSet(heap)
  PROVE  FreshArray \in Nat /\ FreshArray \notin heap
<1> DEFINE n == Cardinality(heap)
<1>1. n \in Nat
  BY FS_CardinalityType
<1>2. IsFiniteSet(1 .. n + 1) /\ Cardinality(1 .. n + 1) = n + 1
  <2>1. Cardinality(1 .. n + 1) = IF 1 > n + 1 THEN 0 ELSE (n + 1) - 1 + 1
    BY <1>1, FS_Interval
  <2>2. IsFiniteSet(1 .. n + 1)
    BY <1>1, FS_Interval
  <2> HIDE DEF n
  <2> QED  BY <1>1, <2>1, <2>2
<1>3. \E a \in 1 .. n + 1 : a \notin heap
  <2> SUFFICES ASSUME 1 .. n + 1 \subseteq heap PROVE FALSE
    OBVIOUS
  <2>1. n + 1 <= n
    BY <1>2, FS_Subset
  <2> HIDE DEF n
  <2> QED  BY <1>1, <2>1
<1>4. FreshArray \in 1 .. n + 1 /\ FreshArray \notin heap
  BY <1>3 DEF FreshArray
<1> HIDE DEF n
<1> QED  BY <1>1, <1>4

\* A frame with another block and another array to fit it.
Changed(f, s, r, a) == [f EXCEPT !.nodes = s, !.capacity = r, !.room = r, !.array = a]

LEMMA ChangedGood ==
  ASSUME NEW B, NEW L, NEW f \in GoodFrame(B, L), NEW s \in Seq(NodeOver(B)),
         NEW r \in Nat, NEW a \in SUBSET Nat,
         CanonicalBlock(s), Len(s) <= r, a \intersect f.nested = {}
  PROVE  /\ Changed(f, s, r, a) \in GoodFrame(B, L) /\ Exact(Changed(f, s, r, a))
         /\ Changed(f, s, r, a).array = a /\ Changed(f, s, r, a).nested = f.nested
<1> DEFINE g == Changed(f, s, r, a)
<1>1. /\ g.nodes = s /\ g.capacity = r /\ g.room = r
      /\ g.array = a /\ g.nested = f.nested
  BY DEF GoodFrame, Changed
<1>2. g \in [nodes : Seq(NodeOver(B)), capacity : Nat, room : Nat,
             array : SUBSET Nat, nested : SUBSET Nat, begin : L]
  BY DEF GoodFrame, Changed
<1> HIDE DEF g
<1>3. g \in GoodFrame(B, L)
  BY <1>1, <1>2 DEF GoodFrame
<1> QED  BY <1>1, <1>3 DEF Exact, g

\* The array a block has once it has room for one node more, and what is new of it.
GrownArray(f) == IF MustGrow(f) /\ f.array = {} THEN {FreshArray} ELSE f.array
NewArray(f)   == GrownArray(f) \ f.array

\* bf_ir_block_push, when it succeeds.
LEMMA PushedGood ==
  ASSUME NEW B, NEW L, NEW f \in GoodFrame(B, L), NEW n \in NodeOver(B), Exact(f),
         n.kind \in DeltaKinds => n.arg # 0 /\ ~Merges(f.nodes, n.kind),
         IsFiniteSet(heap), Owned(f) \subseteq heap
  PROVE  LET g == Pushed(f, n)
         IN  /\ g \in GoodFrame(B, L) /\ Exact(g)
             /\ g.nested = f.nested
             /\ g.array = f.array \union NewArray(f)
             /\ NewArray(f) \intersect heap = {}
             /\ NewArray(f) \subseteq Nat /\ IsFiniteSet(NewArray(f))
<1>1. /\ f.nodes \in Seq(NodeOver(B)) /\ CanonicalBlock(f.nodes)
      /\ f.capacity \in Nat /\ f.room \in Nat /\ f.array \in SUBSET Nat
      /\ Len(f.nodes) \in Nat /\ f.array \intersect f.nested = {}
  BY DEF GoodFrame
<1>2. FreshArray \in Nat /\ FreshArray \notin heap
  BY FreshIsFresh
<1>3. /\ Append(f.nodes, n) \in Seq(NodeOver(B))
      /\ Len(Append(f.nodes, n)) = Len(f.nodes) + 1
      /\ CanonicalBlock(Append(f.nodes, n))
  BY <1>1, AppendCanonical
<1>4. Reserved(f) \in Nat /\ Len(Append(f.nodes, n)) <= Reserved(f)
  <2>1. Reserved(f) \in Nat /\ Reserved(f) >= Len(f.nodes) + 1
    BY ReservedEnough
  <2> QED  BY <1>1, <1>3, <2>1
<1>5. Reserved(f) = IF MustGrow(f) THEN Reserved(f) ELSE f.room
  BY ReservedEnough DEF Exact
<1>6. GrownArray(f) \in SUBSET Nat /\ GrownArray(f) \intersect f.nested = {}
  BY <1>1, <1>2 DEF Owned, GrownArray
<1>7. Pushed(f, n) = Changed(f, Append(f.nodes, n), Reserved(f), GrownArray(f))
  BY <1>5, Zenon DEF Pushed, GrownArray, Changed
<1>8. /\ Pushed(f, n) \in GoodFrame(B, L) /\ Exact(Pushed(f, n))
      /\ Pushed(f, n).array = GrownArray(f) /\ Pushed(f, n).nested = f.nested
  <2> DEFINE s == Append(f.nodes, n)
             r == Reserved(f)
             a == GrownArray(f)
  <2>1. s \in Seq(NodeOver(B)) /\ CanonicalBlock(s) /\ Len(s) <= r
    BY <1>3, <1>4
  <2>2. r \in Nat /\ a \in SUBSET Nat /\ a \intersect f.nested = {}
    BY <1>4, <1>6
  <2>3. Pushed(f, n) = Changed(f, s, r, a)
    BY <1>7
  <2> HIDE DEF s, r, a
  <2>4. /\ Changed(f, s, r, a) \in GoodFrame(B, L) /\ Exact(Changed(f, s, r, a))
        /\ Changed(f, s, r, a).array = a /\ Changed(f, s, r, a).nested = f.nested
    BY <2>1, <2>2, ChangedGood
  <2>5. /\ Pushed(f, n) \in GoodFrame(B, L) /\ Exact(Pushed(f, n))
        /\ Pushed(f, n).array = a /\ Pushed(f, n).nested = f.nested
    BY <2>3, <2>4, Zenon
  <2> QED  BY <2>5 DEF a
<1>9. /\ GrownArray(f) = f.array \union NewArray(f)
      /\ NewArray(f) \in {{}, {FreshArray}}
  BY DEF NewArray, GrownArray
<1>10. NewArray(f) \intersect heap = {} /\ NewArray(f) \subseteq Nat
  BY <1>2, <1>9
<1>11. IsFiniteSet(NewArray(f))
  <2>1. IsFiniteSet({}) /\ IsFiniteSet({FreshArray})
    BY FS_EmptySet, FS_Singleton
  <2> QED  BY <1>9, <2>1
<1> QED  BY <1>8, <1>9, <1>10, <1>11, Zenon

\* bf_ir_block_push, when realloc fails.
LEMMA NotPushedGood ==
  ASSUME NEW B, NEW L, NEW f \in GoodFrame(B, L)
  PROVE  /\ NotPushed(f) \in GoodFrame(B, L)
         /\ NotPushed(f).array = f.array /\ NotPushed(f).nested = f.nested
<1>1. Reserved(f) \in Nat
  BY ReservedEnough
<1> QED  BY <1>1 DEF NotPushed, GoodFrame

\* A block takes over the arrays of a loop it got as a node.
LEMMA NestedGood ==
  ASSUME NEW B, NEW L, NEW f \in GoodFrame(B, L), NEW N \in SUBSET Nat,
         f.array \intersect N = {}
  PROVE  LET g == [f EXCEPT !.nested = N]
         IN  /\ g \in GoodFrame(B, L)
             /\ Exact(f) => Exact(g)
             /\ Owned(g) = f.array \union N
<1> DEFINE g == [f EXCEPT !.nested = N]
<1>1. /\ g.nodes = f.nodes /\ g.capacity = f.capacity /\ g.room = f.room
      /\ g.array = f.array /\ g.nested = N
  BY DEF GoodFrame
<1>2. g \in GoodFrame(B, L)
  BY <1>1 DEF GoodFrame
<1> QED  BY <1>1, <1>2 DEF Exact, Owned
-----------------------------------------------------------------------------
(* Stacks of frames and the arrays they own.                               *)

\* The block on top gets arrays nobody has.
LEMMA OwnedAtTop ==
  ASSUME NEW S, NEW stack \in Seq(S), stack # <<>>, NEW arrays, OwnedOnce(stack, arrays),
         NEW f \in S, NEW X, Owned(f) = Owned(stack[Len(stack)]) \union X,
         X \intersect arrays = {}
  PROVE  OwnedOnce([stack EXCEPT ![Len(stack)] = f], arrays \union X)
<1> DEFINE n == Len(stack)
           new == [stack EXCEPT ![n] = f]
<1>1. n \in DOMAIN stack /\ DOMAIN new = DOMAIN stack
  OBVIOUS
<1>2. \A i \in DOMAIN stack : new[i] = IF i = n THEN f ELSE stack[i]
  BY <1>1
<1> HIDE DEF new, n
<1>3. \A i \in DOMAIN stack :
        Owned(new[i]) = IF i = n THEN Owned(stack[n]) \union X ELSE Owned(stack[i])
  BY <1>2 DEF n
<1>4. arrays \union X = UNION {Owned(new[i]) : i \in DOMAIN new}
  BY <1>1, <1>3 DEF OwnedOnce
<1>5. \A i \in DOMAIN stack : Owned(stack[i]) \subseteq arrays
  BY DEF OwnedOnce
<1>6. \A i, j \in DOMAIN new : i # j => Owned(new[i]) \intersect Owned(new[j]) = {}
  BY <1>1, <1>3, <1>5 DEF OwnedOnce
<1> QED  BY <1>4, <1>6 DEF OwnedOnce, new, n

\* A block without arrays comes on top.
LEMMA OwnedWithEmpty ==
  ASSUME NEW S, NEW stack \in Seq(S), NEW arrays, OwnedOnce(stack, arrays),
         NEW f \in S, Owned(f) = {}
  PROVE  OwnedOnce(Append(stack, f), arrays)
<1> DEFINE n == Len(stack)
           new == Append(stack, f)
<1>1. n \in Nat /\ DOMAIN stack = 1 .. n
  OBVIOUS
<1>2. /\ new \in Seq(S) /\ Len(new) = n + 1 /\ new[n + 1] = f
      /\ \A i \in 1 .. n : new[i] = stack[i]
  BY AppendProperties
<1> HIDE DEF new, n
<1>3. DOMAIN new = 1 .. n + 1
  BY <1>2
<1>4. 1 .. n + 1 = (1 .. n) \union {n + 1}
  BY <1>1
<1>5. UNION {Owned(new[i]) : i \in DOMAIN new} = UNION {Owned(stack[i]) : i \in 1 .. n}
  BY <1>2, <1>3, <1>4
<1>6. \A i, j \in DOMAIN new : i # j => Owned(new[i]) \intersect Owned(new[j]) = {}
  BY <1>1, <1>2, <1>3, <1>4 DEF OwnedOnce
<1> QED  BY <1>1, <1>5, <1>6 DEF OwnedOnce, new

\* The block on top is disposed of.
LEMMA OwnedByFront ==
  ASSUME NEW S, NEW stack \in Seq(S), NEW n \in Nat, Len(stack) = n + 1,
         NEW arrays, OwnedOnce(stack, arrays)
  PROVE  OwnedOnce(SubSeq(stack, 1, n), arrays \ Owned(stack[n + 1]))
<1> DEFINE new == SubSeq(stack, 1, n)
<1>1. /\ new \in Seq(S) /\ Len(new) = n
      /\ \A i \in 1 .. n : new[i] = stack[i]
  BY FrontOf
<1> HIDE DEF new
<1>2. DOMAIN new = 1 .. n
  BY <1>1
<1>3. DOMAIN stack = (1 .. n) \union {n + 1} /\ \A i \in 1 .. n : i # n + 1
  OBVIOUS
<1>4. UNION {Owned(new[i]) : i \in DOMAIN new} = UNION {Owned(stack[i]) : i \in 1 .. n}
  BY <1>1, <1>2
<1>5. \A i \in 1 .. n : Owned(stack[i]) \intersect Owned(stack[n + 1]) = {}
  BY <1>3 DEF OwnedOnce
<1>6. arrays = (UNION {Owned(stack[i]) : i \in 1 .. n}) \union Owned(stack[n + 1])
  BY <1>3 DEF OwnedOnce
<1>7. arrays \ Owned(stack[n + 1]) = UNION {Owned(new[i]) : i \in DOMAIN new}
  BY <1>4, <1>5, <1>6
<1>8. \A i, j \in DOMAIN new : i # j => Owned(new[i]) \intersect Owned(new[j]) = {}
  BY <1>1, <1>2, <1>3 DEF OwnedOnce
<1> QED  BY <1>7, <1>8 DEF OwnedOnce, new
-----------------------------------------------------------------------------
(* What the invariant says of the frames, and two ways to keep it.         *)

LEMMA SoundFrames ==
  ASSUME Sound
  PROVE  \E B, L : /\ <<>> \in B /\ LexerStart \in L
                   /\ frames \in Seq(GoodFrame(B, L))
                   /\ Depth \in Nat \ {0} /\ DOMAIN frames = 1 .. Depth
                   /\ Top \in GoodFrame(B, L)
                   /\ \A i \in 1 .. Depth : /\ frames[i] \in GoodFrame(B, L)
                                            /\ Owned(frames[i]) \subseteq heap
<1>1. PICK B, L : <<>> \in B /\ LexerStart \in L /\ frames \in Seq(GoodFrame(B, L))
  BY DEF Sound
<1>2. Depth \in Nat \ {0} /\ DOMAIN frames = 1 .. Depth
  BY <1>1 DEF Sound, Depth
<1>3. \A i \in 1 .. Depth : frames[i] \in GoodFrame(B, L)
  BY <1>1, <1>2
<1>4. \A i \in 1 .. Depth : Owned(frames[i]) \subseteq heap
  BY <1>2 DEF Sound, OwnedOnce
<1>5. Top \in GoodFrame(B, L)
  BY <1>2, <1>3 DEF Top
<1> QED  BY <1>1, <1>2, <1>3, <1>4, <1>5

\* The block on top changes, and may get new arrays.
LEMMA TopChanges ==
  ASSUME Sound, NEW B, NEW L, <<>> \in B, LexerStart \in L, frames \in Seq(GoodFrame(B, L)),
         NEW g \in GoodFrame(B, L), NEW X, IsFiniteSet(X),
         Owned(g) = Owned(Top) \union X, X \intersect heap = {},
         frames' = [frames EXCEPT ![Depth] = g], heap' = heap \union X,
         Parsing' => Parsing /\ Exact(g), status' # "rejected"
  PROVE  Sound'
<1>1. Depth \in 1 .. Len(frames) /\ Depth = Len(frames) /\ frames # <<>>
  BY DEF Depth, Sound
<1>2. /\ frames' \in Seq(GoodFrame(B, L)) /\ Len(frames') = Len(frames)
      /\ \A i \in 1 .. Len(frames) : frames'[i] = IF i = Depth THEN g ELSE frames[i]
  BY <1>1, ExceptSeq
<1>3. frames' # <<>> /\ DOMAIN frames' = 1 .. Len(frames) /\ DOMAIN frames = 1 .. Len(frames)
  BY <1>1, <1>2
<1>4. Parsing' => \A i \in DOMAIN frames' : Exact(frames'[i])
  BY <1>2, <1>3 DEF Sound
<1>5. OwnedOnce(frames', heap')
  BY <1>1, OwnedAtTop DEF Sound, Top
<1>6. IsFiniteSet(heap')
  BY FS_Union DEF Sound
<1> QED  BY <1>2, <1>3, <1>4, <1>5, <1>6 DEF Sound

\* The block on top goes to the one below, or is disposed of.
LEMMA TopGoes ==
  ASSUME Sound, NEW B, NEW L, <<>> \in B, LexerStart \in L, frames \in Seq(GoodFrame(B, L)),
         Depth > 1, NEW g \in GoodFrame(B, L), NEW X, IsFiniteSet(X),
         Owned(g) = Owned(Caller) \union X, X \intersect (heap \ Owned(Top)) = {},
         frames' = Popped(g), heap' = (heap \ Owned(Top)) \union X,
         Parsing' => Parsing /\ Exact(g), status' # "rejected"
  PROVE  Sound'
<1> DEFINE n == Depth - 1
           front == SubSeq(frames, 1, n)
<1>1. n \in Nat /\ n \in 1 .. n /\ Len(frames) = n + 1 /\ Depth = n + 1
  BY DEF Depth
<1>2. /\ front \in Seq(GoodFrame(B, L)) /\ Len(front) = n
      /\ \A i \in 1 .. n : front[i] = frames[i] /\ i \in DOMAIN frames
  <2> HIDE DEF n
  <2> QED  BY <1>1, FrontOf
<1>3. OwnedOnce(front, heap \ Owned(frames[n + 1]))
  <2> HIDE DEF n
  <2>1. OwnedOnce(frames, heap)
    BY DEF Sound
  <2> QED  BY <1>1, <2>1, OwnedByFront DEF front
<1>4. frames' = [front EXCEPT ![n] = g]
  BY DEF Popped
<1> HIDE DEF n, front
<1>5. /\ frames' \in Seq(GoodFrame(B, L)) /\ Len(frames') = n
      /\ \A i \in 1 .. n : frames'[i] = IF i = n THEN g ELSE front[i]
  BY <1>1, <1>2, <1>4, ExceptSeq
<1>6. frames' # <<>> /\ DOMAIN frames' = 1 .. n
  BY <1>1, <1>5
<1>7. Parsing' => \A i \in DOMAIN frames' : Exact(frames'[i])
  BY <1>2, <1>5, <1>6 DEF Sound
<1>8. OwnedOnce(frames', heap')
  <2>1. front # <<>> /\ front[Len(front)] = Caller /\ frames[n + 1] = Top
    <3>1. front[n] = frames[n]
      BY <1>1, <1>2
    <3>2. frames[n] = Caller
      BY DEF n, Caller
    <3>3. frames[n + 1] = Top
      BY <1>1 DEF Top
    <3>4. front # <<>>
      BY <1>1, <1>2
    <3> QED  BY <1>2, <3>1, <3>2, <3>3, <3>4, Zenon
  <2>2. Owned(g) = Owned(front[Len(front)]) \union X
    BY <2>1
  <2>3. X \intersect (heap \ Owned(frames[n + 1])) = {}
    BY <2>1
  <2>4. OwnedOnce([front EXCEPT ![Len(front)] = g], (heap \ Owned(frames[n + 1])) \union X)
    BY <1>2, <1>3, <2>1, <2>2, <2>3, OwnedAtTop
  <2> QED  BY <1>2, <1>4, <2>1, <2>4
<1>9. IsFiniteSet(heap')
  <2>1. IsFiniteSet(heap \ Owned(Top))
    BY FS_Subset DEF Sound
  <2> QED  BY <2>1, FS_Union
<1> QED  BY <1>5, <1>6, <1>7, <1>8, <1>9 DEF Sound
-----------------------------------------------------------------------------
(* The actions keep the invariant.                                         *)

LEMMA InitSound == Init => Sound
<1> SUFFICES ASSUME Init PROVE Sound
  OBVIOUS
<1> DEFINE B == {<<>>}
           L == {LexerStart}
           e == EmptyBlock(LexerStart)
<1>1. e \in GoodFrame(B, L) /\ Exact(e) /\ Owned(e) = {}
  BY EmptyBlockGood
<1>2. frames = <<e>> /\ heap = {} /\ status = "parsing"
  BY DEF Init
<1> HIDE DEF e
<1>3. frames \in Seq(GoodFrame(B, L)) /\ frames # <<>> /\ DOMAIN frames = {1} /\ frames[1] = e
  BY <1>1, <1>2
<1>4. OwnedOnce(frames, heap)
  BY <1>1, <1>2, <1>3 DEF OwnedOnce
<1>5. IsFiniteSet(heap)
  BY <1>2, FS_EmptySet
<1>6. <<>> \in B /\ LexerStart \in L
  OBVIOUS
<1> HIDE DEF B, L
<1> QED  BY <1>1, <1>2, <1>3, <1>4, <1>5, <1>6 DEF Sound

LEMMA MergeDeltaSound == Sound /\ MergeDelta => Sound'
<1> SUFFICES ASSUME Sound, MergeDelta PROVE Sound'
  OBVIOUS
<1>1. PICK B, L : /\ <<>> \in B /\ LexerStart \in L /\ frames \in Seq(GoodFrame(B, L))
                  /\ Depth \in Nat \ {0} /\ DOMAIN frames = 1 .. Depth
                  /\ Top \in GoodFrame(B, L)
  BY SoundFrames
<1> DEFINE kind == DeltaKind(current.kind)
           d    == Delta(current.kind)
           g    == WithDelta(Top, kind, d)
<1>2. Merges(Top.nodes, kind) /\ d \in Int
  BY DEF MergeDelta, Delta
<1>3. frames' = [frames EXCEPT ![Depth] = g] /\ heap' = heap /\ status' = status /\ Parsing
  BY <1>1 DEF MergeDelta, SetTop, Going, At, GoodFrame, WithDelta
<1> HIDE DEF kind, d
<1>4. g \in GoodFrame(B, L) /\ Owned(g) = Owned(Top) /\ (Exact(Top) => Exact(g))
  BY <1>1, <1>2, MergedGood
<1> HIDE DEF g
<1>5. Exact(Top)
  BY <1>1, <1>3 DEF Sound, Top
<1>6. Owned(g) = Owned(Top) \union {} /\ {} \intersect heap = {} /\ heap' = heap \union {}
  BY <1>3, <1>4
<1>7. (Parsing' => Parsing /\ Exact(g)) /\ status' # "rejected"
  BY <1>3, <1>4, <1>5 DEF Parsing
<1> QED  BY <1>1, <1>3, <1>4, <1>6, <1>7, FS_EmptySet, TopChanges

\* A push onto the block on top, made or failed.
LEMMA PushTokenSound ==
  ASSUME Sound, Parsing, NEW B, NEW L, <<>> \in B, LexerStart \in L,
         frames \in Seq(GoodFrame(B, L)), NEW n \in NodeOver(B), NEW msg,
         n.kind \in DeltaKinds => n.arg # 0 /\ ~Merges(Top.nodes, n.kind),
         PushToken(n, msg)
  PROVE  Sound'
<1>1. /\ Depth \in Nat \ {0} /\ DOMAIN frames = 1 .. Depth
      /\ Owned(Top) \subseteq heap
  BY SoundFrames DEF Top
<1>2. Top \in GoodFrame(B, L)
  BY <1>1 DEF Top
<1>3. Exact(Top) /\ IsFiniteSet(heap)
  BY <1>1 DEF Sound, Top
<1> DEFINE g == Pushed(Top, n)
           X == NewArray(Top)
<1>4. CASE SetTop(g) /\ heap' = heap \union g.array /\ Going
  <2>1. /\ g \in GoodFrame(B, L) /\ Exact(g)
        /\ g.nested = Top.nested /\ g.array = Top.array \union X
        /\ X \intersect heap = {} /\ IsFiniteSet(X)
    BY <1>1, <1>2, <1>3, PushedGood
  <2>2. frames' = [frames EXCEPT ![Depth] = g] /\ heap' = heap \union g.array /\ status' = status
    BY <1>4 DEF SetTop, Going
  <2> HIDE DEF g, X
  <2>3. Owned(g) = Owned(Top) \union X
    BY <2>1 DEF Owned
  <2>4. heap' = heap \union X
    BY <1>1, <2>1, <2>2 DEF Owned
  <2>5. (Parsing' => Parsing /\ Exact(g)) /\ status' # "rejected"
    BY <2>1, <2>2 DEF Parsing
  <2> QED  BY <2>1, <2>2, <2>3, <2>4, <2>5, TopChanges
<1>5. CASE SetTop(NotPushed(Top)) /\ FailWith(current.loc, msg) /\ UNCHANGED heap
  <2> DEFINE h == NotPushed(Top)
  <2>1. h \in GoodFrame(B, L) /\ h.array = Top.array /\ h.nested = Top.nested
    BY <1>2, NotPushedGood
  <2>2. frames' = [frames EXCEPT ![Depth] = h] /\ heap' = heap /\ status' = "failing"
    BY <1>5 DEF SetTop, FailWith
  <2> HIDE DEF h
  <2>3. Owned(h) = Owned(Top) \union {} /\ {} \intersect heap = {} /\ heap' = heap \union {}
    BY <2>1, <2>2 DEF Owned
  <2>4. (Parsing' => Parsing /\ Exact(h)) /\ status' # "rejected"
    BY <2>2 DEF Parsing
  <2> QED  BY <2>1, <2>2, <2>3, <2>4, FS_EmptySet, TopChanges
<1> QED  BY <1>4, <1>5 DEF PushToken

LEMMA PushDeltaSound == Sound /\ PushDelta => Sound'
<1> SUFFICES ASSUME Sound, PushDelta PROVE Sound'
  OBVIOUS
<1>1. PICK B, L : <<>> \in B /\ LexerStart \in L /\ frames \in Seq(GoodFrame(B, L))
  BY SoundFrames
<1> DEFINE kind == DeltaKind(current.kind)
           n    == Plain(kind, Delta(current.kind))
<1>2. Parsing /\ ~Merges(Top.nodes, kind) /\ PushToken(n, "out of memory")
  BY DEF PushDelta, At
<1>3. n \in NodeOver(B) /\ n.kind = kind /\ n.arg # 0
  BY <1>1 DEF Plain, Delta, DeltaKind, NodeOver, Kinds
<1> HIDE DEF n, kind
<1> QED  BY <1>1, <1>2, <1>3, PushTokenSound

LEMMA PushIoSound == Sound /\ PushIo => Sound'
<1> SUFFICES ASSUME Sound, PushIo PROVE Sound'
  OBVIOUS
<1>1. PICK B, L : <<>> \in B /\ LexerStart \in L /\ frames \in Seq(GoodFrame(B, L))
  BY SoundFrames
<1> DEFINE n == IoNode(current.kind)
<1>2. Parsing /\ PushToken(n, "out of memory")
  BY DEF PushIo, At
<1>3. n \in NodeOver(B) /\ n.kind \notin DeltaKinds
  BY <1>1 DEF IoNode, Plain, NodeOver, Kinds, DeltaKinds
<1> HIDE DEF n
<1> QED  BY <1>1, <1>2, <1>3, PushTokenSound

LEMMA OpenLoopSound == Sound /\ OpenLoop => Sound'
<1> SUFFICES ASSUME Sound, OpenLoop PROVE Sound'
  OBVIOUS
<1>1. PICK B, L : <<>> \in B /\ LexerStart \in L /\ frames \in Seq(GoodFrame(B, L))
  BY SoundFrames
<1> DEFINE L2 == L \union {current.loc}
           e  == EmptyBlock(current.loc)
<1>2. frames \in Seq(GoodFrame(B, L2))
  BY <1>1, WiderFrames, SeqMonotonic
<1>3. e \in GoodFrame(B, L2) /\ Exact(e) /\ Owned(e) = {}
  BY EmptyBlockGood
<1>4. frames' = Append(frames, e) /\ heap' = heap /\ status' = status
  BY DEF OpenLoop, Going
<1>5. LexerStart \in L2
  BY <1>1
<1> HIDE DEF e, L2
<1>6. /\ frames' \in Seq(GoodFrame(B, L2)) /\ frames' # <<>>
      /\ Len(frames') = Len(frames) + 1 /\ frames'[Len(frames) + 1] = e
      /\ \A i \in 1 .. Len(frames) : frames'[i] = frames[i]
  BY <1>2, <1>3, <1>4, AppendProperties
<1>7. OwnedOnce(frames', heap')
  BY <1>2, <1>3, <1>4, OwnedWithEmpty DEF Sound
<1>8. Parsing' => \A i \in DOMAIN frames' : Exact(frames'[i])
  <2> SUFFICES ASSUME Parsing', NEW i \in DOMAIN frames' PROVE Exact(frames'[i])
    OBVIOUS
  <2>1. Parsing
    BY <1>4 DEF Parsing
  <2>2. Len(frames) \in Nat /\ DOMAIN frames = 1 .. Len(frames)
    BY <1>2
  <2>3. i \in 1 .. Len(frames) \/ i = Len(frames) + 1
    BY <1>6, <2>2
  <2> QED  BY <1>3, <1>6, <2>1, <2>2, <2>3 DEF Sound
<1>9. IsFiniteSet(heap') /\ (status' = "rejected" => heap' = {})
  BY <1>4 DEF Sound
<1> QED  BY <1>1, <1>5, <1>6, <1>7, <1>8, <1>9 DEF Sound

LEMMA CloseLoopSound == Sound /\ CloseLoop => Sound'
<1> SUFFICES ASSUME Sound, CloseLoop PROVE Sound'
  OBVIOUS
<1>1. PICK B0, L : /\ <<>> \in B0 /\ LexerStart \in L /\ frames \in Seq(GoodFrame(B0, L))
                   /\ Depth \in Nat \ {0} /\ DOMAIN frames = 1 .. Depth
                   /\ \A i \in 1 .. Depth : Owned(frames[i]) \subseteq heap
  BY SoundFrames
<1>2. Depth > 1 /\ Parsing
  BY DEF CloseLoop, At
<1> DEFINE B == B0 \union {Top.nodes}
           n == Loop(Top.nodes)
           f == Pushed(Caller, n)
<1>3. <<>> \in B /\ frames \in Seq(GoodFrame(B, L))
  BY <1>1, WiderFrames, SeqMonotonic
<1>4. n \in NodeOver(B) /\ n.kind \notin DeltaKinds
  BY DEF Loop, Plain, NodeOver, Kinds, DeltaKinds
<1> HIDE DEF B, n
<1>5. /\ Depth - 1 \in 1 .. Depth /\ Depth \in 1 .. Depth /\ Depth - 1 # Depth
      /\ Caller = frames[Depth - 1] /\ Top = frames[Depth]
  BY <1>1, <1>2 DEF Caller, Top
<1>6. Caller \in GoodFrame(B, L) /\ Top \in GoodFrame(B, L)
  BY <1>1, <1>3, <1>5
<1>7. /\ Exact(Caller) /\ IsFiniteSet(heap)
      /\ Owned(Caller) \subseteq heap /\ Owned(Top) \subseteq heap
      /\ Owned(Caller) \intersect Owned(Top) = {}
  BY <1>1, <1>2, <1>5 DEF Sound, OwnedOnce
<1>8. CASE /\ frames' = Popped([f EXCEPT !.nested = @ \union Owned(Top)])
           /\ heap' = heap \union f.array
           /\ Going
  <2> DEFINE N == Caller.nested \union Owned(Top)
             g == [f EXCEPT !.nested = N]
             X == Owned(Top) \union NewArray(Caller)
  <2>1. /\ f \in GoodFrame(B, L) /\ Exact(f)
        /\ f.nested = Caller.nested /\ f.array = Caller.array \union NewArray(Caller)
        /\ NewArray(Caller) \intersect heap = {} /\ IsFiniteSet(NewArray(Caller))
    BY <1>4, <1>6, <1>7, PushedGood
  <2> HIDE DEF f
  <2>2. N \in SUBSET Nat
    BY <1>6 DEF GoodFrame, Owned
  <2>3. f.array \intersect N = {}
    <3>1. Caller.array \intersect Caller.nested = {}
      BY <1>6 DEF GoodFrame
    <3> QED  BY <1>7, <2>1, <3>1 DEF Owned
  <2>4. frames' = Popped(g) /\ status' = status
    <3>1. [f EXCEPT !.nested = @ \union Owned(Top)]
            = [f EXCEPT !.nested = f.nested \union Owned(Top)]
      OBVIOUS
    <3> QED  BY <1>8, <2>1, <3>1 DEF Going
  <2> HIDE DEF N
  <2>5. g \in GoodFrame(B, L) /\ (Exact(f) => Exact(g)) /\ Owned(g) = f.array \union N
    BY <2>1, <2>2, <2>3, NestedGood
  <2> HIDE DEF g
  <2>6. Owned(g) = Owned(Caller) \union X
    BY <2>1, <2>5 DEF N, Owned
  <2>7. X \intersect (heap \ Owned(Top)) = {}
    BY <2>1
  <2>8. heap' = (heap \ Owned(Top)) \union X
    BY <1>7, <1>8, <2>1 DEF Owned
  <2>9. IsFiniteSet(X)
    <3>1. IsFiniteSet(Owned(Top))
      BY <1>7, FS_Subset
    <3> QED  BY <2>1, <3>1, FS_Union
  <2> HIDE DEF X
  <2>10. (Parsing' => Parsing /\ Exact(g)) /\ status' # "rejected"
    BY <1>2, <2>1, <2>4, <2>5 DEF Parsing
  <2> QED  BY <1>1, <1>2, <1>3, <2>4, <2>5, <2>6, <2>7, <2>8, <2>9, <2>10, TopGoes
<1>9. CASE /\ frames' = Popped(NotPushed(Caller))
           /\ heap' = heap \ Owned(Top)
           /\ FailWith(Top.begin, "out of memory")
  <2> DEFINE g == NotPushed(Caller)
  <2>1. g \in GoodFrame(B, L) /\ g.array = Caller.array /\ g.nested = Caller.nested
    BY <1>6, NotPushedGood
  <2>2. frames' = Popped(g) /\ status' = "failing"
    BY <1>9 DEF FailWith
  <2> HIDE DEF g
  <2>3. /\ Owned(g) = Owned(Caller) \union {} /\ {} \intersect (heap \ Owned(Top)) = {}
        /\ heap' = (heap \ Owned(Top)) \union {}
    BY <1>9, <2>1 DEF Owned
  <2>4. (Parsing' => Parsing /\ Exact(g)) /\ status' # "rejected"
    BY <2>2 DEF Parsing
  <2> QED  BY <1>1, <1>2, <1>3, <2>1, <2>2, <2>3, <2>4, FS_EmptySet, TopGoes
<1> QED  BY <1>8, <1>9 DEF CloseLoop, f, n

LEMMA UnwindSound == Sound /\ Unwind => Sound'
<1> SUFFICES ASSUME Sound, Unwind PROVE Sound'
  OBVIOUS
<1>1. PICK B, L : /\ <<>> \in B /\ LexerStart \in L /\ frames \in Seq(GoodFrame(B, L))
                  /\ Depth \in Nat \ {0} /\ DOMAIN frames = 1 .. Depth
  BY SoundFrames
<1>2. Depth > 1 /\ status = "failing" /\ status' = status
  BY DEF Unwind
<1> DEFINE n == Depth - 1
<1>3. n \in Nat /\ n >= 1 /\ Len(frames) = n + 1 /\ frames[n + 1] = Top
  BY <1>1, <1>2 DEF Depth, Top
<1>4. frames' = SubSeq(frames, 1, n) /\ heap' = heap \ Owned(Top)
  BY DEF Unwind
<1> HIDE DEF n
<1>5. frames' \in Seq(GoodFrame(B, L)) /\ Len(frames') = n
  BY <1>1, <1>3, <1>4, FrontOf
<1>6. OwnedOnce(frames', heap')
  BY <1>1, <1>3, <1>4, OwnedByFront DEF Sound
<1>7. IsFiniteSet(heap')
  BY <1>4, FS_Subset DEF Sound
<1>8. frames' # <<>>
  BY <1>3, <1>5
<1> QED  BY <1>1, <1>2, <1>5, <1>6, <1>7, <1>8 DEF Sound, Parsing

LEMMA RejectSound == Sound /\ Reject => Sound'
<1> SUFFICES ASSUME Sound, Reject PROVE Sound'
  OBVIOUS
<1> DEFINE B == {<<>>}
           L == {LexerStart}
           e == EmptyBlock(LexerStart)
<1>1. Depth = 1 /\ DOMAIN frames = 1 .. Depth
  BY SoundFrames DEF Reject
<1>2. heap = Owned(Top)
  BY <1>1 DEF Sound, OwnedOnce, Top
<1>3. frames' = <<e>> /\ heap' = {} /\ status' = "rejected"
  BY <1>2 DEF Reject
<1>4. e \in GoodFrame(B, L) /\ Owned(e) = {}
  BY EmptyBlockGood
<1> HIDE DEF e
<1>5. frames' \in Seq(GoodFrame(B, L)) /\ frames' # <<>> /\ DOMAIN frames' = {1} /\ frames'[1] = e
  BY <1>3, <1>4
<1>6. OwnedOnce(frames', heap')
  BY <1>3, <1>4, <1>5 DEF OwnedOnce
<1>7. IsFiniteSet(heap')
  BY <1>3, FS_EmptySet
<1>8. <<>> \in B /\ LexerStart \in L
  OBVIOUS
<1> HIDE DEF B, L
<1> QED  BY <1>3, <1>5, <1>6, <1>7, <1>8 DEF Sound, Parsing

\* An error, the end of the source and stuttering leave the stack as it is.
LEMMA OthersSound ==
  ASSUME Sound, UnexpectedClose \/ UnterminatedLoop \/ Accept \/ UNCHANGED vars
  PROVE  Sound'
<1>1. frames' = frames /\ heap' = heap
  BY DEF UnexpectedClose, UnterminatedLoop, Accept, vars
<1>2. (Parsing' => Parsing) /\ (status' = "rejected" => status = "rejected")
  BY DEF UnexpectedClose, UnterminatedLoop, Accept, vars, FailWith, Parsing
<1> QED  BY <1>1, <1>2 DEF Sound

LEMMA StepSound == Sound /\ [Next]_vars => Sound'
  BY MergeDeltaSound, PushDeltaSound, PushIoSound, OpenLoopSound, CloseLoopSound,
     UnwindSound, RejectSound, OthersSound DEF Next, Step, Returned

LEMMA AlwaysSound == Spec => []Sound
  BY InitSound, StepSound, PTL DEF Spec

\* What the invariant says, in the words of the properties.
LEMMA SoundIsEnough == Sound => BlocksFitTheirArrays /\ ArraysOwnedOnce /\ BlocksAreCanonical
<1> SUFFICES ASSUME Sound PROVE BlocksFitTheirArrays /\ ArraysOwnedOnce /\ BlocksAreCanonical
  OBVIOUS
<1>1. PICK B, L : /\ DOMAIN frames = 1 .. Depth
                  /\ \A i \in 1 .. Depth : frames[i] \in GoodFrame(B, L)
  BY SoundFrames
<1>2. BlocksFitTheirArrays
  BY <1>1 DEF BlocksFitTheirArrays, GoodFrame, Sound, Exact
<1>3. ArraysOwnedOnce
  BY <1>1 DEF ArraysOwnedOnce, GoodFrame, Sound, OwnedOnce
<1>4. BlocksAreCanonical
  BY <1>1 DEF BlocksAreCanonical, GoodFrame
<1> QED  BY <1>2, <1>3, <1>4
-----------------------------------------------------------------------------
\* bf_ir_block_push never writes past a block's array, whichever realloc has failed.
THEOREM ParserBlocksFit == Spec => []BlocksFitTheirArrays
  BY AlwaysSound, SoundIsEnough, PTL

\* Every array is owned by one block until it is freed, once; a rejected program
\* leaves none (bf_parse_block's error paths, bf_ir_block_dispose).
THEOREM ParserArraysOwnedOnce == Spec => []ArraysOwnedOnce
  BY AlwaysSound, SoundIsEnough, PTL

\* Blocks hold no neighbouring deltas of one kind and none that is zero
\* (bf_ir_block_append_delta).
THEOREM ParserBlocksCanonical == Spec => []BlocksAreCanonical
  BY AlwaysSound, SoundIsEnough, PTL
-----------------------------------------------------------------------------
(***************************************************************************)
(* What ParseSource folds up.  A fold takes any stack of blocks, so there  *)
(* is no set of its values to define it on: that it exists is shown one    *)
(* character at a time.                                                    *)
(***************************************************************************)
FoldsText(h, text, n) ==
  h = [s \in SUBSET (1 .. n) |->
         IF s = {} THEN <<<<>>>> ELSE Consume(h[s \ {Max(s)}], text[Max(s)])]

BlocksFold(text) == CHOOSE h : FoldsText(h, text, Len(text))

\* The stack of blocks after the first k characters.
BlocksAfter(text, k) == BlocksFold(text)[1 .. k]

LEMMA MaxWithLast ==
  ASSUME NEW n \in Nat, NEW s \in SUBSET (1 .. n + 1)
  PROVE  /\ n + 1 \in s => Max(s) = n + 1 /\ s \ {Max(s)} \in SUBSET (1 .. n)
         /\ n + 1 \notin s => s \in SUBSET (1 .. n)
         /\ s # {} => Max(s) \in s /\ s \ {Max(s)} \in SUBSET (1 .. n + 1)
<1>1. n + 1 \in Nat /\ 1 .. n + 1 = (1 .. n) \union {n + 1}
  OBVIOUS
<1>2. s # {} => Max(s) \in s /\ \A k \in s : k <= Max(s)
  <2> DEFINE m == n + 1
  <2>1. m \in Nat /\ s \in SUBSET (1 .. m)  OBVIOUS
  <2> HIDE DEF m
  <2> QED  BY <2>1, MaxOfIndices
<1>3. n + 1 \in s => Max(s) = n + 1
  <2> SUFFICES ASSUME n + 1 \in s PROVE Max(s) = n + 1
    OBVIOUS
  <2> DEFINE m == Max(s)
  <2>1. m \in 1 .. n + 1 /\ n + 1 <= m
    BY <1>2
  <2> HIDE DEF m
  <2>2. m = n + 1  BY <2>1
  <2> QED  BY <2>2 DEF m
<1>4. n + 1 \in s => s \ {Max(s)} \in SUBSET (1 .. n)
  BY <1>1, <1>3
<1> QED  BY <1>1, <1>2, <1>3, <1>4

LEMMA BlocksFoldExists ==
  ASSUME NEW text \in Seq(STRING)
  PROVE  FoldsText(BlocksFold(text), text, Len(text))
<1> DEFINE N == Len(text)
           G == {n \in 0 .. N : \E h : FoldsText(h, text, n)}
<1>0. N \in Nat  OBVIOUS
<1>1. 0 \in G
  <2> DEFINE h == [s \in SUBSET (1 .. 0) |-> <<<<>>>>]
  <2>1. \A s \in SUBSET (1 .. 0) : s = {}  OBVIOUS
  <2>2. FoldsText(h, text, 0)  BY <2>1 DEF FoldsText
  <2> QED  BY <1>0, <2>2
<1>2. ASSUME NEW n \in 0 .. N - 1, n \in G PROVE n + 1 \in G
  <2>1. n \in Nat /\ n + 1 \in 0 .. N  BY <1>0
  <2>2. PICK h : FoldsText(h, text, n)  BY <1>2
  <2> DEFINE D == SUBSET (1 .. n + 1)
             Then(f, s) == IF s = {} THEN <<<<>>>> ELSE Consume(f[s \ {Max(s)}], text[Max(s)])
             g == [s \in D |-> IF n + 1 \in s THEN Consume(h[s \ {n + 1}], text[n + 1])
                               ELSE h[s]]
  <2>3. ASSUME NEW s \in D PROVE g[s] = Then(g, s)
    <3>1. CASE n + 1 \in s
      <4>1. Max(s) = n + 1 /\ s \ {Max(s)} \in SUBSET (1 .. n) /\ s # {}
        BY <2>1, <3>1, MaxWithLast
      <4>2. s \ {n + 1} \in D /\ n + 1 \notin s \ {n + 1}
        OBVIOUS
      <4>3. g[s \ {n + 1}] = h[s \ {n + 1}]
        BY <4>2
      <4>4. g[s] = Consume(h[s \ {n + 1}], text[n + 1])
        BY <3>1
      <4> HIDE DEF g
      <4> QED  BY <4>1, <4>3, <4>4
    <3>2. CASE n + 1 \notin s
      <4>1. g[s] = h[s] /\ s \in SUBSET (1 .. n)
        BY <2>1, <3>2, MaxWithLast
      <4>2. h[s] = Then(h, s)
        BY <2>2, <4>1 DEF FoldsText
      <4>3. s # {} => h[s \ {Max(s)}] = g[s \ {Max(s)}]
        <5> SUFFICES ASSUME s # {} PROVE h[s \ {Max(s)}] = g[s \ {Max(s)}]
          OBVIOUS
        <5>1. s \ {Max(s)} \in D /\ n + 1 \notin s \ {Max(s)}
          BY <3>2
        <5> QED  BY <5>1
      <4> HIDE DEF g
      <4> QED  BY <4>1, <4>2, <4>3
    <3> QED  BY <3>1, <3>2
  <2>4. FoldsText(g, text, n + 1)
    <3>1. g = [s \in D |-> g[s]]  OBVIOUS
    <3> HIDE DEF g
    <3>2. g = [s \in D |-> Then(g, s)]
      <4> HIDE DEF D, Then
      <4> QED  BY <2>3, <3>1
    <3> QED  BY <3>2 DEF FoldsText
  <2> HIDE DEF g
  <2> QED  BY <2>1, <2>4
<1>3. N \in G
  <2> HIDE DEF G, N
  <2> QED  BY <1>0, <1>1, <1>2, InductionTo
<1>4. \E h : FoldsText(h, text, Len(text))
  BY <1>3
<1> QED  BY <1>4 DEF BlocksFold

LEMMA BlocksAfterSteps ==
  ASSUME NEW text \in Seq(STRING)
  PROVE  /\ BlocksAfter(text, 0) = <<<<>>>>
         /\ \A k \in 1 .. Len(text) :
              BlocksAfter(text, k) = Consume(BlocksAfter(text, k - 1), text[k])
         /\ ParseSource(text) = BlocksAfter(text, Len(text))[1]
<1> DEFINE N == Len(text)
           it == BlocksFold(text)
<1>0. N \in Nat /\ DOMAIN text = 1 .. N  OBVIOUS
<1>1. \A s \in SUBSET (1 .. N) :
        it[s] = IF s = {} THEN <<<<>>>> ELSE Consume(it[s \ {Max(s)}], text[Max(s)])
  <2>1. FoldsText(it, text, N)  BY BlocksFoldExists
  <2> HIDE DEF it, N
  <2> QED  BY <2>1 DEF FoldsText
<1>2. BlocksAfter(text, 0) = <<<<>>>>
  <2>1. 1 .. 0 = {} /\ {} \in SUBSET (1 .. N)  OBVIOUS
  <2>2. it[{}] = <<<<>>>>
    <3> HIDE DEF it, N
    <3> QED  BY <1>1
  <2> QED  BY <2>1, <2>2 DEF BlocksAfter
<1>3. ASSUME NEW k \in 1 .. N
      PROVE  BlocksAfter(text, k) = Consume(BlocksAfter(text, k - 1), text[k])
  <2>1. 1 .. k \in SUBSET (1 .. N) /\ 1 .. k # {}
    <3>1. k \in 1 .. k  OBVIOUS
    <3> HIDE DEF N
    <3> QED  BY <1>0, <3>1
  <2>2. Max(1 .. k) = k /\ (1 .. k) \ {k} = 1 .. k - 1
    <3> HIDE DEF N
    <3> QED  BY <1>0, MaxOfFirst
  <2>3. it[1 .. k] = Consume(it[1 .. k - 1], text[k])
    <3> HIDE DEF it, N
    <3> QED  BY <1>1, <2>1, <2>2
  <2> QED  BY <2>3 DEF BlocksAfter
<1>4. ParseSource(text) = it[1 .. N][1]
  BY <1>0 DEF ParseSource, FoldLeft, MapThenFoldSet, BlocksFold, FoldsText
<1> QED  BY <1>2, <1>3, <1>4 DEF BlocksAfter
-----------------------------------------------------------------------------
(* Locations.                                                              *)

Locs == [offset : Nat, line : Nat, column : Nat]

\* The location behind the first k characters.
LocBehind(k) == LocationOf(k + 1)

NewlinesTo(k) == {i \in 1 .. k : source[i] = "\n"}

LEMMA AdvanceFields ==
  ASSUME NEW at \in Locs, NEW ch
  PROVE  /\ Advance(at, ch) \in Locs
         /\ ch # "\n" => Advance(at, ch) = [offset |-> at.offset + 1, line |-> at.line,
                                            column |-> at.column + 1]
<1>1. at.offset \in Nat /\ at.line \in Nat /\ at.column \in Nat
  BY DEF Locs
<1>2. ASSUME NEW x \in Nat, NEW y \in Nat
      PROVE  [at EXCEPT !.offset = x, !.column = y]
               = [offset |-> x, line |-> at.line, column |-> y]
  <2> DEFINE r == [at EXCEPT !.offset = x]
  <2>1. r \in Locs /\ r.line = at.line /\ r.offset = x
    BY DEF Locs
  <2> HIDE DEF r
  <2>2. [r EXCEPT !.column = y] = [offset |-> x, line |-> at.line, column |-> y]
    BY <2>1 DEF Locs
  <2> QED  BY <2>2 DEF r
<1>3. CASE ch = "\n"
  BY <1>1, <1>3 DEF Advance, Locs
<1>4. CASE ch # "\n"
  <2>1. Advance(at, ch) = [at EXCEPT !.offset = at.offset + 1, !.column = at.column + 1]
    BY <1>4, Zenon DEF Advance
  <2>2. Advance(at, ch) = [offset |-> at.offset + 1, line |-> at.line,
                           column |-> at.column + 1]
    <3> DEFINE x == at.offset + 1
               y == at.column + 1
    <3>1. x \in Nat /\ y \in Nat  BY <1>1
    <3> HIDE DEF x, y
    <3>2. Advance(at, ch) = [at EXCEPT !.offset = x, !.column = y]
      BY <2>1 DEF x, y
    <3>3. [at EXCEPT !.offset = x, !.column = y]
            = [offset |-> x, line |-> at.line, column |-> y]
      BY <1>2, <3>1
    <3>4. Advance(at, ch) = [offset |-> x, line |-> at.line, column |-> y]
      BY <3>2, <3>3, Zenon
    <3> QED  BY <3>4 DEF x, y
  <2> QED  BY <1>1, <2>2 DEF Locs
<1> QED  BY <1>3, <1>4

LEMMA NewlinesStep ==
  ASSUME NEW k \in Nat
  PROVE  /\ IsFiniteSet(NewlinesTo(k)) /\ Cardinality(NewlinesTo(k)) \in Nat
         /\ Greatest(NewlinesTo(k) \union {0}) \in 0 .. k
         /\ source[k + 1] = "\n" =>
              /\ Cardinality(NewlinesTo(k + 1)) = Cardinality(NewlinesTo(k)) + 1
              /\ Greatest(NewlinesTo(k + 1) \union {0}) = k + 1
         /\ source[k + 1] # "\n" => NewlinesTo(k + 1) = NewlinesTo(k)
<1>1. IsFiniteSet(NewlinesTo(k)) /\ Cardinality(NewlinesTo(k)) \in Nat
  <2>1. IsFiniteSet(1 .. k)  BY FS_Interval
  <2>2. NewlinesTo(k) \subseteq 1 .. k  BY DEF NewlinesTo
  <2> QED  BY <2>1, <2>2, FS_Subset, FS_CardinalityType
<1>2. ASSUME NEW j \in Nat
      PROVE  LET S == NewlinesTo(j) \union {0}
             IN  Greatest(S) \in 0 .. j /\ \A y \in S : y <= Greatest(S)
  <2> DEFINE S == NewlinesTo(j) \union {0}
  <2>1. S \subseteq 0 .. j /\ S # {}  BY DEF NewlinesTo
  <2> HIDE DEF S
  <2>2. S \subseteq Int /\ (\A x \in S : x <= j) /\ j \in Int  BY <2>1
  <2>3. Greatest(S) \in S /\ \A y \in S : y <= Greatest(S)
    BY <2>1, <2>2, GreatestOfBounded
  <2>4. Greatest(S) \in 0 .. j /\ \A y \in S : y <= Greatest(S)
    BY <2>1, <2>3
  <2> QED  BY <2>4 DEF S
<1>3. 1 .. k + 1 = (1 .. k) \union {k + 1} /\ k + 1 \notin 1 .. k /\ k + 1 \in Nat
  OBVIOUS
<1>4. ASSUME source[k + 1] = "\n"
      PROVE  /\ Cardinality(NewlinesTo(k + 1)) = Cardinality(NewlinesTo(k)) + 1
             /\ Greatest(NewlinesTo(k + 1) \union {0}) = k + 1
  <2>1. NewlinesTo(k + 1) = NewlinesTo(k) \union {k + 1} /\ k + 1 \notin NewlinesTo(k)
    BY <1>3, <1>4 DEF NewlinesTo
  <2>2. Cardinality(NewlinesTo(k + 1)) = Cardinality(NewlinesTo(k)) + 1
    BY <1>1, <2>1, FS_AddElement
  <2>3. k + 1 <= Greatest(NewlinesTo(k + 1) \union {0})
    BY <1>2, <1>3, <2>1
  <2>4. Greatest(NewlinesTo(k + 1) \union {0}) \in 0 .. k + 1
    BY <1>2, <1>3
  <2> DEFINE z == Greatest(NewlinesTo(k + 1) \union {0})
  <2>5. z = k + 1
    <3> HIDE DEF z
    <3> QED  BY <2>3, <2>4 DEF z
  <2> QED  BY <2>2, <2>5
<1>5. source[k + 1] # "\n" => NewlinesTo(k + 1) = NewlinesTo(k)
  BY <1>3 DEF NewlinesTo
<1> QED  BY <1>1, <1>2, <1>4, <1>5

\* The lexer counts what the text has.
LEMMA LocationsStep ==
  ASSUME NEW k \in Nat
  PROVE  /\ LocBehind(k) \in Locs /\ LocBehind(k).offset = k
         /\ Advance(LocBehind(k), source[k + 1]) = LocBehind(k + 1)
<1> DEFINE Count(j) == Cardinality(NewlinesTo(j))
           LastBreak(j)  == Greatest(NewlinesTo(j) \union {0})
<1>1. /\ Count(k) \in Nat /\ LastBreak(k) \in 0 .. k
      /\ source[k + 1] = "\n" => Count(k + 1) = Count(k) + 1 /\ LastBreak(k + 1) = k + 1
      /\ source[k + 1] # "\n" => Count(k + 1) = Count(k) /\ LastBreak(k + 1) = LastBreak(k)
  BY NewlinesStep
<1>2. ASSUME NEW j \in Nat
      PROVE  LocBehind(j) = [offset |-> j, line |-> 1 + Count(j), column |-> (j + 1) - LastBreak(j)]
  <2>1. (j + 1) - 1 = j  OBVIOUS
  <2> DEFINE S == {i \in 1 .. (j + 1) - 1 : source[i] = "\n"}
  <2>2. S = NewlinesTo(j)
    BY <2>1 DEF NewlinesTo
  <2> DEFINE p == (j + 1) - 1
             c == 1 + Cardinality(S)
             z == (j + 1) - Greatest(S \union {0})
  <2>3. LocBehind(j) = [offset |-> p, line |-> c, column |-> z]
    BY DEF LocBehind, LocationOf
  <2>5. p = j
    BY <2>1
  <2> HIDE DEF S
  <2>4. c = 1 + Count(j) /\ z = (j + 1) - LastBreak(j)
    BY <2>2 DEF Count, LastBreak
  <2> HIDE DEF p, c, z, Count, LastBreak
  <2> QED  BY <2>3, <2>4, <2>5, Zenon
<1> HIDE DEF Count, LastBreak
<1>3. LocBehind(k) = [offset |-> k, line |-> 1 + Count(k), column |-> (k + 1) - LastBreak(k)]
  BY <1>2
<1>4. k + 1 \in Nat  OBVIOUS
<1>5. LocBehind(k + 1) = [offset |-> k + 1, line |-> 1 + Count(k + 1),
                          column |-> (k + 1 + 1) - LastBreak(k + 1)]
  BY <1>2, <1>4
<1>6. CASE source[k + 1] = "\n"
  <2>1. Advance(LocBehind(k), source[k + 1])
          = [offset |-> k + 1, line |-> 1 + Count(k) + 1, column |-> 1]
    BY <1>3, <1>6 DEF Advance
  <2>2. 1 + Count(k) + 1 = 1 + Count(k + 1) /\ (k + 1 + 1) - LastBreak(k + 1) = 1
    BY <1>1, <1>6
  <2> QED  BY <1>1, <1>3, <1>5, <2>1, <2>2 DEF Locs
<1>7. CASE source[k + 1] # "\n"
  <2> DEFINE at == LocBehind(k)
  <2>0. at \in Locs
    BY <1>1, <1>3 DEF Locs
  <2>1. Advance(at, source[k + 1])
          = [offset |-> k + 1, line |-> 1 + Count(k), column |-> ((k + 1) - LastBreak(k)) + 1]
    <3> HIDE DEF at
    <3>1. at.offset = k /\ at.line = 1 + Count(k) /\ at.column = (k + 1) - LastBreak(k)
      BY <1>3 DEF at
    <3> QED  BY <1>7, <2>0, <3>1, AdvanceFields
  <2>2. Count(k + 1) = Count(k) /\ ((k + 1) - LastBreak(k)) + 1 = (k + 1 + 1) - LastBreak(k + 1)
    BY <1>1, <1>7
  <2> QED  BY <1>1, <1>3, <1>5, <2>1, <2>2 DEF Locs
<1> QED  BY <1>6, <1>7

LEMMA LocationsStart == LocBehind(0) = LexerStart
<1>1. {i \in 1 .. (0 + 1) - 1 : source[i] = "\n"} = {}
  OBVIOUS
<1>2. Cardinality({}) = 0  BY FS_EmptySet
<1>3. Greatest({} \union {0}) = 0  BY DEF Greatest
<1>4. LocationOf(0 + 1) = [offset |-> (0 + 1) - 1, line |-> 1 + Cardinality({}),
                           column |-> (0 + 1) - Greatest({} \union {0})]
  BY <1>1 DEF LocationOf
<1> QED  BY <1>2, <1>3, <1>4 DEF LocBehind, LexerStart

LEMMA AdvanceToLocation ==
  ASSUME source \in Seq(STRING), NEW o \in Nat, NEW m \in Nat, o <= m, m <= Len(source)
  PROVE  AdvanceTo(source, LocBehind(o), m) = LocBehind(m)
<1> DEFINE text == SubSeq(source, o + 1, m)
           n == m - o
           b == LocBehind(o)
           g == [p \in Locs \X (1 .. n) |-> Advance(p[1], text[p[2]])]
           Is(h) == h = [s \in SUBSET (1 .. n) |->
                           IF s = {} THEN b ELSE Advance(h[s \ {Max(s)}], text[Max(s)])]
           it == CHOOSE h : Is(h)
<1>1. n \in Nat /\ Len(text) = n /\ DOMAIN text = 1 .. n
      /\ \A j \in 1 .. n : text[j] = source[o + j]
  <2>1. \A j \in o + 1 .. m : source[j] \in STRING
    OBVIOUS
  <2>2. /\ text \in Seq(STRING)
        /\ Len(text) = IF o + 1 <= m THEN m - (o + 1) + 1 ELSE 0
        /\ \A j \in 1 .. m - (o + 1) + 1 : text[j] = source[(o + 1) + j - 1]
    BY <2>1, SubSeqProperties
  <2> HIDE DEF text
  <2>3. Len(text) = m - o /\ \A j \in 1 .. m - o : text[j] = source[o + j]
    BY <2>2
  <2> QED  BY <2>2, <2>3
<1>2. b \in Locs /\ b.offset = o
  BY LocationsStep
<1>3. ASSUME NEW at \in Locs, NEW ch PROVE Advance(at, ch) \in Locs
  BY AdvanceFields
<1> HIDE DEF text, b, n
<1>4. g \in [Locs \X (1 .. n) -> Locs]
  BY <1>3
<1>5. \A at \in Locs : \A j \in 1 .. n : g[<<at, j>>] = Advance(at, text[j])
  OBVIOUS
<1> HIDE DEF g
<1>6. Is(it)
  <2>1. PICK f : ChosenFold(f, g, b, Locs, n)
    BY <1>1, <1>2, <1>4, ChosenFoldExists
  <2>2. ASSUME NEW s \in SUBSET (1 .. n)
        PROVE  f[s] = IF s = {} THEN b ELSE Advance(f[s \ {Max(s)}], text[Max(s)])
    <3>1. s # {} => Max(s) \in 1 .. n /\ f[s \ {Max(s)}] \in Locs
      BY <1>1, <2>1, MaxOfIndices DEF ChosenFold
    <3> QED  BY <1>5, <2>1, <3>1 DEF ChosenFold
  <2>3. f = [s \in SUBSET (1 .. n) |-> f[s]]
    BY <2>1 DEF ChosenFold
  <2>4. Is(f)
    BY <2>2, <2>3
  <2> HIDE DEF Is
  <2> QED  BY <2>4
<1>7. FoldLeft(Advance, b, text) = it[1 .. n]
  BY <1>1 DEF FoldLeft, MapThenFoldSet
<1> HIDE DEF it
<1>8. FoldsUp(it, g, b, Locs, n)
  <2>1. \A s \in SUBSET (1 .. n) :
          it[s] = IF s = {} THEN b ELSE Advance(it[s \ {Max(s)}], text[Max(s)])
    BY <1>6
  <2>2. it[{}] = b
    BY <2>1
  <2>3. ASSUME NEW s \in SUBSET (1 .. n), s # {}, it[s \ {Max(s)}] \in Locs
        PROVE  it[s] = g[<<it[s \ {Max(s)}], Max(s)>>]
    <3>1. Max(s) \in 1 .. n  BY <1>1, <2>3, MaxOfIndices
    <3> QED  BY <1>5, <2>1, <2>3, <3>1
  <2> QED  BY <2>2, <2>3 DEF FoldsUp
<1>9. PICK acc : Traces(acc, it, g, b, Locs, n)
  BY <1>1, <1>2, <1>4, <1>8, FoldSteps
<1> DEFINE G == {j \in 0 .. n : acc[j] = LocBehind(o + j)}
<1>10. 0 \in G
  <2>1. o + 0 = o /\ 0 \in 0 .. n  BY <1>1
  <2>2. acc[0] = b  BY <1>9 DEF Traces, Trace
  <2> QED  BY <2>1, <2>2 DEF b
<1>11. ASSUME NEW j \in 0 .. n - 1, j \in G PROVE j + 1 \in G
  <2>1. j + 1 \in 1 .. n /\ (j + 1) - 1 = j /\ j + 1 \in 0 .. n /\ j \in 0 .. n
        /\ o + j \in Nat /\ o + (j + 1) = (o + j) + 1
    BY <1>1
  <2>2. acc[j + 1] = g[<<acc[j], j + 1>>] /\ acc[j] \in Locs
    BY <1>9, <2>1 DEF Traces, Trace
  <2>3. acc[j + 1] = Advance(acc[j], source[(o + j) + 1])
    BY <1>1, <1>5, <2>1, <2>2
  <2>4. acc[j] = LocBehind(o + j)
    BY <1>11
  <2>5. Advance(LocBehind(o + j), source[(o + j) + 1]) = LocBehind((o + j) + 1)
    BY <2>1, LocationsStep
  <2> QED  BY <2>1, <2>3, <2>4, <2>5
<1>12. n \in G
  <2> HIDE DEF G
  <2> QED  BY <1>1, <1>10, <1>11, InductionTo
<1>13. it[1 .. n] = LocBehind(o + n)
  BY <1>9, <1>12 DEF Traces
<1>14. o + n = m
  BY DEF n
<1> QED  BY <1>2, <1>7, <1>13, <1>14 DEF AdvanceTo, text, b

\* bf_lexer_next from behind the first o characters: it passes over p - o of
\* them that are no instructions, and has the one behind, or the end.
TokenAt(lexed, p) ==
  /\ lexed.token.loc = LocBehind(p)
  /\ \/ /\ p < Len(source) /\ source[p + 1] \in Instructions
        /\ lexed.token.kind = source[p + 1] /\ lexed.after = LocBehind(p + 1)
     \/ /\ p = Len(source)
        /\ lexed.token.kind = "eof" /\ lexed.after = LocBehind(p)

Comments(from, to) == \A k \in from .. to : source[k] \notin Instructions

LEMMA LexFinds ==
  ASSUME source \in Seq(STRING), NEW o \in 0 .. Len(source)
  PROVE  \E p \in o .. Len(source) :
           Comments(o + 1, p) /\ TokenAt(Lex(source, LocBehind(o)), p)
<1> DEFINE N     == Len(source)
           at    == LocBehind(o)
           lexed == Lex(source, at)
           ahead == {k \in at.offset + 1 .. N : IsInstruction(source[k])}
           found == Least(ahead)
           end   == AdvanceTo(source, at, N)
           loc   == AdvanceTo(source, at, found - 1)
<1>0. N \in Nat /\ o \in Nat /\ o <= N
  OBVIOUS
<1>1. at.offset = o
  BY <1>0, LocationsStep
<1>2. ahead = {k \in o + 1 .. N : source[k] \in Instructions}
  <2> HIDE DEF at
  <2> QED  BY <1>1 DEF IsInstruction
<1>3. CASE ahead = {}
  <2>1. lexed.token = [kind |-> "eof", loc |-> end] /\ lexed.after = end
    BY <1>3 DEF Lex
  <2>2. end = LocBehind(N)
    BY <1>0, AdvanceToLocation
  <2>3. Comments(o + 1, N)
    <3> HIDE DEF ahead, N
    <3> QED  BY <1>2, <1>3 DEF Comments
  <2> HIDE DEF end, lexed
  <2>4. TokenAt(lexed, N)
    BY <2>1, <2>2 DEF TokenAt
  <2>5. N \in o .. N
    BY <1>0
  <2> QED  BY <2>3, <2>4, <2>5 DEF lexed
<1>4. CASE ahead # {}
  <2>1. lexed.token = [kind |-> source[found], loc |-> loc]
        /\ lexed.after = Advance(loc, source[found])
    BY <1>4 DEF Lex
  <2> HIDE DEF ahead, lexed, loc
  <2>2. found \in ahead /\ \A k \in ahead : found <= k
    <3>1. ahead \subseteq Int /\ (\A k \in ahead : o <= k) /\ o \in Int
      BY <1>0, <1>2
    <3> QED  BY <1>4, <3>1, LeastOfBounded
  <2>3. found \in o + 1 .. N /\ source[found] \in Instructions
    BY <1>2, <2>2
  <2> HIDE DEF found
  <2> DEFINE p == found - 1
  <2>4. p \in o .. N /\ p \in Nat /\ p <= N /\ p < N /\ p + 1 = found /\ o <= p
    BY <1>0, <2>3
  <2>5. Comments(o + 1, p)
    <3> HIDE DEF N
    <3> QED  BY <1>0, <1>2, <2>2, <2>3 DEF Comments
  <2> HIDE DEF p
  <2>6. loc = LocBehind(p)
    <3>1. AdvanceTo(source, LocBehind(o), p) = LocBehind(p)
      BY <1>0, <2>4, AdvanceToLocation
    <3> QED  BY <3>1 DEF loc, p
  <2>7. lexed.after = LocBehind(p + 1)
    BY <2>1, <2>4, <2>6, LocationsStep
  <2>8. TokenAt(lexed, p)
    BY <2>1, <2>3, <2>4, <2>6, <2>7 DEF TokenAt
  <2> QED  BY <2>4, <2>5, <2>8 DEF lexed
<1> QED  BY <1>3, <1>4
-----------------------------------------------------------------------------
(* Brackets.                                                               *)

\* How often a character stands in a part of the text.
CountIn(ch, from, to) == Cardinality({i \in DOMAIN Part(from, to) : Part(from, to)[i] = ch})

\* How many loops are open behind the first k characters.
Level(k) == Opens(Part(1, k)) - Closes(Part(1, k))

Nesting(ch) == IF ch = "[" THEN 1 ELSE IF ch = "]" THEN -1 ELSE 0

LEMMA PartIs ==
  ASSUME source \in Seq(STRING), NEW k \in Nat \ {0}, NEW m \in Nat,
         k <= m + 1, m <= Len(source)
  PROVE  /\ DOMAIN Part(k, m) = 1 .. (m - k) + 1
         /\ \A i \in 1 .. (m - k) + 1 : Part(k, m)[i] = source[(k + i) - 1]
<1>1. \A j \in k .. m : source[j] \in STRING
  OBVIOUS
<1>2. /\ SubSeq(source, k, m) \in Seq(STRING)
      /\ Len(SubSeq(source, k, m)) = IF k <= m THEN m - k + 1 ELSE 0
      /\ \A i \in 1 .. m - k + 1 : SubSeq(source, k, m)[i] = source[k + i - 1]
  BY <1>1, SubSeqProperties
<1> DEFINE s == SubSeq(source, k, m)
<1> HIDE DEF s
<1>3. Len(s) = (m - k) + 1 /\ s \in Seq(STRING)
  BY <1>2 DEF s
<1>4. \A i \in 1 .. (m - k) + 1 : s[i] = source[(k + i) - 1]
  BY <1>2 DEF s
<1> QED  BY <1>3, <1>4 DEF s, Part

LEMMA CountStep ==
  ASSUME source \in Seq(STRING), NEW k \in Nat \ {0}, NEW m \in Nat, NEW ch,
         k <= m + 1, m <= Len(source)
  PROVE  /\ CountIn(ch, k, m) \in Nat
         /\ k = m + 1 => CountIn(ch, k, m) = 0
         /\ m < Len(source) =>
              CountIn(ch, k, m + 1) = CountIn(ch, k, m) + (IF source[m + 1] = ch THEN 1 ELSE 0)
<1> DEFINE n == (m - k) + 1
           S == {i \in 1 .. n : source[(k + i) - 1] = ch}
<1>0. n \in Nat
  OBVIOUS
<1>1. CountIn(ch, k, m) = Cardinality(S)
  <2>1. {i \in DOMAIN Part(k, m) : Part(k, m)[i] = ch} = S
    BY PartIs
  <2> QED  BY <2>1 DEF CountIn
<1>2. IsFiniteSet(S) /\ Cardinality(S) \in Nat
  <2>1. IsFiniteSet(1 .. n)  BY <1>0, FS_Interval
  <2>2. S \subseteq 1 .. n  OBVIOUS
  <2> QED  BY <2>1, <2>2, FS_Subset, FS_CardinalityType
<1>3. ASSUME k = m + 1 PROVE Cardinality(S) = 0
  <2>1. S = {}  BY <1>3
  <2> QED  BY <2>1, FS_EmptySet
<1>4. ASSUME m < Len(source)
      PROVE  CountIn(ch, k, m + 1) = Cardinality(S) + (IF source[m + 1] = ch THEN 1 ELSE 0)
  <2> DEFINE T == {i \in 1 .. n + 1 : source[(k + i) - 1] = ch}
             q == m + 1
  <2>1. q \in Nat /\ k <= q + 1 /\ q <= Len(source) /\ (q - k) + 1 = n + 1
    BY <1>4
  <2>2. CountIn(ch, k, q) = Cardinality(T)
    <3>1. /\ DOMAIN Part(k, q) = 1 .. (q - k) + 1
          /\ \A i \in 1 .. (q - k) + 1 : Part(k, q)[i] = source[(k + i) - 1]
      <4> HIDE DEF q
      <4> QED  BY <2>1, PartIs
    <3> HIDE DEF q, n
    <3>2. {i \in DOMAIN Part(k, q) : Part(k, q)[i] = ch} = T
      BY <2>1, <3>1
    <3> QED  BY <3>2 DEF CountIn
  <2>3. (k + (n + 1)) - 1 = m + 1 /\ n + 1 \notin S
        /\ 1 .. n + 1 = (1 .. n) \union {n + 1}
    <3> QED  BY <1>0
  <2>4. CASE source[m + 1] = ch
    <3>1. T = S \union {n + 1}
      <4> HIDE DEF n
      <4> QED  BY <2>3, <2>4
    <3>2. Cardinality(S \union {n + 1}) = Cardinality(S) + 1
      <4> HIDE DEF S, n
      <4> QED  BY <1>2, <2>3, FS_AddElement
    <3> HIDE DEF S, T, n
    <3> QED  BY <2>2, <2>4, <3>1, <3>2
  <2>5. CASE source[m + 1] # ch
    <3>1. T = S
      <4> HIDE DEF n
      <4> QED  BY <2>3, <2>5
    <3> HIDE DEF S, T, n
    <3> QED  BY <1>2, <2>2, <2>5, <3>1
  <2> QED  BY <2>4, <2>5
<1> HIDE DEF S, n
<1> QED  BY <1>1, <1>2, <1>3, <1>4

\* What is in a part of the text is what is in front of its end but not of its
\* beginning.
LEMMA CountParts ==
  ASSUME source \in Seq(STRING), NEW k \in Nat \ {0}, NEW m \in Nat, NEW ch,
         k <= m + 1, m <= Len(source)
  PROVE  CountIn(ch, k, m) = CountIn(ch, 1, m) - CountIn(ch, 1, k - 1)
<1> DEFINE n == m - (k - 1)
           G == {j \in 0 .. n : CountIn(ch, k, (k - 1) + j)
                                  = CountIn(ch, 1, (k - 1) + j) - CountIn(ch, 1, k - 1)}
<1>0. n \in Nat /\ k - 1 \in Nat /\ k - 1 <= Len(source)
  OBVIOUS
<1>1. 0 \in G
  <2>1. (k - 1) + 0 = k - 1 /\ k = (k - 1) + 1  OBVIOUS
  <2>2. CountIn(ch, k, k - 1) = 0
    BY <1>0, <2>1, CountStep
  <2>3. CountIn(ch, 1, k - 1) \in Nat
    BY <1>0, CountStep
  <2> QED  BY <1>0, <2>1, <2>2, <2>3
<1>2. ASSUME NEW j \in 0 .. n - 1, j \in G PROVE j + 1 \in G
  <2> DEFINE q == (k - 1) + j
  <2>1. /\ q \in Nat /\ k <= q + 1 /\ 1 <= q + 1 /\ q < Len(source) /\ q <= Len(source)
        /\ (k - 1) + (j + 1) = q + 1 /\ j + 1 \in 0 .. n
    BY <1>0
  <2>2. CountIn(ch, k, q) = CountIn(ch, 1, q) - CountIn(ch, 1, k - 1)
    BY <1>2
  <2> DEFINE d == IF source[q + 1] = ch THEN 1 ELSE 0
  <2> HIDE DEF q
  <2>3. CountIn(ch, k, q + 1) = CountIn(ch, k, q) + d
    BY <2>1, CountStep
  <2>4. CountIn(ch, 1, q + 1) = CountIn(ch, 1, q) + d /\ CountIn(ch, 1, q) \in Nat
    BY <2>1, CountStep
  <2>5. CountIn(ch, 1, k - 1) \in Nat
    BY <1>0, CountStep
  <2>6. CountIn(ch, k, q + 1) = CountIn(ch, 1, q + 1) - CountIn(ch, 1, k - 1)
    BY <2>2, <2>3, <2>4, <2>5
  <2> QED  BY <2>1, <2>6
<1>3. n \in G
  <2> HIDE DEF G, n
  <2> QED  BY <1>0, <1>1, <1>2, InductionTo
<1>4. (k - 1) + n = m
  OBVIOUS
<1> QED  BY <1>3, <1>4

\* Levels change at brackets only, and tell how the brackets of a part add up.
LEMMA LevelSteps ==
  ASSUME source \in Seq(STRING)
  PROVE  /\ Level(0) = 0
         /\ \A k \in 0 .. Len(source) : Level(k) \in Int
         /\ \A k \in 0 .. Len(source) - 1 :
              Level(k + 1) = Level(k) + Nesting(source[k + 1])
         /\ \A k \in 1 .. Len(source) :
              Opens(Part(1, k)) \in Nat /\ Closes(Part(1, k)) \in Nat
         /\ \A k \in 1 .. Len(source) : \A m \in k .. Len(source) :
              Opens(Part(k, m)) > Closes(Part(k, m)) <=> Level(m) > Level(k - 1)
<1> DEFINE O(k) == CountIn("[", 1, k)
           C(k) == CountIn("]", 1, k)
<1>1. \A k : Level(k) = O(k) - C(k) /\ Opens(Part(1, k)) = O(k) /\ Closes(Part(1, k)) = C(k)
  BY DEF Level, Opens, Closes, CountIn
<1>2. O(0) = 0 /\ C(0) = 0
  <2>1. 1 = 0 + 1 /\ 0 \in Nat /\ 1 \in Nat \ {0} /\ 1 <= 0 + 1 /\ 0 <= Len(source)
    OBVIOUS
  <2> QED  BY <2>1, CountStep
<1>3. ASSUME NEW k \in 0 .. Len(source)
      PROVE  /\ O(k) \in Nat /\ C(k) \in Nat
             /\ k < Len(source) =>
                  /\ O(k + 1) = O(k) + (IF source[k + 1] = "[" THEN 1 ELSE 0)
                  /\ C(k + 1) = C(k) + (IF source[k + 1] = "]" THEN 1 ELSE 0)
  <2>1. k \in Nat /\ 1 \in Nat \ {0} /\ 1 <= k + 1 /\ k <= Len(source)
    OBVIOUS
  <2> QED  BY <2>1, CountStep
<1>4. ASSUME NEW k \in 1 .. Len(source), NEW m \in k .. Len(source)
      PROVE  Opens(Part(k, m)) > Closes(Part(k, m)) <=> Level(m) > Level(k - 1)
  <2>1. k \in Nat \ {0} /\ m \in Nat /\ k <= m + 1 /\ m <= Len(source)
        /\ m \in 0 .. Len(source) /\ k - 1 \in 0 .. Len(source)
    OBVIOUS
  <2>2. CountIn("[", k, m) = O(m) - O(k - 1) /\ CountIn("]", k, m) = C(m) - C(k - 1)
    BY <2>1, CountParts
  <2>3. Opens(Part(k, m)) = CountIn("[", k, m) /\ Closes(Part(k, m)) = CountIn("]", k, m)
    BY DEF Opens, Closes, CountIn
  <2>4. Level(m) = O(m) - C(m) /\ Level(k - 1) = O(k - 1) - C(k - 1)
    BY <1>1
  <2>5. O(m) \in Nat /\ C(m) \in Nat /\ O(k - 1) \in Nat /\ C(k - 1) \in Nat
    BY <1>3, <2>1
  <2> HIDE DEF O, C
  <2> QED  BY <2>2, <2>3, <2>4, <2>5
<1> HIDE DEF O, C
<1>5. Level(0) = 0
  BY <1>1, <1>2
<1>6. \A k \in 0 .. Len(source) : Level(k) \in Int
  BY <1>1, <1>3
<1>7. ASSUME NEW k \in 0 .. Len(source) - 1
      PROVE  Level(k + 1) = Level(k) + Nesting(source[k + 1])
  <2>1. k \in 0 .. Len(source) /\ k < Len(source)
    OBVIOUS
  <2>2. "[" # "]"  OBVIOUS
  <2> QED  BY <1>1, <1>3, <2>1, <2>2 DEF Nesting
<1>8. \A k \in 1 .. Len(source) : Opens(Part(1, k)) \in Nat /\ Closes(Part(1, k)) \in Nat
  <2>1. \A k \in 1 .. Len(source) : k \in 0 .. Len(source)  OBVIOUS
  <2> QED  BY <1>1, <1>3, <2>1
<1> QED  BY <1>4, <1>5, <1>6, <1>7, <1>8

\* The brackets without a partner, by level.
LEMMA UnmatchedClosesAre ==
  ASSUME source \in Seq(STRING)
  PROVE  UnmatchedCloses = {k \in 1 .. Len(source) : Level(k) < 0}
<1>1. \A k \in 1 .. Len(source) :
        Closes(Part(1, k)) > Opens(Part(1, k)) <=> Level(k) < 0
  <2> TAKE k \in 1 .. Len(source)
  <2> DEFINE o == Opens(Part(1, k))
             c == Closes(Part(1, k))
  <2>1. o \in Nat /\ c \in Nat /\ Level(k) = o - c
    BY LevelSteps DEF Level
  <2> HIDE DEF o, c
  <2>2. c > o <=> Level(k) < 0
    BY <2>1
  <2> QED  BY <2>2 DEF o, c
<1> QED  BY <1>1 DEF UnmatchedCloses

LEMMA UnmatchedOpensAre ==
  ASSUME source \in Seq(STRING)
  PROVE  UnmatchedOpens = {k \in 1 .. Len(source) :
           source[k] = "[" /\ \A m \in k .. Len(source) : Level(m) > Level(k - 1)}
<1>1. \A k \in 1 .. Len(source) : \A m \in k .. Len(source) :
        Opens(Part(k, m)) > Closes(Part(k, m)) <=> Level(m) > Level(k - 1)
  BY LevelSteps
<1>2. \A k \in 1 .. Len(source) : k \in k .. Len(source)
  OBVIOUS
<1> QED  BY <1>1, <1>2 DEF UnmatchedOpens
-----------------------------------------------------------------------------
(* The invariant: what has been read, what has been built of it, and which *)
(* error it deserves.                                                      *)

Read   == current.loc.offset
Blocks == [i \in 1 .. Depth |-> frames[i].nodes]

\* The token is the first instruction not consumed yet, or the end.
Reads ==
  /\ source \in Seq(STRING)
  /\ Read \in 0 .. Len(source)
  /\ TokenAt([token |-> current, after |-> after], Read)

\* A loop open at depth i began at the bracket its frame names, and has been
\* open since.
OpenSince(i, begin, read) ==
  \E p \in 1 .. read :
    /\ source[p] = "[" /\ begin = LocationOf(p) /\ Level(p - 1) = i - 2
    /\ \A m \in p .. read : Level(m) >= i - 1

Nested ==
  /\ Depth = Level(Read) + 1
  /\ \A k \in 0 .. Read : Level(k) >= 0
  /\ \A i \in 2 .. Depth : OpenSince(i, frames[i].begin, Read)

\* The error is one AnswersRightly allows.
Deserved ==
  \/ err.msg = "out of memory" /\ AllocMayFail
  \/ /\ err.msg = "unexpected closing bracket"
     /\ UnmatchedCloses # {}
     /\ err.loc = LocationOf(Least(UnmatchedCloses))
  \/ /\ err.msg = "unterminated loop"
     /\ UnmatchedCloses = {} /\ UnmatchedOpens # {}
     /\ err.loc = LocationOf(Greatest(UnmatchedOpens))

Faithful ==
  /\ Reads
  /\ status \in {"parsing", "failing", "accepted", "rejected"}
  /\ status \in {"parsing", "accepted"} =>
       Nested /\ ~err.set /\ Blocks = BlocksAfter(source, Read)
  /\ status = "accepted" => Read = Len(source) /\ Depth = 1
  /\ status \in {"failing", "rejected"} => err.set /\ Deserved
-----------------------------------------------------------------------------
\* What is said of the text stays true of it.
LEMMA TextStays ==
  ASSUME source' = source
  PROVE  /\ \A k : LocBehind(k)' = LocBehind(k) /\ LocationOf(k)' = LocationOf(k)
                   /\ Level(k)' = Level(k)
         /\ UnmatchedCloses' = UnmatchedCloses
         /\ UnmatchedOpens' = UnmatchedOpens
<1>1. ASSUME NEW k PROVE LocationOf(k)' = LocationOf(k)
  BY DEF LocationOf
<1>2. ASSUME NEW k PROVE LocBehind(k)' = LocBehind(k)
  BY DEF LocBehind, LocationOf
<1>3. ASSUME NEW k PROVE Level(k)' = Level(k)
  BY DEF Level, Part
<1>4. UnmatchedCloses' = UnmatchedCloses
  BY DEF UnmatchedCloses, Part
<1>5. UnmatchedOpens' = UnmatchedOpens
  BY DEF UnmatchedOpens, Part
<1> QED  BY <1>1, <1>2, <1>3, <1>4, <1>5


\* The next token is the first instruction behind the one consumed.
LEMMA ReadsOn ==
  ASSUME Reads, Read < Len(source), ToNextToken, source' = source
  PROVE  /\ Reads' /\ Read' \in Read + 1 .. Len(source)
         /\ Comments(Read + 2, Read')
<1> DEFINE o == Read + 1
           lexed == Lex(source, after)
<1>1. o \in 0 .. Len(source) /\ o + 1 = Read + 2 /\ source \in Seq(STRING) /\ Len(source) \in Nat
  BY DEF Reads
<1>2. after = LocBehind(o)
  BY DEF Reads, TokenAt
<1> HIDE DEF o
<1>3. PICK p \in o .. Len(source) : Comments(o + 1, p) /\ TokenAt(Lex(source, LocBehind(o)), p)
  BY <1>1, LexFinds
<1>4. current' = lexed.token /\ after' = lexed.after /\ TokenAt(lexed, p)
  BY <1>2, <1>3 DEF ToNextToken
<1> HIDE DEF lexed
<1>5. p \in Nat /\ p \in 0 .. Len(source)
  BY <1>1, <1>3
<1>6. current'.loc = LocBehind(p) /\ LocBehind(p).offset = p
  BY <1>4, <1>5, LocationsStep DEF TokenAt
<1>7. Read' = p
  BY <1>6 DEF Read
<1>8. \A k : LocBehind(k)' = LocBehind(k)
  BY TextStays
<1>9. TokenAt([token |-> current, after |-> after], Read)'
  BY <1>4, <1>7, <1>8 DEF TokenAt
<1>10. Reads'
  BY <1>1, <1>5, <1>7, <1>9 DEF Reads
<1>11. p \in Read + 1 .. Len(source) /\ Comments(Read + 2, p)
  BY <1>1, <1>3 DEF o
<1> QED  BY <1>7, <1>10, <1>11

\* Comments change neither the blocks nor the levels.
LEMMA CommentsChangeNothing ==
  ASSUME source \in Seq(STRING), NEW r \in 0 .. Len(source),
         NEW q \in r .. Len(source), Comments(r + 1, q)
  PROVE  /\ BlocksAfter(source, q) = BlocksAfter(source, r)
         /\ \A m \in r .. q : Level(m) = Level(r)
<1> DEFINE N == Len(source)
           b == BlocksAfter(source, r)
           v == Level(r)
           G == {j \in 0 .. N : r + j <= q => BlocksAfter(source, r + j) = b /\ Level(r + j) = v}
<1>0. N \in Nat /\ r \in Nat /\ r <= N
  OBVIOUS
<1>1. 0 \in G
  <2>1. r + 0 = r  BY <1>0
  <2> QED  BY <1>0, <2>1
<1>2. ASSUME NEW j \in 0 .. N - 1, j \in G PROVE j + 1 \in G
  <2> SUFFICES ASSUME r + (j + 1) <= q
               PROVE  BlocksAfter(source, r + (j + 1)) = b /\ Level(r + (j + 1)) = v
    BY <1>0
  <2> DEFINE k == r + j
  <2>1. /\ k \in 0 .. N - 1 /\ k + 1 \in 1 .. N /\ (k + 1) - 1 = k
        /\ k <= q /\ k + 1 \in r + 1 .. q /\ r + (j + 1) = k + 1
    BY <1>0
  <2>2. BlocksAfter(source, k) = b /\ Level(k) = v
    BY <1>2, <2>1
  <2> HIDE DEF k, b, v
  <2>3. source[k + 1] \notin Instructions
    BY <2>1 DEF Comments
  <2>4. BlocksAfter(source, k + 1) = Consume(BlocksAfter(source, k), source[k + 1])
    BY <2>1, BlocksAfterSteps
  <2>5. \A blocks : Consume(blocks, source[k + 1]) = blocks
    BY <2>3 DEF Consume, Instructions, DeltaTokens, IoTokens
  <2>6. Level(k + 1) = Level(k) + Nesting(source[k + 1]) /\ Level(k) \in Int
    BY <1>0, <2>1, LevelSteps
  <2>7. Nesting(source[k + 1]) = 0
    BY <2>3 DEF Nesting, Instructions
  <2> QED  BY <2>1, <2>2, <2>4, <2>5, <2>6, <2>7
<1>3. ASSUME NEW m \in r .. q PROVE BlocksAfter(source, m) = b /\ Level(m) = v
  <2> DEFINE j == m - r
  <2>1. j \in Nat /\ j <= N /\ r + j = m /\ m <= q
    BY <1>0
  <2>2. \A i \in 0 .. j - 1 : i \in 0 .. N - 1
    BY <1>0, <2>1
  <2> HIDE DEF j
  <2>3. j \in G
    <3> HIDE DEF G, N
    <3> QED  BY <1>1, <1>2, <2>1, <2>2, InductionTo
  <2> HIDE DEF b, v
  <2> QED  BY <2>1, <2>3
<1>4. q \in r .. q
  BY <1>0
<1> HIDE DEF b, v
<1> QED  BY <1>3, <1>4 DEF b, v

LEMMA InstructionAndComments ==
  ASSUME source \in Seq(STRING), NEW r \in 0 .. Len(source) - 1,
         NEW q \in r + 1 .. Len(source), Comments(r + 2, q)
  PROVE  /\ BlocksAfter(source, q) = Consume(BlocksAfter(source, r), source[r + 1])
         /\ \A m \in r + 1 .. q : Level(m) = Level(r) + Nesting(source[r + 1])
<1> DEFINE s == r + 1
<1>1. /\ s \in 0 .. Len(source) /\ s \in 1 .. Len(source) /\ s - 1 = r /\ s + 1 = r + 2
      /\ r \in 0 .. Len(source) - 1
  OBVIOUS
<1>2. BlocksAfter(source, s) = Consume(BlocksAfter(source, r), source[s])
  <2> HIDE DEF s
  <2> QED  BY <1>1, BlocksAfterSteps
<1>3. Level(s) = Level(r) + Nesting(source[s])
  BY <1>1, LevelSteps
<1>4. BlocksAfter(source, q) = BlocksAfter(source, s) /\ \A m \in s .. q : Level(m) = Level(s)
  <2>1. q \in s .. Len(source) /\ Comments(s + 1, q)
    BY <1>1
  <2> HIDE DEF s
  <2> QED  BY <1>1, <2>1, CommentsChangeNothing
<1> QED  BY <1>2, <1>3, <1>4

\* The cases of Consume.
LEMMA ConsumeCases ==
  ASSUME NEW blocks, NEW token
  PROVE  LET d == Len(blocks)
         IN  /\ token \in DeltaTokens =>
                  Consume(blocks, token) = [blocks EXCEPT ![d] =
                    AppendDelta(blocks[d], DeltaKind(token), Delta(token))]
             /\ token \in IoTokens =>
                  Consume(blocks, token) = [blocks EXCEPT ![d] = Append(blocks[d], IoNode(token))]
             /\ token = "[" => Consume(blocks, token) = Append(blocks, <<>>)
             /\ token = "]" =>
                  Consume(blocks, token) = [SubSeq(blocks, 1, d - 1) EXCEPT ![d - 1] =
                    Append(SubSeq(blocks, 1, d - 1)[d - 1], Loop(blocks[d]))]
<1> DEFINE d == Len(blocks)
           A == [blocks EXCEPT ![d] = AppendDelta(blocks[d], DeltaKind(token), Delta(token))]
           I == [blocks EXCEPT ![d] = Append(blocks[d], IoNode(token))]
           O == Append(blocks, <<>>)
           C == [SubSeq(blocks, 1, d - 1) EXCEPT ![d - 1] =
                    Append(SubSeq(blocks, 1, d - 1)[d - 1], Loop(blocks[d]))]
<1>1. Consume(blocks, token) = CASE token \in DeltaTokens -> A
                                 [] token \in IoTokens -> I
                                 [] token = "[" -> O
                                 [] token = "]" -> C
                                 [] OTHER -> blocks
  BY Zenon DEF Consume
<1> HIDE DEF A, I, O, C
<1>2. /\ token \in DeltaTokens => Consume(blocks, token) = A
      /\ token \in IoTokens => Consume(blocks, token) = I
      /\ token = "[" => Consume(blocks, token) = O
      /\ token = "]" => Consume(blocks, token) = C
  BY <1>1 DEF DeltaTokens, IoTokens
<1> QED  BY <1>2 DEF A, I, O, C
-----------------------------------------------------------------------------
(* The blocks on the stack, by the change to it.                           *)

\* The frames below the top begin where they did.
BeginsKept == \A i \in 2 .. Depth' : i <= Depth => frames'[i].begin = frames[i].begin

LEMMA BlockOnTopChanges ==
  ASSUME NEW S, frames \in Seq(S), Depth \in Nat \ {0}, NEW g,
         frames' = [frames EXCEPT ![Depth] = g], g.begin = Top.begin
  PROVE  /\ Depth' = Depth /\ BeginsKept
         /\ Len(Blocks) = Depth /\ Blocks[Depth] = Top.nodes
         /\ Blocks' = [Blocks EXCEPT ![Depth] = g.nodes]
<1> DEFINE T == S \union {g}
<1>1. frames \in Seq(T) /\ g \in T
  BY SeqMonotonic
<1> HIDE DEF T
<1>2. Depth = Len(frames) /\ Depth \in 1 .. Len(frames)
  BY DEF Depth
<1>3. /\ frames' \in Seq(T) /\ Len(frames') = Len(frames)
      /\ \A i \in 1 .. Len(frames) : frames'[i] = IF i = Depth THEN g ELSE frames[i]
  BY <1>1, <1>2, ExceptSeq
<1>4. Depth' = Depth
  BY <1>2, <1>3 DEF Depth
<1>5. BeginsKept
  BY <1>2, <1>3, <1>4 DEF BeginsKept, Top
<1>6. Len(Blocks) = Depth /\ Blocks[Depth] = Top.nodes
  <2>1. Blocks \in [1 .. Depth -> {frames[i].nodes : i \in 1 .. Depth}]
    BY DEF Blocks
  <2> QED  BY <1>2, <2>1 DEF Blocks, Top
<1>7. Blocks' = [i \in 1 .. Depth |-> frames'[i].nodes]
  BY <1>4 DEF Blocks
<1>8. \A i \in 1 .. Depth : frames'[i].nodes = IF i = Depth THEN g.nodes ELSE frames[i].nodes
  BY <1>2, <1>3
<1>9. [Blocks EXCEPT ![Depth] = g.nodes]
        = [i \in 1 .. Depth |-> IF i = Depth THEN g.nodes ELSE frames[i].nodes]
  BY DEF Blocks
<1> QED  BY <1>4, <1>5, <1>6, <1>7, <1>8, <1>9

LEMMA BlockComes ==
  ASSUME NEW S, frames \in Seq(S), Depth \in Nat \ {0}, NEW g,
         frames' = Append(frames, g)
  PROVE  /\ Depth' = Depth + 1 /\ BeginsKept /\ frames'[Depth + 1] = g
         /\ Blocks' = Append(Blocks, g.nodes)
<1> DEFINE T == S \union {g}
<1>1. frames \in Seq(T) /\ g \in T
  BY SeqMonotonic
<1> HIDE DEF T
<1>2. Depth = Len(frames)
  BY DEF Depth
<1>3. /\ Len(frames') = Depth + 1 /\ frames'[Depth + 1] = g
      /\ \A i \in 1 .. Depth : frames'[i] = frames[i]
  BY <1>1, <1>2, AppendProperties
<1>4. Depth' = Depth + 1
  BY <1>3 DEF Depth
<1>5. BeginsKept
  BY <1>3 DEF BeginsKept
<1> DEFINE U == {frames[i].nodes : i \in 1 .. Depth} \union {g.nodes}
<1>6. Blocks \in Seq(U) /\ Len(Blocks) = Depth /\ g.nodes \in U
      /\ \A i \in 1 .. Depth : Blocks[i] = frames[i].nodes
  BY DEF Blocks
<1>7. Blocks' \in Seq(U) /\ Len(Blocks') = Depth + 1
      /\ \A i \in 1 .. Depth + 1 :
           Blocks'[i] = IF i = Depth + 1 THEN g.nodes ELSE frames[i].nodes
  <2>1. Blocks' = [i \in 1 .. Depth + 1 |-> frames'[i].nodes]
    BY <1>4 DEF Blocks
  <2>2. \A i \in 1 .. Depth + 1 :
          frames'[i].nodes = IF i = Depth + 1 THEN g.nodes ELSE frames[i].nodes
    BY <1>3
  <2>3. \A i \in 1 .. Depth + 1 : i = Depth + 1 \/ i \in 1 .. Depth
    OBVIOUS
  <2>4. Blocks' \in [1 .. Depth + 1 -> U]
    BY <2>1, <2>2, <2>3
  <2> DEFINE b == Blocks'
             n == Depth + 1
  <2> HIDE DEF U
  <2>5. n \in Nat /\ b \in [1 .. n -> U] /\ \A i \in 1 .. n : b[i] = frames'[i].nodes
    <3>1. b = [i \in 1 .. n |-> frames'[i].nodes]
      BY <2>1
    <3>2. n \in Nat /\ b \in [1 .. n -> U]
      BY <2>4
    <3> HIDE DEF b, n
    <3>3. \A i \in 1 .. n : b[i] = frames'[i].nodes
      BY <3>1
    <3> QED  BY <3>2, <3>3
  <2> HIDE DEF b
  <2>6. b \in Seq(U) /\ Len(b) = n
    <3> HIDE DEF n
    <3> QED  BY <2>5
  <2> QED  BY <2>2, <2>5, <2>6 DEF b
<1> HIDE DEF U
<1>8. Blocks' = Append(Blocks, g.nodes)
  <2> DEFINE a == Append(Blocks, g.nodes)
             b == Blocks'
  <2>1. /\ a \in Seq(U) /\ Len(a) = Depth + 1 /\ a[Depth + 1] = g.nodes
        /\ \A i \in 1 .. Depth : a[i] = frames[i].nodes
    BY <1>6, AppendProperties
  <2>2. /\ b \in Seq(U) /\ Len(b) = Depth + 1
        /\ \A i \in 1 .. Depth + 1 :
             b[i] = IF i = Depth + 1 THEN g.nodes ELSE frames[i].nodes
    BY <1>7
  <2> HIDE DEF a, b
  <2>3. \A i \in 1 .. Depth + 1 : i = Depth + 1 \/ i \in 1 .. Depth
    OBVIOUS
  <2>4. \A i \in 1 .. Len(b) : b[i] = a[i]
    BY <2>1, <2>2, <2>3
  <2>5. b = a
    BY <2>1, <2>2, <2>4, SameSequence
  <2> QED  BY <2>5 DEF a, b
<1> QED  BY <1>3, <1>4, <1>5, <1>8

LEMMA BlockGoes ==
  ASSUME NEW S, frames \in Seq(S), Depth \in Nat, Depth > 1, NEW g,
         frames' = Popped(g), g.begin = Caller.begin
  PROVE  /\ Depth' = Depth - 1 /\ BeginsKept
         /\ Len(Blocks) = Depth /\ Blocks[Depth] = Top.nodes
         /\ SubSeq(Blocks, 1, Depth - 1)[Depth - 1] = Caller.nodes
         /\ Blocks' = [SubSeq(Blocks, 1, Depth - 1) EXCEPT ![Depth - 1] = g.nodes]
<1> DEFINE T == S \union {g}
           n == Depth - 1
           front == SubSeq(frames, 1, n)
<1>1. frames \in Seq(T) /\ g \in T
  BY SeqMonotonic
<1> HIDE DEF T
<1>2. n \in Nat /\ n \in 1 .. n /\ Len(frames) = n + 1 /\ Depth = n + 1
  BY DEF Depth
<1>3. /\ front \in Seq(T) /\ Len(front) = n
      /\ \A i \in 1 .. n : front[i] = frames[i]
  <2> HIDE DEF n
  <2> QED  BY <1>1, <1>2, FrontOf
<1>4. frames' = [front EXCEPT ![n] = g] /\ Caller = frames[n]
  BY DEF Popped, Caller
<1> HIDE DEF n, front
<1>5. /\ Len(frames') = n
      /\ \A i \in 1 .. n : frames'[i] = IF i = n THEN g ELSE frames[i]
  <2>1. /\ frames' \in Seq(T) /\ Len(frames') = Len(front)
        /\ \A i \in 1 .. Len(front) : frames'[i] = IF i = n THEN g ELSE front[i]
    BY <1>1, <1>2, <1>3, <1>4, ExceptSeq
  <2> QED  BY <1>3, <2>1
<1>6. Depth' = n
  BY <1>5 DEF Depth
<1>7. BeginsKept
  BY <1>2, <1>4, <1>5, <1>6 DEF BeginsKept
<1> DEFINE U == {frames[i].nodes : i \in 1 .. Depth}
           low == SubSeq(Blocks, 1, n)
<1>8. Blocks \in Seq(U) /\ Len(Blocks) = n + 1 /\ Blocks[Depth] = Top.nodes
      /\ \A i \in 1 .. n : Blocks[i] = frames[i].nodes
  BY <1>2 DEF Blocks, Top
<1>9. /\ low \in Seq(U) /\ Len(low) = n
      /\ \A i \in 1 .. n : low[i] = frames[i].nodes
  <2> HIDE DEF U
  <2>1. /\ low \in Seq(U) /\ Len(low) = n
        /\ \A i \in 1 .. n : low[i] = Blocks[i]
    BY <1>2, <1>8, FrontOf
  <2> QED  BY <1>8, <2>1
<1> HIDE DEF U, low
<1>10. low[n] = Caller.nodes
  BY <1>2, <1>4, <1>9
<1>11. Blocks' = [low EXCEPT ![n] = g.nodes]
  <2>1. Blocks' = [i \in 1 .. n |-> frames'[i].nodes]
    BY <1>6 DEF Blocks
  <2>2. \A i \in 1 .. n : frames'[i].nodes = IF i = n THEN g.nodes ELSE frames[i].nodes
    BY <1>5
  <2>3. low = [i \in 1 .. n |-> frames[i].nodes]
    BY <1>2, <1>9
  <2> QED  BY <2>1, <2>2, <2>3
<1>12. Depth - 1 = n
  BY DEF n
<1> QED  BY <1>2, <1>6, <1>7, <1>8, <1>10, <1>11, <1>12 DEF low
-----------------------------------------------------------------------------
(* What a step makes of the invariant.                                     *)

\* The parser goes on behind a token.
LEMMA GoesOn ==
  ASSUME Faithful, Parsing, Depth \in Nat \ {0}, current.kind \in Instructions,
         ToNextToken, Going, Blocks' = Consume(Blocks, current.kind),
         Depth' = Depth + Nesting(current.kind), Depth' > 0, BeginsKept,
         Depth' > Depth => frames'[Depth'].begin = current.loc
  PROVE  Faithful'
<1>1. source' = source /\ status' = "parsing" /\ err' = err /\ status = "parsing"
  BY DEF Going, Parsing
<1>2. Reads /\ Nested /\ ~err.set /\ Blocks = BlocksAfter(source, Read)
      /\ source \in Seq(STRING) /\ Len(source) \in Nat /\ Read \in 0 .. Len(source)
  BY <1>1 DEF Faithful, Reads
<1>3. Read < Len(source) /\ current.kind = source[Read + 1] /\ current.loc = LocBehind(Read)
  BY <1>2 DEF Reads, TokenAt, Instructions
<1>4. Reads' /\ Read' \in Read + 1 .. Len(source) /\ Comments(Read + 2, Read')
  BY <1>1, <1>2, <1>3, ReadsOn
<1> DEFINE r == Read
           q == Read'
           d == Depth
           e == Depth'
           c == Nesting(source[Read + 1])
<1>5. r \in 0 .. Len(source) - 1 /\ q \in r + 1 .. Len(source) /\ Comments(r + 2, q)
  BY <1>2, <1>3, <1>4
<1> HIDE DEF r, q
<1>6. /\ BlocksAfter(source, q) = Consume(BlocksAfter(source, r), source[r + 1])
      /\ \A m \in r + 1 .. q : Level(m) = Level(r) + Nesting(source[r + 1])
  BY <1>2, <1>5, InstructionAndComments
<1>7. (Blocks = BlocksAfter(source, Read))'
  BY <1>1, <1>2, <1>3, <1>6 DEF r, q
<1>8. \A k : LocationOf(k)' = LocationOf(k) /\ Level(k)' = Level(k)
  BY <1>1, TextStays
<1>9. /\ d \in Nat \ {0} /\ e = d + c /\ c \in {-1, 0, 1} /\ e > 0 /\ e \in Nat
      /\ d = Level(r) + 1 /\ \A k \in 0 .. r : Level(k) >= 0 /\ Level(k) \in Int
      /\ \A m \in r + 1 .. q : Level(m) = Level(r) + c
  <2>1. c \in {-1, 0, 1}
    BY DEF Nesting
  <2>2. \A k \in 0 .. Read : Level(k) >= 0 /\ Level(k) \in Int
    BY <1>2, LevelSteps DEF Nested
  <2>3. Depth' = Depth + c
    BY <1>3
  <2>4. Depth = Level(Read) + 1
    BY <1>2 DEF Nested
  <2>5. \A m \in r + 1 .. q : Level(m) = Level(r) + c
    BY <1>6 DEF r
  <2> HIDE DEF c
  <2> QED  BY <2>1, <2>2, <2>3, <2>4, <2>5 DEF r
<1> HIDE DEF d, e
<1>10. e = Level(q) + 1
  BY <1>5, <1>9
<1>11. \A k \in 0 .. q : Level(k) >= 0
  <2> TAKE k \in 0 .. q
  <2>1. CASE k <= r
    BY <1>5, <1>9, <2>1
  <2>2. CASE k > r
    <3>1. k \in r + 1 .. q /\ r \in 0 .. r
      BY <1>5, <2>2
    <3>2. Level(k) = Level(r) + c /\ Level(r) \in Int
      BY <1>9, <3>1
    <3> HIDE DEF c
    <3> QED  BY <1>9, <3>2
  <2> QED  BY <1>5, <2>1, <2>2
<1>12. ASSUME NEW i \in 2 .. e PROVE OpenSince(i, frames'[i].begin, q)
  <2>1. CASE i <= d
    <3>1. frames'[i].begin = frames[i].begin
      BY <2>1 DEF BeginsKept, d, e
    <3>2. PICK p \in 1 .. r :
            /\ source[p] = "[" /\ frames[i].begin = LocationOf(p) /\ Level(p - 1) = i - 2
            /\ \A m \in p .. r : Level(m) >= i - 1
      <4>1. i \in 2 .. Depth
        BY <1>9, <2>1 DEF d
      <4> QED  BY <1>2, <4>1 DEF Nested, OpenSince, r
    <3>3. \A m \in p .. q : Level(m) >= i - 1
      <4> TAKE m \in p .. q
      <4>1. CASE m <= r
        BY <1>5, <3>2, <4>1
      <4>2. CASE m > r
        <5>1. m \in r + 1 .. q /\ r \in p .. r /\ r \in 0 .. r
          BY <1>5, <4>2
        <5>2. Level(m) = Level(r) + c /\ Level(r) \in Int
          BY <1>9, <5>1
        <5> HIDE DEF c
        <5>3. Level(m) = e - 1 /\ e \in Nat /\ i <= e
          BY <1>9, <5>2
        <5> QED  BY <5>3
      <4> QED  BY <1>5, <4>1, <4>2
    <3>4. p \in 1 .. q
      BY <1>5
    <3> QED  BY <3>1, <3>2, <3>3, <3>4 DEF OpenSince
  <2>2. CASE i > d
    <3> DEFINE p == r + 1
    <3>1. i = e /\ i = d + 1 /\ c = 1 /\ e > d
      <4> HIDE DEF c
      <4> QED  BY <1>9, <2>2
    <3>2. source[p] = "["
      BY <3>1 DEF Nesting, r
    <3>3. frames'[i].begin = LocBehind(Read)
      BY <1>3, <3>1 DEF d, e
    <3>4. frames'[i].begin = LocationOf(p)
      BY <3>3 DEF LocBehind, r
    <3>5. p - 1 = r /\ p \in 1 .. q /\ r \in 0 .. r
      BY <1>5
    <3>6. Level(p - 1) = i - 2
      BY <1>9, <3>1, <3>5
    <3>7. \A m \in p .. q : Level(m) >= i - 1
      BY <1>9, <3>1, <3>5
    <3> HIDE DEF p
    <3> QED  BY <3>2, <3>4, <3>5, <3>6, <3>7 DEF OpenSince
  <2> QED  BY <1>9, <2>1, <2>2
<1>13. Nested'
  <2>1. ASSUME NEW i \in 2 .. Depth' PROVE OpenSince(i, frames[i].begin, Read)'
    <3>1. OpenSince(i, frames'[i].begin, Read')
      BY <1>12 DEF e, q
    <3> QED  BY <1>1, <1>8, <3>1 DEF OpenSince
  <2>2. (Depth = Level(Read) + 1)'
    BY <1>8, <1>10 DEF e, q
  <2>3. (\A k \in 0 .. Read : Level(k) >= 0)'
    BY <1>8, <1>11 DEF q
  <2> QED  BY <2>1, <2>2, <2>3 DEF Nested
<1>14. ~err'.set
  BY <1>1, <1>2
<1> QED  BY <1>1, <1>4, <1>7, <1>13, <1>14 DEF Faithful

\* What a change of the stack alone, or of nothing, leaves true.
LEMMA ReadsStay ==
  ASSUME Reads, UNCHANGED <<source, current, after>>
  PROVE  Reads'
<1>1. \A k : LocBehind(k)' = LocBehind(k)
  BY TextStays
<1> QED  BY <1>1 DEF Reads, Read, TokenAt

LEMMA NestedStays ==
  ASSUME Nested, UNCHANGED <<source, current, frames>>
  PROVE  /\ Nested' /\ Blocks' = Blocks /\ Depth' = Depth /\ Read' = Read
         /\ BlocksAfter(source, Read)' = BlocksAfter(source, Read)
<1>1. \A k : LocationOf(k)' = LocationOf(k) /\ Level(k)' = Level(k)
  BY TextStays
<1>2. Blocks' = Blocks /\ Depth' = Depth /\ Read' = Read
  BY DEF Blocks, Depth, Read
<1>3. ASSUME NEW i \in 2 .. Depth PROVE OpenSince(i, frames[i].begin, Read)'
  <2>1. OpenSince(i, frames[i].begin, Read)
    BY DEF Nested
  <2> QED  BY <1>1, <1>2, <2>1 DEF OpenSince
<1>4. Nested'
  <2>1. (Depth = Level(Read) + 1)' /\ (\A k \in 0 .. Read : Level(k) >= 0)'
    BY <1>1, <1>2 DEF Nested
  <2> QED  BY <1>2, <1>3, <2>1 DEF Nested
<1>5. BlocksAfter(source, Read)' = BlocksAfter(source, Read)
  BY <1>2
<1> QED  BY <1>2, <1>4, <1>5

LEMMA DeservedStays ==
  ASSUME Deserved, UNCHANGED <<source, err>>
  PROVE  Deserved'
<1>1. /\ \A k : LocationOf(k)' = LocationOf(k)
      /\ UnmatchedCloses' = UnmatchedCloses /\ UnmatchedOpens' = UnmatchedOpens
  BY TextStays
<1> QED  BY <1>1 DEF Deserved

\* Memory ran out behind a token.
LEMMA RunsOut ==
  ASSUME Faithful, current.kind \in Instructions, ToNextToken, source' = source,
         NEW loc, FailWith(loc, "out of memory"), AllocMayFail
  PROVE  Faithful'
<1>1. Reads /\ Read < Len(source)
  BY DEF Faithful, Reads, TokenAt, Instructions
<1>2. Reads'
  BY <1>1, ReadsOn
<1>3. status' = "failing" /\ err'.set /\ err'.msg = "out of memory"
  BY DEF FailWith
<1>4. Deserved'
  BY <1>3 DEF Deserved
<1> QED  BY <1>2, <1>3, <1>4 DEF Faithful

LEMMA InitFaithful == Init => Faithful
<1> SUFFICES ASSUME Init PROVE Faithful
  OBVIOUS
<1>1. source \in Seq(STRING) /\ Len(source) \in Nat /\ 0 \in 0 .. Len(source)
  BY SourcesAssumption DEF Init
<1> DEFINE lexed == Lex(source, LocBehind(0))
<1>2. current = lexed.token /\ after = lexed.after
  BY LocationsStart DEF Init
<1>3. PICK p \in 0 .. Len(source) : Comments(0 + 1, p) /\ TokenAt(lexed, p)
  BY <1>1, LexFinds
<1> HIDE DEF lexed
<1>4. Read = p
  <2>1. current.loc = LocBehind(p) /\ p \in Nat
    BY <1>1, <1>2, <1>3 DEF TokenAt
  <2> QED  BY <2>1, LocationsStep DEF Read
<1>5. Reads
  BY <1>1, <1>2, <1>3, <1>4 DEF Reads, TokenAt
<1>6. BlocksAfter(source, p) = BlocksAfter(source, 0) /\ \A m \in 0 .. p : Level(m) = 0
  BY <1>1, <1>3, CommentsChangeNothing, LevelSteps
<1>7. frames = <<EmptyBlock(LexerStart)>> /\ status = "parsing" /\ ~err.set
  BY DEF Init, NoError
<1>8. Depth = 1
  BY <1>7 DEF Depth
<1>9. Blocks = BlocksAfter(source, p)
  <2>1. frames[1].nodes = <<>>
    BY <1>7 DEF EmptyBlock
  <2>2. Blocks = [i \in 1 .. 1 |-> <<>>]
    BY <1>8, <2>1 DEF Blocks
  <2>3. [i \in 1 .. 1 |-> <<>>] = <<<<>>>>
    OBVIOUS
  <2> QED  BY <1>1, <1>6, <2>2, <2>3, BlocksAfterSteps
<1>10. Nested
  BY <1>1, <1>4, <1>6, <1>8 DEF Nested
<1> QED  BY <1>4, <1>5, <1>7, <1>9, <1>10 DEF Faithful

\* A token that changes the block on top.
LEMMA TopConsumes ==
  ASSUME Faithful, Parsing, NEW S, frames \in Seq(S), Depth \in Nat \ {0}, NEW g,
         frames' = [frames EXCEPT ![Depth] = g], g.begin = Top.begin, ToNextToken, Going,
         \/ /\ current.kind \in DeltaTokens
            /\ g.nodes = AppendDelta(Top.nodes, DeltaKind(current.kind), Delta(current.kind))
         \/ /\ current.kind \in IoTokens
            /\ g.nodes = Append(Top.nodes, IoNode(current.kind))
  PROVE  Faithful'
<1>1. /\ Depth' = Depth /\ BeginsKept
      /\ Len(Blocks) = Depth /\ Blocks[Depth] = Top.nodes
      /\ Blocks' = [Blocks EXCEPT ![Depth] = g.nodes]
  BY BlockOnTopChanges
<1> DEFINE d == Len(Blocks)
           k == current.kind
<1>2. /\ k \in DeltaTokens => Consume(Blocks, k) =
           [Blocks EXCEPT ![d] = AppendDelta(Blocks[d], DeltaKind(k), Delta(k))]
      /\ k \in IoTokens => Consume(Blocks, k) = [Blocks EXCEPT ![d] = Append(Blocks[d], IoNode(k))]
  <2> HIDE DEF k
  <2> QED  BY ConsumeCases, Zenon
<1>3. d = Depth /\ Blocks[d] = Top.nodes
  BY <1>1
<1>4. \/ k \in DeltaTokens /\ g.nodes = AppendDelta(Top.nodes, DeltaKind(k), Delta(k))
      \/ k \in IoTokens /\ g.nodes = Append(Top.nodes, IoNode(k))
  OBVIOUS
<1> HIDE DEF d, k
<1>5. Blocks' = Consume(Blocks, k)
  BY <1>1, <1>2, <1>3, <1>4, Zenon
<1>6. k \in Instructions /\ Nesting(k) = 0
  BY <1>4 DEF DeltaTokens, IoTokens, Instructions, Nesting
<1>7. Depth' = Depth + Nesting(current.kind) /\ Depth' > 0 /\ ~(Depth' > Depth)
  BY <1>1, <1>6 DEF k
<1> QED  BY <1>1, <1>5, <1>6, <1>7, GoesOn DEF k

LEMMA MergeDeltaFaithful == Sound /\ Faithful /\ MergeDelta => Faithful'
<1> SUFFICES ASSUME Sound, Faithful, MergeDelta PROVE Faithful'
  OBVIOUS
<1>1. PICK B, L : /\ frames \in Seq(GoodFrame(B, L))
                  /\ Depth \in Nat \ {0} /\ Top \in GoodFrame(B, L)
  BY SoundFrames
<1> DEFINE nodes == AppendDelta(Top.nodes, DeltaKind(current.kind), Delta(current.kind))
           g     == [Top EXCEPT !.nodes = nodes]
<1>2. frames' = [frames EXCEPT ![Depth] = g] /\ Parsing /\ current.kind \in DeltaTokens
      /\ ToNextToken /\ Going
  BY DEF MergeDelta, At, SetTop
<1> HIDE DEF nodes
<1>3. g.nodes = nodes /\ g.begin = Top.begin
  BY <1>1 DEF GoodFrame
<1> HIDE DEF g
<1> QED  BY <1>1, <1>2, <1>3, TopConsumes DEF nodes

\* bf_ir_block_push appends the node and leaves the rest of the block in place.
LEMMA PushedNodes ==
  ASSUME NEW B, NEW L, NEW f \in GoodFrame(B, L), NEW n
  PROVE  /\ Pushed(f, n).nodes = Append(f.nodes, n)
         /\ Pushed(f, n).begin = f.begin
<1> DEFINE s  == Append(f.nodes, n)
           c  == Reserved(f)
           rm == IF MustGrow(f) THEN Reserved(f) ELSE f.room
           a  == IF MustGrow(f) /\ f.array = {} THEN {FreshArray} ELSE f.array
           g  == [f EXCEPT !.nodes = s, !.capacity = c, !.room = rm, !.array = a]
<1>1. Pushed(f, n) = g
  BY Zenon DEF Pushed
<1> HIDE DEF s, c, rm, a
<1>2. g.nodes = s /\ g.begin = f.begin
  BY DEF GoodFrame
<1> QED  BY <1>1, <1>2 DEF s

\* A push for the token under the parser, made or failed.
LEMMA PushTokenFaithful ==
  ASSUME Sound, Faithful, Parsing, ToNextToken, NEW n, PushToken(n, "out of memory"),
         \/ /\ current.kind \in DeltaTokens
            /\ Append(Top.nodes, n)
                 = AppendDelta(Top.nodes, DeltaKind(current.kind), Delta(current.kind))
         \/ current.kind \in IoTokens /\ n = IoNode(current.kind)
  PROVE  Faithful'
<1>1. PICK B, L : /\ frames \in Seq(GoodFrame(B, L))
                  /\ Depth \in Nat \ {0} /\ Top \in GoodFrame(B, L)
  BY SoundFrames
<1>2. CASE SetTop(Pushed(Top, n)) /\ Going
  <2> DEFINE g == Pushed(Top, n)
  <2>1. g.nodes = Append(Top.nodes, n) /\ g.begin = Top.begin
    BY <1>1, PushedNodes
  <2>2. frames' = [frames EXCEPT ![Depth] = g]
    BY <1>2 DEF SetTop
  <2> HIDE DEF g
  <2>3. \/ /\ current.kind \in DeltaTokens
           /\ g.nodes = AppendDelta(Top.nodes, DeltaKind(current.kind), Delta(current.kind))
        \/ /\ current.kind \in IoTokens
           /\ g.nodes = Append(Top.nodes, IoNode(current.kind))
    BY <2>1
  <2> QED  BY <1>1, <1>2, <2>1, <2>2, <2>3, TopConsumes
<1>3. CASE PushMayFail(Top) /\ FailWith(current.loc, "out of memory") /\ source' = source
  <2>1. current.kind \in Instructions
    BY DEF DeltaTokens, IoTokens, Instructions
  <2>2. AllocMayFail
    BY <1>3 DEF PushMayFail
  <2> QED  BY <1>3, <2>1, <2>2, RunsOut
<1> QED  BY <1>2, <1>3 DEF PushToken

LEMMA PushDeltaFaithful == Sound /\ Faithful /\ PushDelta => Faithful'
<1> SUFFICES ASSUME Sound, Faithful, PushDelta PROVE Faithful'
  OBVIOUS
<1> DEFINE kind == DeltaKind(current.kind)
           d    == Delta(current.kind)
           n    == Plain(kind, d)
<1>1. /\ Parsing /\ current.kind \in DeltaTokens /\ ~Merges(Top.nodes, kind)
      /\ PushToken(n, "out of memory") /\ ToNextToken
  BY DEF PushDelta, At
<1> HIDE DEF kind, d
<1>2. Append(Top.nodes, n) = AppendDelta(Top.nodes, kind, d)
  BY <1>1 DEF AppendDelta
<1> HIDE DEF n
<1> QED  BY <1>1, <1>2, PushTokenFaithful DEF kind, d

LEMMA PushIoFaithful == Sound /\ Faithful /\ PushIo => Faithful'
  BY PushTokenFaithful DEF PushIo, At

LEMMA OpenLoopFaithful == Sound /\ Faithful /\ OpenLoop => Faithful'
<1> SUFFICES ASSUME Sound, Faithful, OpenLoop PROVE Faithful'
  OBVIOUS
<1>1. PICK B, L : frames \in Seq(GoodFrame(B, L)) /\ Depth \in Nat \ {0}
  BY SoundFrames
<1> DEFINE g == EmptyBlock(current.loc)
<1>2. frames' = Append(frames, g) /\ Parsing /\ current.kind = "[" /\ ToNextToken /\ Going
  BY DEF OpenLoop, At
<1>3. g.nodes = <<>> /\ g.begin = current.loc
  BY DEF EmptyBlock
<1> HIDE DEF g
<1>4. /\ Depth' = Depth + 1 /\ BeginsKept /\ frames'[Depth + 1] = g
      /\ Blocks' = Append(Blocks, g.nodes)
  BY <1>1, <1>2, BlockComes
<1>5. Blocks' = Consume(Blocks, current.kind)
  <2>1. Consume(Blocks, current.kind) = Append(Blocks, <<>>)
    BY <1>2, ConsumeCases, Zenon
  <2> QED  BY <1>3, <1>4, <2>1
<1>6. current.kind \in Instructions /\ Nesting(current.kind) = 1
  BY <1>2 DEF Instructions, Nesting
<1>7. frames'[Depth'].begin = current.loc /\ Depth' = Depth + Nesting(current.kind) /\ Depth' > 0
  BY <1>1, <1>3, <1>4, <1>6
<1> QED  BY <1>1, <1>2, <1>4, <1>5, <1>6, <1>7, GoesOn

LEMMA CloseLoopFaithful == Sound /\ Faithful /\ CloseLoop => Faithful'
<1> SUFFICES ASSUME Sound, Faithful, CloseLoop PROVE Faithful'
  OBVIOUS
<1>1. PICK B, L : /\ frames \in Seq(GoodFrame(B, L)) /\ Depth \in Nat \ {0}
                  /\ \A i \in 1 .. Depth : frames[i] \in GoodFrame(B, L)
  BY SoundFrames
<1> DEFINE n == Loop(Top.nodes)
           f == Pushed(Caller, n)
<1>2. Parsing /\ current.kind = "]" /\ Depth > 1 /\ ToNextToken
  BY DEF CloseLoop, At
<1>3. Caller \in GoodFrame(B, L) /\ Depth \in Nat
  BY <1>1, <1>2 DEF Caller
<1>4. current.kind \in Instructions /\ Nesting(current.kind) = -1
  BY <1>2 DEF Instructions, Nesting
<1> HIDE DEF n
<1>5. CASE frames' = Popped([f EXCEPT !.nested = @ \union Owned(Top)]) /\ Going
  <2> DEFINE N == f.nested \union Owned(Top)
             g == [f EXCEPT !.nested = N]
  <2>1. frames' = Popped(g)
    BY <1>5, Zenon
  <2>2. f.nodes = Append(Caller.nodes, n) /\ f.begin = Caller.begin
    BY <1>3, PushedNodes
  <2> HIDE DEF N
  <2>3. g.nodes = f.nodes /\ g.begin = f.begin
    OBVIOUS
  <2> HIDE DEF f, g
  <2>4. /\ Depth' = Depth - 1 /\ BeginsKept
        /\ Len(Blocks) = Depth /\ Blocks[Depth] = Top.nodes
        /\ SubSeq(Blocks, 1, Depth - 1)[Depth - 1] = Caller.nodes
        /\ Blocks' = [SubSeq(Blocks, 1, Depth - 1) EXCEPT ![Depth - 1] = g.nodes]
    BY <1>1, <1>2, <1>3, <2>1, <2>2, <2>3, BlockGoes
  <2>5. Blocks' = Consume(Blocks, current.kind)
    <3> DEFINE d == Len(Blocks)
               low == SubSeq(Blocks, 1, d - 1)
    <3>1. Consume(Blocks, current.kind)
            = [low EXCEPT ![d - 1] = Append(low[d - 1], Loop(Blocks[d]))]
      BY <1>2, ConsumeCases, Zenon
    <3>2. d = Depth /\ Loop(Blocks[d]) = n /\ low[d - 1] = Caller.nodes
      BY <2>4 DEF n
    <3>3. Blocks' = [low EXCEPT ![d - 1] = g.nodes]
      BY <2>4
    <3> HIDE DEF d, low
    <3> QED  BY <2>2, <2>3, <3>1, <3>2, <3>3, Zenon
  <2>6. Depth' = Depth + Nesting(current.kind) /\ Depth' > 0 /\ ~(Depth' > Depth)
    BY <1>2, <1>3, <1>4, <2>4
  <2> QED  BY <1>1, <1>2, <1>4, <1>5, <2>4, <2>5, <2>6, GoesOn
<1>6. CASE PushMayFail(Caller) /\ FailWith(Top.begin, "out of memory") /\ source' = source
  <2>1. AllocMayFail
    BY <1>6 DEF PushMayFail
  <2> QED  BY <1>2, <1>4, <1>6, <2>1, RunsOut
<1> QED  BY <1>5, <1>6 DEF CloseLoop, f, n

LEMMA UnexpectedCloseFaithful == Sound /\ Faithful /\ UnexpectedClose => Faithful'
<1> SUFFICES ASSUME Sound, Faithful, UnexpectedClose PROVE Faithful'
  OBVIOUS
<1>1. /\ status = "parsing" /\ current.kind = "]" /\ Depth = 1
      /\ FailWith(current.loc, "unexpected closing bracket")
      /\ UNCHANGED <<source, after, current, frames, heap>>
  BY DEF UnexpectedClose, At, Parsing
<1>2. Reads /\ Nested /\ source \in Seq(STRING) /\ Len(source) \in Nat
  <2>1. Reads /\ Nested
    BY <1>1 DEF Faithful
  <2>2. source \in Seq(STRING)
    BY <2>1 DEF Reads
  <2> QED  BY <2>1, <2>2
<1> DEFINE r == Read
           p == Read + 1
<1>3. r \in 0 .. Len(source) /\ r < Len(source) /\ source[p] = "]" /\ current.loc = LocBehind(r)
  BY <1>1, <1>2 DEF Reads, TokenAt
<1>4. Level(r) = 0 /\ \A k \in 0 .. r : Level(k) >= 0
  <2>1. Level(r) \in Int
    BY <1>2, <1>3, LevelSteps
  <2>2. 1 = Level(r) + 1
    BY <1>1, <1>2 DEF Nested
  <2>3. \A k \in 0 .. r : Level(k) >= 0
    BY <1>2 DEF Nested
  <2> HIDE DEF r
  <2> QED  BY <2>1, <2>2, <2>3
<1> HIDE DEF r, p
<1>5. p = r + 1 /\ p \in 1 .. Len(source) /\ p \in 0 .. Len(source) /\ r \in 0 .. Len(source) - 1
  BY <1>2, <1>3 DEF p, r
<1>6. Level(p) = -1
  <2>1. Level(p) = Level(r) + Nesting(source[p])
    BY <1>2, <1>5, LevelSteps
  <2> QED  BY <1>3, <1>4, <2>1 DEF Nesting
<1>7. UnmatchedCloses = {k \in 1 .. Len(source) : Level(k) < 0}
  BY <1>2, UnmatchedClosesAre
<1>8. p \in UnmatchedCloses /\ \A k \in UnmatchedCloses : p <= k
  <2>1. ASSUME NEW k \in 1 .. Len(source), Level(k) < 0 PROVE p <= k
    <3>1. ~(k <= r)
      <4>1. k \in Nat /\ r \in Nat  BY <1>3
      <4>2. k <= r => k \in 0 .. r  BY <4>1
      <4>3. k \in 0 .. Len(source)  BY <1>2
      <4>4. Level(k) \in Int  BY <1>2, <4>3, LevelSteps
      <4> QED  BY <1>4, <2>1, <4>2, <4>4
    <3> QED  BY <1>3, <1>5, <3>1
  <2> QED  BY <1>5, <1>6, <1>7, <2>1
<1>9. Least(UnmatchedCloses) = p
  <2> DEFINE S == UnmatchedCloses
  <2>1. S \subseteq Int /\ p \in S /\ \A k \in S : p <= k
    BY <1>2, <1>7, <1>8
  <2> HIDE DEF S
  <2>2. Least(S) \in S /\ \A y \in S : Least(S) <= y
    <3>1. p \in Int  BY <2>1
    <3> QED  BY <2>1, <3>1, LeastOfBounded
  <2> DEFINE z == Least(S)
  <2> HIDE DEF z
  <2>3. z = p
    <3>1. z \in S /\ p \in S /\ z \in Int /\ p \in Int
      BY <2>1, <2>2 DEF z
    <3>2. z <= p /\ p <= z
      BY <2>1, <2>2, <3>1 DEF z
    <3> QED  BY <3>1, <3>2
  <2> QED  BY <2>3 DEF S, z
<1>10. err' = [set |-> TRUE, loc |-> current.loc, msg |-> "unexpected closing bracket"]
       /\ status' = "failing"
  BY <1>1 DEF FailWith
<1>11. current.loc = LocationOf(p)
  BY <1>3, <1>5 DEF LocBehind
<1>12. Deserved'
  <2>1. UnmatchedCloses' = UnmatchedCloses /\ \A k : LocationOf(k)' = LocationOf(k)
    BY <1>1, TextStays
  <2>2. err'.msg = "unexpected closing bracket" /\ err'.loc = LocationOf(p)
    BY <1>10, <1>11
  <2>3. UnmatchedCloses # {}
    BY <1>8
  <2> QED  BY <1>9, <2>1, <2>2, <2>3 DEF Deserved
<1>13. Reads'
  BY <1>1, <1>2, ReadsStay
<1>14. err'.set
  BY <1>10
<1> QED  BY <1>10, <1>12, <1>13, <1>14 DEF Faithful

LEMMA UnterminatedLoopFaithful == Sound /\ Faithful /\ UnterminatedLoop => Faithful'
<1> SUFFICES ASSUME Sound, Faithful, UnterminatedLoop PROVE Faithful'
  OBVIOUS
<1>1. /\ status = "parsing" /\ current.kind = "eof" /\ Depth > 1
      /\ FailWith(Top.begin, "unterminated loop")
      /\ UNCHANGED <<source, after, current, frames, heap>>
  BY DEF UnterminatedLoop, At, Parsing
<1>2. Reads /\ Nested /\ source \in Seq(STRING) /\ Len(source) \in Nat /\ Depth \in Nat
  <2>1. Reads /\ Nested
    BY <1>1 DEF Faithful
  <2>2. source \in Seq(STRING)
    BY <2>1 DEF Reads
  <2>3. Depth \in Nat
    BY SoundFrames
  <2> QED  BY <2>1, <2>2, <2>3
<1> DEFINE N == Len(source)
           d == Depth
<1>3. Read = N
  BY <1>1, <1>2 DEF Reads, TokenAt, Instructions
<1>4. /\ d = Level(N) + 1 /\ (\A k \in 0 .. N : Level(k) >= 0)
      /\ OpenSince(d, Top.begin, N)
  <2>1. Depth \in 2 .. Depth
    <3>1. d \in Nat /\ d > 1
      BY <1>1, <1>2
    <3> HIDE DEF d
    <3>2. d \in 2 .. d
      BY <3>1
    <3> QED  BY <3>2 DEF d
  <2>2. OpenSince(Depth, frames[Depth].begin, Read)
    BY <1>2, <2>1 DEF Nested
  <2>3. OpenSince(d, Top.begin, N)
    BY <1>3, <2>2 DEF Top
  <2> QED  BY <1>2, <1>3, <2>3 DEF Nested
<1>5. PICK p \in 1 .. N :
        /\ source[p] = "[" /\ Top.begin = LocationOf(p) /\ Level(p - 1) = d - 2
        /\ \A m \in p .. N : Level(m) >= d - 1
  BY <1>4 DEF OpenSince
<1>6. \A k \in 0 .. N : Level(k) \in Int
  BY <1>2, LevelSteps
<1>7. UnmatchedCloses = {}
  <2>1. \A k \in 1 .. N : ~(Level(k) < 0)
    <3>1. \A k \in 1 .. N : k \in 0 .. N  OBVIOUS
    <3> HIDE DEF N
    <3> QED  BY <1>4, <1>6, <3>1
  <2> QED  BY <1>2, <2>1, UnmatchedClosesAre
<1>8. UnmatchedOpens =
        {k \in 1 .. N : source[k] = "[" /\ \A m \in k .. N : Level(m) > Level(k - 1)}
  BY <1>2, UnmatchedOpensAre
<1>9. d \in Nat /\ d > 1 /\ N \in Nat
  BY <1>1, <1>2
<1> HIDE DEF N, d
<1>10. p \in UnmatchedOpens
  <2>1. \A m \in p .. N : m \in 0 .. N
    BY <1>9
  <2>2. \A m \in p .. N : Level(m) > Level(p - 1)
    BY <1>5, <1>6, <1>9, <2>1
  <2> QED  BY <1>5, <1>8, <2>2
<1>11. \A k \in UnmatchedOpens : k <= p
  <2> SUFFICES ASSUME NEW k \in 1 .. N, Level(N) > Level(k - 1), p < k PROVE FALSE
    <3>1. \A k \in UnmatchedOpens : k \in 1 .. N /\ Level(N) > Level(k - 1)
      <4>1. \A k \in 1 .. N : N \in k .. N  BY <1>9
      <4> QED  BY <1>8, <4>1
    <3>2. \A k \in 1 .. N : k \in Int /\ p \in Int
      OBVIOUS
    <3> QED  BY <3>1, <3>2
  <2>1. k - 1 \in p .. N /\ k - 1 \in 0 .. N /\ N \in 0 .. N
    BY <1>9
  <2>2. Level(k - 1) >= d - 1 /\ Level(N) = d - 1
    BY <1>4, <1>5, <1>6, <1>9, <2>1
  <2>3. Level(k - 1) \in Int /\ Level(N) \in Int
    BY <1>6, <2>1
  <2> QED  BY <1>9, <2>2, <2>3
<1>12. Greatest(UnmatchedOpens) = p
  <2> DEFINE S == UnmatchedOpens
  <2>1. S \subseteq Int /\ p \in S /\ (\A k \in S : k <= p) /\ p \in Int
    BY <1>8, <1>9, <1>10, <1>11
  <2> HIDE DEF S
  <2>2. Greatest(S) \in S /\ \A y \in S : y <= Greatest(S)
    BY <2>1, GreatestOfBounded
  <2> DEFINE z == Greatest(S)
  <2> HIDE DEF z
  <2>3. z = p
    <3>1. z \in S /\ p \in S /\ z \in Int /\ p \in Int
      BY <2>1, <2>2 DEF z
    <3>2. z <= p /\ p <= z
      BY <2>1, <2>2, <3>1 DEF z
    <3> QED  BY <3>1, <3>2
  <2> QED  BY <2>3 DEF S, z
<1>13. err' = [set |-> TRUE, loc |-> Top.begin, msg |-> "unterminated loop"]
       /\ status' = "failing"
  BY <1>1 DEF FailWith
<1>14. Deserved'
  <2>1. /\ UnmatchedCloses' = UnmatchedCloses /\ UnmatchedOpens' = UnmatchedOpens
        /\ \A k : LocationOf(k)' = LocationOf(k)
    BY <1>1, TextStays
  <2>2. err'.msg = "unterminated loop" /\ err'.loc = LocationOf(p)
    BY <1>5, <1>13
  <2>3. UnmatchedOpens # {}
    BY <1>10
  <2> QED  BY <1>7, <1>12, <2>1, <2>2, <2>3 DEF Deserved
<1>15. Reads'
  BY <1>1, <1>2, ReadsStay
<1>16. err'.set
  BY <1>13
<1> QED  BY <1>13, <1>14, <1>15, <1>16 DEF Faithful

LEMMA AcceptFaithful == Sound /\ Faithful /\ Accept => Faithful'
<1> SUFFICES ASSUME Sound, Faithful, Accept PROVE Faithful'
  OBVIOUS
<1>1. /\ status = "parsing" /\ current.kind = "eof" /\ Depth = 1 /\ status' = "accepted"
      /\ UNCHANGED <<source, after, current, frames, heap, err>>
  BY DEF Accept, At, Parsing
<1>2. Reads /\ Nested /\ ~err.set /\ Blocks = BlocksAfter(source, Read)
  BY <1>1 DEF Faithful
<1>3. Read = Len(source)
  BY <1>1, <1>2 DEF Reads, TokenAt, Instructions
<1>4. Reads'
  BY <1>1, <1>2, ReadsStay
<1>5. /\ Nested' /\ Blocks' = Blocks /\ Depth' = Depth /\ Read' = Read
      /\ BlocksAfter(source, Read)' = BlocksAfter(source, Read)
  BY <1>1, <1>2, NestedStays
<1> QED  BY <1>1, <1>2, <1>3, <1>4, <1>5 DEF Faithful

\* An error stays what it is while the callers return.
LEMMA ReturnsFaithful == Faithful /\ (Unwind \/ Reject) => Faithful'
<1> SUFFICES ASSUME Faithful, Unwind \/ Reject PROVE Faithful'
  OBVIOUS
<1>1. /\ status = "failing" /\ status' \in {"failing", "rejected"}
      /\ UNCHANGED <<source, after, current, err>>
  BY DEF Unwind, Reject
<1>2. Reads /\ err.set /\ Deserved
  BY <1>1 DEF Faithful
<1>3. Reads' /\ Deserved'
  BY <1>1, <1>2, ReadsStay, DeservedStays
<1> QED  BY <1>1, <1>2, <1>3 DEF Faithful

LEMMA StutterFaithful == Faithful /\ UNCHANGED vars => Faithful'
<1> SUFFICES ASSUME Faithful, UNCHANGED vars PROVE Faithful'
  OBVIOUS
<1>1. UNCHANGED <<source, after, current, frames, status, err>>
  BY DEF vars
<1>2. Reads'
  BY <1>1, ReadsStay DEF Faithful
<1>3. status \in {"parsing", "accepted"} =>
        /\ Nested' /\ Blocks' = Blocks /\ Depth' = Depth /\ Read' = Read
        /\ BlocksAfter(source, Read)' = BlocksAfter(source, Read)
  BY <1>1, NestedStays DEF Faithful
<1>4. status \in {"failing", "rejected"} => Deserved'
  BY <1>1, DeservedStays DEF Faithful
<1> QED  BY <1>1, <1>2, <1>3, <1>4 DEF Faithful

LEMMA StepFaithful == Sound /\ Faithful /\ [Next]_vars => Faithful'
  BY MergeDeltaFaithful, PushDeltaFaithful, PushIoFaithful, OpenLoopFaithful,
     CloseLoopFaithful, UnexpectedCloseFaithful, UnterminatedLoopFaithful, AcceptFaithful,
     ReturnsFaithful, StutterFaithful DEF Next, Step, Returned

LEMMA AlwaysFaithful == Spec => []Faithful
  BY AlwaysSound, InitFaithful, StepFaithful, PTL DEF Spec

\* What the invariant says, in the words of the properties.
LEMMA FaithfulIsEnough == Faithful => AnswersRightly /\ BuildsParseSource
<1> SUFFICES ASSUME Faithful PROVE AnswersRightly /\ BuildsParseSource
  OBVIOUS
<1> DEFINE N == Len(source)
<1>1. ASSUME status = "accepted" PROVE WellFormed /\ ~err.set /\ Top.nodes = ParseSource(source)
  <2>1. /\ Read = N /\ Depth = 1 /\ Nested /\ ~err.set /\ Blocks = BlocksAfter(source, N)
        /\ source \in Seq(STRING) /\ N \in Nat
    BY <1>1 DEF Faithful, Reads
  <2>2. \A k \in 0 .. N : Level(k) \in Int
    BY <2>1, LevelSteps
  <2>3. Level(N) = 0 /\ \A k \in 0 .. N : Level(k) >= 0
    <3>1. 1 = Level(N) + 1 /\ \A k \in 0 .. N : Level(k) >= 0
      BY <2>1 DEF Nested
    <3>2. Level(N) \in Int
      BY <2>1, <2>2
    <3> HIDE DEF N
    <3> QED  BY <3>1, <3>2
  <2>4. UnmatchedCloses = {}
    <3>1. UnmatchedCloses = {k \in 1 .. N : Level(k) < 0}
      BY <2>1, UnmatchedClosesAre
    <3> HIDE DEF N
    <3>2. \A k \in 1 .. N : k \in 0 .. N
      BY <2>1
    <3> QED  BY <2>2, <2>3, <3>1, <3>2
  <2>5. UnmatchedOpens = {}
    <3>1. UnmatchedOpens =
            {k \in 1 .. N : source[k] = "[" /\ \A m \in k .. N : Level(m) > Level(k - 1)}
      BY <2>1, UnmatchedOpensAre
    <3> HIDE DEF N
    <3>2. \A k \in 1 .. N : k - 1 \in 0 .. N /\ N \in k .. N
      BY <2>1
    <3> QED  BY <2>2, <2>3, <3>1, <3>2
  <2>6. Top.nodes = Blocks[1]
    BY <2>1 DEF Top, Blocks
  <2>7. ParseSource(source) = BlocksAfter(source, N)[1]
    BY <2>1, BlocksAfterSteps
  <2> QED  BY <2>1, <2>4, <2>5, <2>6, <2>7 DEF WellFormed
<1>2. status = "rejected" => err.set /\ Deserved
  BY DEF Faithful
<1>3. AnswersRightly
  BY <1>1, <1>2 DEF AnswersRightly, Deserved
<1> QED  BY <1>1, <1>3 DEF BuildsParseSource
-----------------------------------------------------------------------------
\* A program is rejected if and only if its brackets do not match or memory ran
\* out, and the error is at the bracket that has no partner (the ends of
\* bf_parse_block, bf_set_parse_err): for texts of every length, nested to every
\* depth.
THEOREM ParserAnswersRightly == Spec => []AnswersRightly
  BY AlwaysFaithful, FaithfulIsEnough, PTL

\* The program bf_parse_src returns is the one that BFSource's ParseSource
\* builds, token by token (bf_parse_block, bf_ir_block_append_delta).
THEOREM ParserBuildsParseSource == Spec => []BuildsParseSource
  BY AlwaysFaithful, FaithfulIsEnough, PTL
=============================================================================
