-------------------------- MODULE BFOptimizer_proofs --------------------------
(***************************************************************************)
(* For every program and whichever allocations fail: what the interpreter  *)
(* and the backends take for granted of optimised programs (BFOptimized)   *)
(* holds after each pass of the optimiser, and with memory enough the      *)
(* passes add up to OptimizeBlock.                                         *)
(***************************************************************************)
EXTENDS BFOptimizer, BFFolds_proofs
-----------------------------------------------------------------------------
(* The nodes, level by level.                                              *)

NodesOver(S) == [kind : Kinds, arg : Int, body : Seq(S), terms : Seq(Terms)]

\* A function that has the nodes of each level up to n.
LevelsTo(f, n) ==
  f = [depth \in 0 .. n |-> IF depth = 0 THEN {} ELSE NodesOver(f[depth - 1])]

\* There is one, from level to level.
LEMMA LevelsExist ==
  ASSUME NEW n \in Nat
  PROVE  \E f : LevelsTo(f, n)
<1> DEFINE G == {k \in 0 .. n : \E f : LevelsTo(f, k)}
<1>1. 0 \in G
  <2> DEFINE f == [depth \in 0 .. 0 |-> {}]
  <2>1. \A depth \in 0 .. 0 : depth = 0  OBVIOUS
  <2>2. f = [depth \in 0 .. 0 |-> IF depth = 0 THEN {} ELSE NodesOver(f[depth - 1])]
    BY <2>1
  <2> HIDE DEF f
  <2>3. LevelsTo(f, 0)  BY <2>2 DEF LevelsTo
  <2> QED  BY <2>3
<1>2. ASSUME NEW k \in 0 .. n - 1, k \in G PROVE k + 1 \in G
  <2>1. PICK f : LevelsTo(f, k)  BY <1>2
  <2> DEFINE g == [depth \in 0 .. k + 1 |->
                     IF depth = k + 1 THEN NodesOver(f[k]) ELSE f[depth]]
  <2>2. ASSUME NEW depth \in 0 .. k + 1
        PROVE  g[depth] = IF depth = 0 THEN {} ELSE NodesOver(g[depth - 1])
    <3>1. CASE depth = k + 1
      <4>1. depth # 0 /\ depth - 1 = k /\ k \in 0 .. k + 1 /\ k # k + 1  BY <3>1
      <4>2. g[k] = f[k] /\ g[depth] = NodesOver(f[k])  BY <3>1, <4>1
      <4> HIDE DEF g
      <4> QED  BY <4>1, <4>2
    <3>2. CASE depth \in 0 .. k
      <4>1. g[depth] = f[depth]  BY <3>2
      <4>2. f[depth] = IF depth = 0 THEN {} ELSE NodesOver(f[depth - 1])
        BY <2>1, <3>2 DEF LevelsTo
      <4>3. CASE depth = 0  BY <4>1, <4>2, <4>3
      <4>4. CASE depth # 0
        <5>1. depth - 1 \in 0 .. k + 1 /\ depth - 1 # k + 1  BY <3>2, <4>4
        <5>2. g[depth - 1] = f[depth - 1]  BY <5>1
        <5> HIDE DEF g
        <5> QED  BY <4>1, <4>2, <4>4, <5>2
      <4> QED  BY <4>3, <4>4
    <3> QED  BY <3>1, <3>2
  <2>3. g = [depth \in 0 .. k + 1 |-> g[depth]]  OBVIOUS
  <2> HIDE DEF g
  <2>4. LevelsTo(g, k + 1)  BY <2>2, <2>3 DEF LevelsTo
  <2>5. k + 1 \in 0 .. n  OBVIOUS
  <2> QED  BY <2>4, <2>5
<1>3. n \in G
  <2> HIDE DEF G
  <2> QED  BY <1>1, <1>2, InductionTo
<1> QED  BY <1>3

\* Two of them agree where both are defined.
LEMMA LevelsAgree ==
  ASSUME NEW n \in Nat, NEW m \in Nat, NEW f, NEW g, LevelsTo(f, n), LevelsTo(g, m),
         NEW k \in Nat, k <= n, k <= m
  PROVE  f[k] = g[k]
<1> DEFINE G == {j \in 0 .. k : f[j] = g[j]}
<1>0. \A h : \A p \in Nat : LevelsTo(h, p) =>
        \A d \in 0 .. p : d # 0 => h[d] = NodesOver(h[d - 1])
  BY DEF LevelsTo
<1>1. 0 \in G
  BY DEF LevelsTo
<1>2. ASSUME NEW j \in 0 .. k - 1, j \in G PROVE j + 1 \in G
  <2>1. j + 1 \in 0 .. n /\ j + 1 \in 0 .. m /\ j + 1 # 0 /\ j + 1 - 1 = j /\ j + 1 \in 0 .. k
    OBVIOUS
  <2>2. f[j + 1] = NodesOver(f[j]) /\ g[j + 1] = NodesOver(g[j])
    BY <1>0, <2>1
  <2> QED  BY <1>2, <2>1, <2>2
<1>3. k \in G
  <2> HIDE DEF G
  <2> QED  BY <1>1, <1>2, InductionTo
<1> QED  BY <1>3

\* So NodesUpTo is what its definition says.
LEMMA NodesUpToSteps ==
  /\ NodesUpTo[0] = {}
  /\ \A h \in Nat \ {0} : NodesUpTo[h] = NodesOver(NodesUpTo[h - 1])
<1> DEFINE To(n) == CHOOSE f : LevelsTo(f, n)
           up    == [n \in Nat |-> To(n)[n]]
           Is(f) == f = [depth \in Nat |->
                           IF depth = 0 THEN {}
                           ELSE [kind : Kinds, arg : Int, body : Seq(f[depth - 1]),
                                 terms : Seq(Terms)]]
<1>1. \A n \in Nat : LevelsTo(To(n), n)
  BY LevelsExist
<1> HIDE DEF To
<1>2. Is(up)
  <2>1. ASSUME NEW n \in Nat
        PROVE  up[n] = IF n = 0 THEN {} ELSE NodesOver(up[n - 1])
    <3>1. n \in 0 .. n /\ LevelsTo(To(n), n)  BY <1>1
    <3>2. To(n)[n] = IF n = 0 THEN {} ELSE NodesOver(To(n)[n - 1])
      BY <3>1 DEF LevelsTo
    <3>3. CASE n = 0  BY <3>2, <3>3
    <3>4. CASE n # 0
      <4>1. n - 1 \in Nat /\ n - 1 <= n /\ n - 1 <= n - 1  BY <3>4
      <4>2. To(n)[n - 1] = To(n - 1)[n - 1]
        BY <1>1, <4>1, LevelsAgree
      <4>3. up[n - 1] = To(n - 1)[n - 1]  BY <4>1
      <4> QED  BY <3>2, <3>4, <4>2, <4>3
    <3> QED  BY <3>3, <3>4
  <2>2. up = [n \in Nat |-> up[n]]  OBVIOUS
  <2> HIDE DEF up
  <2> QED  BY <2>1, <2>2 DEF NodesOver
<1> HIDE DEF up
<1>3. NodesUpTo = CHOOSE f : Is(f)
  BY DEF NodesUpTo
<1>4. Is(NodesUpTo)
  <2> HIDE DEF Is
  <2> QED  BY <1>2, <1>3
<1>5. NodesUpTo[0] = {}
  BY <1>4
<1>6. ASSUME NEW h \in Nat \ {0} PROVE NodesUpTo[h] = NodesOver(NodesUpTo[h - 1])
  BY <1>4 DEF NodesOver
<1> QED  BY <1>5, <1>6

\* What a level holds, and what the next one adds to it.
LEMMA NodesNest ==
  ASSUME NEW h \in Nat
  PROVE  \A n \in NodesUpTo[h] :
           /\ h - 1 \in Nat
           /\ n.kind \in Kinds /\ n.arg \in Int /\ n.terms \in Seq(Terms)
           /\ n.body \in Seq(NodesUpTo[h - 1])
           /\ n = [kind |-> n.kind, arg |-> n.arg, body |-> n.body, terms |-> n.terms]
<1> SUFFICES ASSUME NEW n \in NodesUpTo[h]
             PROVE  /\ h - 1 \in Nat
                    /\ n.kind \in Kinds /\ n.arg \in Int /\ n.terms \in Seq(Terms)
                    /\ n.body \in Seq(NodesUpTo[h - 1])
                    /\ n = [kind |-> n.kind, arg |-> n.arg, body |-> n.body, terms |-> n.terms]
  OBVIOUS
<1>1. h # 0
  BY NodesUpToSteps
<1>2. n \in NodesOver(NodesUpTo[h - 1])
  BY <1>1, NodesUpToSteps
<1> QED  BY <1>1, <1>2 DEF NodesOver

LEMMA NextLevelIsLarger ==
  ASSUME NEW h \in Nat
  PROVE  NodesUpTo[h] \subseteq NodesUpTo[h + 1]
<1> DEFINE G == {k \in 0 .. h : NodesUpTo[k] \subseteq NodesUpTo[k + 1]}
<1>1. 0 \in G
  BY NodesUpToSteps
<1>2. ASSUME NEW k \in 0 .. h - 1, k \in G PROVE k + 1 \in G
  <2>1. k + 1 \in Nat \ {0} /\ k + 1 + 1 \in Nat \ {0} /\ k + 1 - 1 = k
        /\ k + 1 + 1 - 1 = k + 1 /\ k + 1 \in 0 .. h
    OBVIOUS
  <2>2. /\ NodesUpTo[k + 1] = NodesOver(NodesUpTo[k])
        /\ NodesUpTo[k + 1 + 1] = NodesOver(NodesUpTo[k + 1])
    BY <2>1, NodesUpToSteps
  <2> DEFINE a == NodesUpTo[k]
             b == NodesUpTo[k + 1]
  <2>3. a \subseteq b  BY <1>2
  <2> HIDE DEF a, b
  <2>4. \A s \in Seq(a) : s \in Seq(b)  BY <2>3
  <2>5. NodesOver(a) \subseteq NodesOver(b)  BY <2>4 DEF NodesOver
  <2> QED  BY <2>1, <2>2, <2>5 DEF a, b
<1>3. h \in G
  <2> HIDE DEF G
  <2> QED  BY <1>1, <1>2, InductionTo
<1> QED  BY <1>3

LEMMA LevelsGrow ==
  ASSUME NEW h \in Nat, NEW k \in Nat, h <= k
  PROVE  NodesUpTo[h] \subseteq NodesUpTo[k] /\ Seq(NodesUpTo[h]) \subseteq Seq(NodesUpTo[k])
<1> DEFINE G == {d \in 0 .. k - h : NodesUpTo[h] \subseteq NodesUpTo[h + d]}
<1>1. 0 \in G
  OBVIOUS
<1>2. ASSUME NEW d \in 0 .. k - h - 1, d \in G PROVE d + 1 \in G
  <2>1. h + d \in Nat /\ h + (d + 1) = h + d + 1 /\ d + 1 \in 0 .. k - h
    OBVIOUS
  <2> QED  BY <1>2, <2>1, NextLevelIsLarger
<1>3. k - h \in G
  <2>1. k - h \in Nat  OBVIOUS
  <2> HIDE DEF G
  <2> QED  BY <1>1, <1>2, <2>1, InductionTo
<1>4. NodesUpTo[h] \subseteq NodesUpTo[k]
  <2>1. h + (k - h) = k  OBVIOUS
  <2> QED  BY <1>3, <2>1
<1> DEFINE a == NodesUpTo[h]
           b == NodesUpTo[k]
<1> HIDE DEF a, b
<1>5. a \subseteq b
  BY <1>4 DEF a, b
<1>6. \A s \in Seq(a) : s \in Seq(b)
  BY <1>5
<1> QED  BY <1>4, <1>6 DEF a, b

\* The least level that has all of a block's nodes.
IsHeight(block, h) ==
  /\ h \in Nat /\ block \in Seq(NodesUpTo[h])
  /\ \A k \in Nat : block \in Seq(NodesUpTo[k]) => h <= k

Height(block) == CHOOSE h : IsHeight(block, h)

LEMMA HeightFalls ==
  ASSUME NEW block \in Seq(AnyNode)
  PROVE  /\ Height(block) \in 0 .. MaxNesting /\ block \in Seq(NodesUpTo[Height(block)])
         /\ \A i \in DOMAIN block :
              block[i].body \in Seq(AnyNode) /\ Height(block[i].body) < Height(block)
<1>1. ASSUME NEW b, NEW k \in Nat, b \in Seq(NodesUpTo[k])
      PROVE  Height(b) \in Nat /\ IsHeight(b, Height(b)) /\ Height(b) <= k
  <2> DEFINE T == {j \in Nat : b \in Seq(NodesUpTo[j])}
  <2>1. T # {} /\ T \subseteq Nat  BY <1>1
  <2>2. PICK m \in T : \A j \in T : m <= j
    <3> HIDE DEF T
    <3> QED  BY <2>1, NatMinimum
  <2>3. IsHeight(b, m)  BY <2>2 DEF IsHeight
  <2>4. IsHeight(b, Height(b))  BY <2>3 DEF Height
  <2> QED  BY <1>1, <2>4 DEF IsHeight
<1>2. MaxNesting \in Nat
  BY MaxNestingAssumption
<1>3. Height(block) \in 0 .. MaxNesting /\ IsHeight(block, Height(block))
  BY <1>1, <1>2 DEF AnyNode
<1>4. ASSUME NEW i \in DOMAIN block
      PROVE  block[i].body \in Seq(AnyNode) /\ Height(block[i].body) < Height(block)
  <2> DEFINE h == Height(block)
  <2>1. h \in Nat /\ h <= MaxNesting /\ block \in Seq(NodesUpTo[h])
    BY <1>2, <1>3 DEF IsHeight
  <2>2. block[i] \in NodesUpTo[h]
    <3> HIDE DEF h
    <3> QED  BY <2>1
  <2>3. h - 1 \in Nat /\ block[i].body \in Seq(NodesUpTo[h - 1])
    BY <2>1, <2>2, NodesNest
  <2>4. Height(block[i].body) \in Nat /\ Height(block[i].body) <= h - 1
    BY <1>1, <2>3
  <2>5. block[i].body \in Seq(AnyNode)
    <3>1. h - 1 <= MaxNesting  BY <1>2, <2>1, <2>3
    <3> QED  BY <1>2, <2>3, <3>1, LevelsGrow DEF AnyNode
  <2> QED  BY <2>1, <2>4, <2>5
<1> QED  BY <1>3, <1>4 DEF IsHeight

\* So NodesOf is what its definition says.
LEMMA NodesOfSteps ==
  ASSUME NEW block \in Seq(AnyNode)
  PROVE  NodesOf(block) = UNION {{block[i]} \union NodesOf(block[i].body) : i \in DOMAIN block}
<1> DEFINE D == Seq(AnyNode)
           V == SUBSET AnyNode
           all(f, b) == UNION {{b[i]} \union f[b[i].body] : i \in DOMAIN b}
           h == [b \in D |-> Height(b)]
           G == [f \in [D -> V] |-> [b \in D |-> all(f, b)]]
           Is(f) == f = [b \in D |-> all(f, b)]
           nodes == CHOOSE f : Is(f)
<1>1. \A b \in D : /\ Height(b) \in Nat
                   /\ \A i \in DOMAIN b : /\ b[i] \in AnyNode /\ b[i].body \in D
                                          /\ Height(b[i].body) < Height(b)
  BY MaxNestingAssumption, HeightFalls
<1> HIDE DEF D
<1>2. ASSUME NEW f \in [D -> V], NEW b \in D PROVE all(f, b) \in V
  <2>1. \A i \in DOMAIN b : b[i] \in AnyNode /\ f[b[i].body] \in V
    BY <1>1
  <2> QED  BY <2>1
<1>3. ASSUME NEW f \in [D -> V], NEW g \in [D -> V], NEW b \in D,
             \A c \in D : h[c] < h[b] => f[c] = g[c]
      PROVE  G[f][b] = G[g][b]
  <2>1. \A i \in DOMAIN b : f[b[i].body] = g[b[i].body]
    BY <1>1, <1>3
  <2>2. all(f, b) = all(g, b)  BY <2>1
  <2> HIDE DEF all, V
  <2> QED  BY <2>2
<1>4. Descends(G, h, D, V)
  <2>1. [b \in D |-> {}] \in [D -> V]  OBVIOUS
  <2>2. h \in [D -> Nat]  BY <1>1
  <2>3. G \in [[D -> V] -> [D -> V]]
    <3> HIDE DEF all, V
    <3> QED  BY <1>2
  <2> HIDE DEF G, h, V
  <2> QED  BY <1>3, <2>1, <2>2, <2>3 DEF Descends
<1>5. PICK f : IsFixpoint(f, G, D, V)
  <2> HIDE DEF G, h, V
  <2> QED  BY <1>4, RecursionByHeight
<1>6. Is(f)
  <2>1. f \in [D -> V] /\ G[f] = f  BY <1>5 DEF IsFixpoint
  <2> HIDE DEF all, V
  <2> QED  BY <2>1
<1>7. Is(nodes)
  <2> HIDE DEF Is
  <2> QED  BY <1>6
<1>8. \A b : NodesOf(b) = nodes[b]
  BY DEF NodesOf, D
<1> HIDE DEF nodes
<1>9. nodes[block] = all(nodes, block)
  <2>1. block \in D  BY DEF D
  <2> HIDE DEF all
  <2> QED  BY <1>7, <2>1
<1> QED  BY <1>8, <1>9

\* Every node of a body is one of the block around it.
LEMMA NodesOfBodies ==
  ASSUME NEW block \in Seq(AnyNode)
  PROVE  \A n \in NodesOf(block) : /\ n.body \in Seq(AnyNode)
                                    /\ NodesOf(n.body) \subseteq NodesOf(block)
<1> DEFINE Closed(b) == \A n \in NodesOf(b) : /\ n.body \in Seq(AnyNode)
                                              /\ NodesOf(n.body) \subseteq NodesOf(b)
           G == {h \in 0 .. MaxNesting : \A b \in Seq(AnyNode) : Height(b) <= h => Closed(b)}
<1>0. MaxNesting \in Nat
  BY MaxNestingAssumption
<1>1. ASSUME NEW b \in Seq(AnyNode), \A i \in DOMAIN b : Closed(b[i].body)
      PROVE  Closed(b)
  <2> SUFFICES ASSUME NEW n \in NodesOf(b)
               PROVE  n.body \in Seq(AnyNode) /\ NodesOf(n.body) \subseteq NodesOf(b)
    OBVIOUS
  <2>1. PICK i \in DOMAIN b : n \in {b[i]} \union NodesOf(b[i].body)
    BY NodesOfSteps
  <2>2. NodesOf(b[i].body) \subseteq NodesOf(b) /\ b[i].body \in Seq(AnyNode)
    BY NodesOfSteps, HeightFalls
  <2>3. CASE n = b[i]  BY <2>2, <2>3
  <2>4. CASE n \in NodesOf(b[i].body)
    <3>1. n.body \in Seq(AnyNode) /\ NodesOf(n.body) \subseteq NodesOf(b[i].body)
      BY <1>1, <2>4
    <3> QED  BY <2>2, <3>1
  <2> QED  BY <2>1, <2>3, <2>4
<1> HIDE DEF Closed
<1>2. 0 \in G
  <2>1. ASSUME NEW b \in Seq(AnyNode), Height(b) <= 0 PROVE Closed(b)
    <3>1. \A i \in DOMAIN b : FALSE
      <4> SUFFICES ASSUME NEW i \in DOMAIN b PROVE FALSE
        OBVIOUS
      <4>1. b[i].body \in Seq(AnyNode) /\ Height(b[i].body) < Height(b)  BY HeightFalls
      <4>2. Height(b[i].body) \in Nat /\ Height(b) \in Nat
        BY <4>1, HeightFalls
      <4> QED  BY <2>1, <4>1, <4>2
    <3> QED  BY <1>1, <3>1
  <2> QED  BY <1>0, <2>1
<1>3. ASSUME NEW h \in 0 .. MaxNesting - 1, h \in G PROVE h + 1 \in G
  <2>1. ASSUME NEW b \in Seq(AnyNode), Height(b) <= h + 1 PROVE Closed(b)
    <3>1. ASSUME NEW i \in DOMAIN b PROVE Closed(b[i].body)
      <4>1. b[i].body \in Seq(AnyNode) /\ Height(b[i].body) < Height(b)  BY HeightFalls
      <4>2. Height(b[i].body) \in 0 .. MaxNesting /\ Height(b) \in 0 .. MaxNesting
        BY <4>1, HeightFalls
      <4>3. Height(b[i].body) <= h  BY <1>0, <2>1, <4>1, <4>2
      <4> QED  BY <1>3, <4>1, <4>3
    <3> QED  BY <1>1, <3>1
  <2> QED  BY <1>0, <2>1
<1>4. MaxNesting \in G
  <2> HIDE DEF G
  <2> QED  BY <1>0, <1>2, <1>3, InductionTo
<1>5. Height(block) <= MaxNesting
  BY <1>0, HeightFalls
<1> QED  BY <1>4, <1>5 DEF Closed
-----------------------------------------------------------------------------
(* The nodes that are as they are taken for granted to be, and so are      *)
(* those of their bodies.                                                  *)

Justified(n) == TermsAreDistinct(n) /\ IfIsJustified(n) /\ NonnullIsFirst(n)

Sound(h) == {n \in NodesUpTo[h] : \A m \in {n} \union NodesOf(n.body) : Justified(m)}

\* A block's nodes are when each is that the block holds itself.
LEMMA SoundBlock ==
  ASSUME NEW h \in 0 .. MaxNesting, NEW block \in Seq(NodesUpTo[h])
  PROVE  block \in Seq(Sound(h)) <=> \A n \in NodesOf(block) : Justified(n)
<1>1. block \in Seq(AnyNode)
  BY MaxNestingAssumption, LevelsGrow DEF AnyNode
<1>2. NodesOf(block) = UNION {{block[i]} \union NodesOf(block[i].body) : i \in DOMAIN block}
  BY <1>1, NodesOfSteps
<1>3. \A i \in DOMAIN block : block[i] \in NodesUpTo[h]
  OBVIOUS
<1>4. (\A n \in NodesOf(block) : Justified(n)) <=> \A i \in DOMAIN block : block[i] \in Sound(h)
  BY <1>2, <1>3 DEF Sound
<1> DEFINE S == Sound(h)
<1> HIDE DEF S
<1>5. block \in Seq(S) <=> \A i \in DOMAIN block : block[i] \in S
  OBVIOUS
<1> QED  BY <1>4, <1>5 DEF S

\* Such a node is one over such nodes.
LEMMA SoundNode ==
  ASSUME NEW h \in 1 .. MaxNesting
  PROVE  Sound(h) = {n \in NodesOver(Sound(h - 1)) : Justified(n)}
<1>0. h \in Nat \ {0} /\ h - 1 \in 0 .. MaxNesting /\ MaxNesting \in Nat
  BY MaxNestingAssumption
<1>1. NodesUpTo[h] = NodesOver(NodesUpTo[h - 1])
  BY <1>0, NodesUpToSteps
<1>2. ASSUME NEW n \in Sound(h) PROVE n \in NodesOver(Sound(h - 1)) /\ Justified(n)
  <2>1. n \in NodesOver(NodesUpTo[h - 1]) /\ Justified(n)
    BY <1>1 DEF Sound
  <2>2. n.body \in Seq(NodesUpTo[h - 1]) /\ \A m \in NodesOf(n.body) : Justified(m)
    BY <2>1 DEF Sound, NodesOver
  <2>3. n.body \in Seq(Sound(h - 1))
    BY <1>0, <2>2, SoundBlock
  <2> QED  BY <2>1, <2>3 DEF NodesOver
<1>3. ASSUME NEW n \in NodesOver(Sound(h - 1)), Justified(n) PROVE n \in Sound(h)
  <2> DEFINE S == Sound(h - 1)
             U == NodesUpTo[h - 1]
  <2>1. S \subseteq U  BY DEF Sound
  <2>2. n.body \in Seq(S)  BY DEF NodesOver
  <2>3. n.body \in Seq(U)
    <3> HIDE DEF S, U
    <3> QED  BY <2>1, <2>2
  <2>4. \A m \in NodesOf(n.body) : Justified(m)
    BY <1>0, <2>2, <2>3, SoundBlock
  <2>5. n \in NodesUpTo[h]
    BY <1>1, <2>3 DEF NodesOver
  <2> QED  BY <1>3, <2>4, <2>5 DEF Sound
<1> QED  BY <1>2, <1>3

\* No level has fewer of them than the one below.
LEMMA SoundGrows ==
  ASSUME NEW h \in Nat, NEW k \in Nat, h <= k
  PROVE  Sound(h) \subseteq Sound(k) /\ Seq(Sound(h)) \subseteq Seq(Sound(k))
<1>1. Sound(h) \subseteq Sound(k)
  BY LevelsGrow DEF Sound
<1> DEFINE a == Sound(h)
           b == Sound(k)
<1>2. a \subseteq b
  BY <1>1
<1> HIDE DEF a, b
<1>3. \A s \in Seq(a) : s \in Seq(b)
  BY <1>2
<1> QED  BY <1>1, <1>3 DEF a, b

LEMMA SoundIsAny ==
  ASSUME NEW h \in 0 .. MaxNesting
  PROVE  Sound(h) \subseteq AnyNode /\ Seq(Sound(h)) \subseteq Seq(AnyNode)
<1>1. Sound(h) \subseteq NodesUpTo[h] /\ NodesUpTo[h] \subseteq AnyNode
  BY MaxNestingAssumption, LevelsGrow DEF AnyNode, Sound
<1> DEFINE a == Sound(h)
<1>2. a \subseteq AnyNode
  BY <1>1
<1> HIDE DEF a
<1>3. \A s \in Seq(a) : s \in Seq(AnyNode)
  BY <1>2
<1> QED  BY <1>1, <1>3 DEF a
-----------------------------------------------------------------------------
(* What the passes over a loop find out about its body.                    *)

\* How far a body has moved the pointer at a node is an integer.
LEMMA OffsetIsInteger ==
  ASSUME NEW T, \A n \in T : n.arg \in Int, NEW block \in Seq(T)
  PROVE  /\ \A i \in 1 .. Len(block) + 1 : OffsetAt(block, i) \in Int
         /\ BlockDelta(block) \in Int
<1>1. ASSUME NEW i \in 1 .. Len(block) + 1 PROVE OffsetAt(block, i) \in Int
  <2> DEFINE f == [k \in 1 .. i - 1 |-> Move(block[k])]
  <2>1. DOMAIN f = 1 .. i - 1 /\ IsFiniteSet(1 .. i - 1)
    BY FS_Interval
  <2>2. ASSUME NEW k \in 1 .. i - 1 PROVE f[k] \in Int
    <3>1. k \in 1 .. Len(block) /\ block[k] \in T /\ f[k] = Move(block[k])  OBVIOUS
    <3> QED  BY <3>1 DEF Move
  <2>3. OffsetAt(block, i) = Total(f)
    BY DEF OffsetAt, SumFunction, SumFunctionOnSet, Total, FoldFunction
  <2> HIDE DEF f
  <2>4. Total(f) \in Int
    BY <2>1, <2>2, TotalType
  <2> QED  BY <2>3, <2>4
<1>2. Len(block) + 1 \in 1 .. Len(block) + 1
  OBVIOUS
<1> QED  BY <1>1, <1>2 DEF BlockDelta

\* The offsets that nodes of some kinds act on are each listed once.
Distinct(s) == \A a, b \in DOMAIN s : s[a] = s[b] => a = b

LEMMA AppendToDistinct ==
  ASSUME NEW T, NEW s \in Seq(T), Distinct(s), NEW e \in T, \A a \in DOMAIN s : s[a] # e
  PROVE  Append(s, e) \in Seq(T) /\ Distinct(Append(s, e))
<1> DEFINE t == Append(s, e)
<1>1. /\ t \in Seq(T) /\ DOMAIN t = 1 .. Len(s) + 1 /\ t[Len(s) + 1] = e
      /\ \A a \in 1 .. Len(s) : t[a] = s[a] /\ a \in DOMAIN s
      /\ Len(s) \in Nat
  OBVIOUS
<1> HIDE DEF t
<1>2. ASSUME NEW a \in DOMAIN t, NEW b \in DOMAIN t, t[a] = t[b] PROVE a = b
  <2>1. CASE a \in 1 .. Len(s) /\ b \in 1 .. Len(s)
    BY <1>1, <1>2, <2>1 DEF Distinct
  <2>2. CASE a = Len(s) + 1 \/ b = Len(s) + 1
    BY <1>1, <1>2, <2>2
  <2> QED  BY <1>1, <2>1, <2>2
<1>3. t \in Seq(T) /\ Distinct(t)
  BY <1>1, <1>2 DEF Distinct
<1> QED  BY <1>3 DEF t

LEMMA OffsetsOfType ==
  ASSUME NEW T, \A n \in T : n.arg \in Int, NEW block \in Seq(T), NEW kinds
  PROVE  OffsetsOf(block, kinds) \in Seq(Int) /\ Distinct(OffsetsOf(block, kinds))
<1> DEFINE n   == Len(block)
           C   == {s \in Seq(Int) : Distinct(s)}
           dom == [k \in DOMAIN block |-> k]
           Turn(seen, i) == IF block[i].kind \notin kinds \/ Contains(seen, OffsetAt(block, i))
                            THEN seen ELSE Append(seen, OffsetAt(block, i))
           g      == [p \in C \X (1 .. n) |-> Turn(p[1], p[2])]
           Iter(h) == h = [s \in SUBSET DOMAIN dom |->
                             IF s = {} THEN <<>> ELSE Turn(h[s \ {Max(s)}], dom[Max(s)])]
           iter   == CHOOSE h : Iter(h)
<1>1. n \in Nat /\ DOMAIN dom = 1 .. n /\ \A k \in 1 .. n : dom[k] = k
  OBVIOUS
<1>2. ASSUME NEW seen \in C, NEW i \in 1 .. n PROVE Turn(seen, i) \in C
  <2>1. OffsetAt(block, i) \in Int
    BY OffsetIsInteger
  <2>2. seen \in Seq(Int) /\ Distinct(seen)
    OBVIOUS
  <2>3. ~Contains(seen, OffsetAt(block, i)) => Append(seen, OffsetAt(block, i)) \in C
    <3> SUFFICES ASSUME ~Contains(seen, OffsetAt(block, i))
                 PROVE  Append(seen, OffsetAt(block, i)) \in C
      OBVIOUS
    <3>1. \A a \in DOMAIN seen : seen[a] # OffsetAt(block, i)
      BY <2>2 DEF Contains
    <3> QED  BY <2>1, <2>2, <3>1, AppendToDistinct
  <2> HIDE DEF C
  <2> QED  BY <2>3
<1>3. <<>> \in C
  BY DEF Distinct
<1>4. g \in [C \X (1 .. n) -> C] /\ \A seen \in C, i \in 1 .. n : g[<<seen, i>>] = Turn(seen, i)
  <2> HIDE DEF C, Turn, n
  <2> QED  BY <1>2
<1> HIDE DEF g, C, Turn, n, dom
<1>5. PICK f : ChosenFold(f, g, <<>>, C, n)
  BY <1>1, <1>3, <1>4, ChosenFoldExists
<1>6. Iter(f)
  <2>1. ASSUME NEW s \in SUBSET (1 .. n), s # {}
        PROVE  f[s] = Turn(f[s \ {Max(s)}], Max(s))
    <3>1. Max(s) \in 1 .. n  BY <1>1, <2>1, MaxOfIndices
    <3>2. f[s \ {Max(s)}] \in C  BY <1>5 DEF ChosenFold
    <3>3. f[s] = g[<<f[s \ {Max(s)}], Max(s)>>]  BY <1>5, <2>1 DEF ChosenFold
    <3> QED  BY <1>4, <3>1, <3>2, <3>3
  <2>2. f[{}] = <<>>  BY <1>5 DEF ChosenFold
  <2>3. f = [s \in SUBSET (1 .. n) |-> f[s]]  BY <1>5 DEF ChosenFold
  <2>4. \A s \in SUBSET (1 .. n) : s # {} => dom[Max(s)] = Max(s)
    BY <1>1, MaxOfIndices
  <2> QED  BY <1>1, <2>1, <2>2, <2>3, <2>4
<1>7. Iter(iter)
  <2> HIDE DEF Iter
  <2> QED  BY <1>6
<1> HIDE DEF iter
<1>8. FoldsUp(iter, g, <<>>, C, n)
  <2>1. iter[{}] = <<>>  BY <1>1, <1>7
  <2>2. ASSUME NEW s \in SUBSET (1 .. n), s # {}, iter[s \ {Max(s)}] \in C
        PROVE  iter[s] = g[<<iter[s \ {Max(s)}], Max(s)>>]
    <3>1. Max(s) \in 1 .. n  BY <1>1, <2>2, MaxOfIndices
    <3>2. iter[s] = Turn(iter[s \ {Max(s)}], Max(s))  BY <1>1, <1>7, <2>2, <3>1
    <3> QED  BY <1>4, <2>2, <3>1, <3>2
  <2> QED  BY <2>1, <2>2 DEF FoldsUp
<1>9. PICK acc : Traces(acc, iter, g, <<>>, C, n)
  <2> HIDE DEF Iter
  <2> QED  BY <1>1, <1>3, <1>4, <1>8, FoldSteps
<1>10. OffsetsOf(block, kinds) = iter[1 .. n]
  <2>1. OffsetsOf(block, kinds) = iter[DOMAIN dom]
    BY DEF OffsetsOf, FoldLeftDomain, FoldLeft, MapThenFoldSet, iter, Turn, dom
  <2> QED  BY <1>1, <2>1
<1>11. acc[n] \in C
  BY <1>1, <1>9 DEF Traces, Trace
<1> QED  BY <1>9, <1>10, <1>11 DEF C, Traces

LEMMA DeltaIsInteger ==
  ASSUME NEW T, \A n \in T : n.arg \in Int, NEW block \in Seq(T), NEW offset
  PROVE  DeltaAt(block, offset) \in Int
<1> DEFINE n   == Len(block)
           dom == [k \in DOMAIN block |-> k]
           Turn(sum, i) == IF block[i].kind = "ADD_DATA" /\ OffsetAt(block, i) = offset
                           THEN sum + block[i].arg ELSE sum
           g      == [p \in Int \X (1 .. n) |-> Turn(p[1], p[2])]
           Iter(h) == h = [s \in SUBSET DOMAIN dom |->
                             IF s = {} THEN 0 ELSE Turn(h[s \ {Max(s)}], dom[Max(s)])]
           iter   == CHOOSE h : Iter(h)
<1>1. n \in Nat /\ DOMAIN dom = 1 .. n /\ \A k \in 1 .. n : dom[k] = k
  OBVIOUS
<1>2. ASSUME NEW sum \in Int, NEW i \in 1 .. n PROVE Turn(sum, i) \in Int
  <2>1. block[i] \in T
    OBVIOUS
  <2>2. block[i].arg \in Int
    BY <2>1
  <2> QED  BY <2>2
<1>3. 0 \in Int
  OBVIOUS
<1>4. /\ g \in [Int \X (1 .. n) -> Int]
      /\ \A sum \in Int, i \in 1 .. n : g[<<sum, i>>] = Turn(sum, i)
  <2> HIDE DEF Turn, n
  <2> QED  BY <1>2
<1> HIDE DEF g, Turn, n, dom
<1>5. PICK f : ChosenFold(f, g, 0, Int, n)
  BY <1>1, <1>3, <1>4, ChosenFoldExists
<1>6. Iter(f)
  <2>1. ASSUME NEW s \in SUBSET (1 .. n), s # {}
        PROVE  f[s] = Turn(f[s \ {Max(s)}], Max(s))
    <3>1. Max(s) \in 1 .. n  BY <1>1, <2>1, MaxOfIndices
    <3>2. f[s \ {Max(s)}] \in Int  BY <1>5 DEF ChosenFold
    <3>3. f[s] = g[<<f[s \ {Max(s)}], Max(s)>>]  BY <1>5, <2>1 DEF ChosenFold
    <3> QED  BY <1>4, <3>1, <3>2, <3>3
  <2>2. f[{}] = 0  BY <1>5 DEF ChosenFold
  <2>3. f = [s \in SUBSET (1 .. n) |-> f[s]]  BY <1>5 DEF ChosenFold
  <2>4. \A s \in SUBSET (1 .. n) : s # {} => dom[Max(s)] = Max(s)
    BY <1>1, MaxOfIndices
  <2> QED  BY <1>1, <2>1, <2>2, <2>3, <2>4
<1>7. Iter(iter)
  <2> HIDE DEF Iter
  <2> QED  BY <1>6
<1> HIDE DEF iter
<1>8. FoldsUp(iter, g, 0, Int, n)
  <2>1. iter[{}] = 0  BY <1>1, <1>7
  <2>2. ASSUME NEW s \in SUBSET (1 .. n), s # {}, iter[s \ {Max(s)}] \in Int
        PROVE  iter[s] = g[<<iter[s \ {Max(s)}], Max(s)>>]
    <3>1. Max(s) \in 1 .. n  BY <1>1, <2>2, MaxOfIndices
    <3>2. iter[s] = Turn(iter[s \ {Max(s)}], Max(s))  BY <1>1, <1>7, <2>2, <3>1
    <3> QED  BY <1>4, <2>2, <3>1, <3>2
  <2> QED  BY <2>1, <2>2 DEF FoldsUp
<1>9. PICK acc : Traces(acc, iter, g, 0, Int, n)
  <2> HIDE DEF Iter
  <2> QED  BY <1>1, <1>3, <1>4, <1>8, FoldSteps
<1>10. DeltaAt(block, offset) = iter[1 .. n]
  <2>1. DeltaAt(block, offset) = iter[DOMAIN dom]
    BY DEF DeltaAt, FoldLeftDomain, FoldLeft, MapThenFoldSet, iter, Turn, dom
  <2> QED  BY <1>1, <2>1
<1>11. acc[n] \in Int
  BY <1>1, <1>9 DEF Traces, Trace
<1> QED  BY <1>9, <1>10, <1>11 DEF Traces

\* The terms for distinct offsets are for distinct offsets, none of them the
\* loop's own.
FitTerms(terms) ==
  /\ terms \in Seq(Terms)
  /\ Distinct([k \in DOMAIN terms |-> terms[k].offset])
  /\ \A k \in DOMAIN terms : terms[k].offset # 0

LEMMA AppendTerm ==
  ASSUME NEW terms, FitTerms(terms), NEW t \in Terms, t.offset # 0,
         \A k \in DOMAIN terms : terms[k].offset # t.offset
  PROVE  FitTerms(Append(terms, t))
<1> DEFINE more == Append(terms, t)
<1>1. /\ more \in Seq(Terms) /\ DOMAIN more = 1 .. Len(terms) + 1 /\ more[Len(terms) + 1] = t
      /\ \A a \in 1 .. Len(terms) : more[a] = terms[a] /\ a \in DOMAIN terms
      /\ Len(terms) \in Nat
  BY DEF FitTerms
<1> HIDE DEF more
<1>2. ASSUME NEW a \in DOMAIN more, NEW b \in DOMAIN more, more[a].offset = more[b].offset
      PROVE  a = b
  <2>1. CASE a \in 1 .. Len(terms) /\ b \in 1 .. Len(terms)
    BY <1>1, <1>2, <2>1 DEF Distinct, FitTerms
  <2>2. CASE a = Len(terms) + 1 \/ b = Len(terms) + 1
    BY <1>1, <1>2, <2>2
  <2> QED  BY <1>1, <2>1, <2>2
<1>3. \A k \in DOMAIN more : more[k].offset # 0
  BY <1>1 DEF FitTerms
<1>4. Distinct([k \in DOMAIN more |-> more[k].offset])
  BY <1>2 DEF Distinct
<1>5. FitTerms(more)
  BY <1>1, <1>3, <1>4 DEF FitTerms
<1> QED  BY <1>5 DEF more

LEMMA TermsForFit ==
  ASSUME NEW T, \A n \in T : n.arg \in Int, NEW body \in Seq(T), NEW sign \in Int,
         NEW offsets \in Seq(Int), Distinct(offsets)
  PROVE  FitTerms(TermsFor(offsets, body, sign))
<1> DEFINE n   == Len(offsets)
           C   == Seq(Terms)
           Term(d) == [offset |-> d, factor |-> sign * DeltaAt(body, d)]
           Turn(terms, d) == IF d = 0 THEN terms ELSE Append(terms, Term(d))
           g      == [p \in C \X (1 .. n) |-> Turn(p[1], offsets[p[2]])]
           Iter(h) == h = [s \in SUBSET DOMAIN offsets |->
                             IF s = {} THEN <<>> ELSE Turn(h[s \ {Max(s)}], offsets[Max(s)])]
           iter   == CHOOSE h : Iter(h)
<1>1. n \in Nat /\ DOMAIN offsets = 1 .. n
  OBVIOUS
<1>2. ASSUME NEW d \in Int PROVE Term(d) \in Terms
  <2>1. DeltaAt(body, d) \in Int  BY DeltaIsInteger
  <2> QED  BY <2>1 DEF Terms
<1>3. ASSUME NEW terms \in C, NEW i \in 1 .. n PROVE Turn(terms, offsets[i]) \in C
  <2>1. Term(offsets[i]) \in Terms  BY <1>2
  <2> HIDE DEF Term
  <2> QED  BY <2>1
<1>4. <<>> \in C
  OBVIOUS
<1>5. /\ g \in [C \X (1 .. n) -> C]
      /\ \A terms \in C, i \in 1 .. n : g[<<terms, i>>] = Turn(terms, offsets[i])
  <2> HIDE DEF C, Turn, n
  <2> QED  BY <1>3
<1> HIDE DEF g, C, n, Term, Turn
<1>7. PICK f : ChosenFold(f, g, <<>>, C, n)
  BY <1>1, <1>4, <1>5, ChosenFoldExists
<1>8. Iter(f)
  <2>1. ASSUME NEW s \in SUBSET (1 .. n), s # {}
        PROVE  f[s] = Turn(f[s \ {Max(s)}], offsets[Max(s)])
    <3>1. Max(s) \in 1 .. n  BY <1>1, <2>1, MaxOfIndices
    <3>2. f[s \ {Max(s)}] \in C  BY <1>7 DEF ChosenFold
    <3>3. f[s] = g[<<f[s \ {Max(s)}], Max(s)>>]  BY <1>7, <2>1 DEF ChosenFold
    <3> QED  BY <1>5, <3>1, <3>2, <3>3
  <2>2. f[{}] = <<>>  BY <1>7 DEF ChosenFold
  <2>3. f = [s \in SUBSET (1 .. n) |-> f[s]]  BY <1>7 DEF ChosenFold
  <2> QED  BY <1>1, <2>1, <2>2, <2>3
<1>9. Iter(iter)
  <2> HIDE DEF Iter
  <2> QED  BY <1>8
<1> HIDE DEF iter
<1>10. FoldsUp(iter, g, <<>>, C, n)
  <2>1. iter[{}] = <<>>  BY <1>1, <1>9
  <2>2. ASSUME NEW s \in SUBSET (1 .. n), s # {}, iter[s \ {Max(s)}] \in C
        PROVE  iter[s] = g[<<iter[s \ {Max(s)}], Max(s)>>]
    <3>1. Max(s) \in 1 .. n  BY <1>1, <2>2, MaxOfIndices
    <3>2. iter[s] = Turn(iter[s \ {Max(s)}], offsets[Max(s)])  BY <1>1, <1>9, <2>2
    <3> QED  BY <1>5, <2>2, <3>1, <3>2
  <2> QED  BY <2>1, <2>2 DEF FoldsUp
<1>11. PICK acc : Traces(acc, iter, g, <<>>, C, n)
  <2> HIDE DEF Iter
  <2> QED  BY <1>1, <1>4, <1>5, <1>10, FoldSteps
<1>12. TermsFor(offsets, body, sign) = iter[1 .. n]
  <2>1. TermsFor(offsets, body, sign) = iter[DOMAIN offsets]
    BY DEF TermsFor, FoldLeft, MapThenFoldSet, iter, Turn, Term
  <2> QED  BY <1>1, <2>1
<1> DEFINE Fit(k) == /\ FitTerms(acc[k])
                     /\ \A a \in DOMAIN acc[k] : \E j \in 1 .. k : acc[k][a].offset = offsets[j]
           P == {k \in 0 .. n : Fit(k)}
<1>13. 0 \in P
  <2>1. acc[0] = <<>>  BY <1>11 DEF Traces, Trace
  <2>2. FitTerms(<<>>)  BY DEF FitTerms, Distinct
  <2> QED  BY <1>1, <2>1, <2>2
<1>14. ASSUME NEW k \in 0 .. n - 1, k \in P PROVE k + 1 \in P
  <2>1. k + 1 \in 1 .. n /\ k + 1 - 1 = k /\ k + 1 \in 0 .. n /\ k \in 0 .. n
    BY <1>1
  <2>2. acc[k] \in C /\ acc[k + 1] = Turn(acc[k], offsets[k + 1])
    <3>1. acc[k] \in C /\ acc[k + 1] = g[<<acc[k], k + 1>>]
      BY <1>11, <2>1 DEF Traces, Trace
    <3> QED  BY <1>5, <2>1, <3>1
  <2> DEFINE t == Term(offsets[k + 1])
  <2>3. CASE offsets[k + 1] = 0
    BY <1>14, <2>1, <2>2, <2>3 DEF Turn
  <2>4. CASE offsets[k + 1] # 0
    <3>1. acc[k + 1] = Append(acc[k], t)
      BY <2>2, <2>4 DEF Turn
    <3>2. offsets[k + 1] \in Int /\ t \in Terms /\ t.offset = offsets[k + 1]
      <4>1. offsets[k + 1] \in Int  BY <1>1, <2>1
      <4> QED  BY <1>2, <4>1 DEF Term
    <3> HIDE DEF t
    <3>3. ASSUME NEW a \in DOMAIN acc[k] PROVE acc[k][a].offset # t.offset
      <4>1. PICK j \in 1 .. k : acc[k][a].offset = offsets[j]
        BY <1>14
      <4>2. j \in DOMAIN offsets /\ k + 1 \in DOMAIN offsets /\ j # k + 1
        BY <1>1, <2>1
      <4> QED  BY <3>2, <4>1, <4>2 DEF Distinct
    <3>4. FitTerms(acc[k + 1])
      BY <1>14, <2>4, <3>1, <3>2, <3>3, AppendTerm
    <3>5. ASSUME NEW a \in DOMAIN acc[k + 1]
          PROVE  \E j \in 1 .. k + 1 : acc[k + 1][a].offset = offsets[j]
      <4>1. acc[k] \in Seq(Terms)  BY <2>2 DEF C
      <4>2. CASE a \in DOMAIN acc[k]
        <5>1. acc[k + 1][a] = acc[k][a]  BY <3>1, <4>1, <4>2
        <5>2. PICK j \in 1 .. k : acc[k][a].offset = offsets[j]  BY <1>14, <4>2
        <5> QED  BY <5>1, <5>2
      <4>3. CASE a \notin DOMAIN acc[k]
        <5>1. acc[k + 1][a] = t  BY <3>1, <4>1, <4>3
        <5>2. k + 1 \in 1 .. k + 1  BY <2>1
        <5> QED  BY <3>2, <5>1, <5>2
      <4> QED  BY <4>2, <4>3
    <3> QED  BY <2>1, <3>4, <3>5
  <2> QED  BY <2>3, <2>4
<1>15. n \in P
  <2> HIDE DEF P
  <2> QED  BY <1>1, <1>13, <1>14, InductionTo
<1> QED  BY <1>11, <1>12, <1>15 DEF Traces

\* So the terms of a multiply loop are.
LEMMA MultiplyTermsFit ==
  ASSUME NEW T, \A n \in T : n.arg \in Int, NEW body \in Seq(T)
  PROVE  FitTerms(MultiplyTerms(body))
<1> DEFINE offsets == OffsetsOf(body, {"ADD_DATA"})
           sign    == -DeltaAt(body, 0)
<1>1. offsets \in Seq(Int) /\ Distinct(offsets)
  BY OffsetsOfType
<1>2. sign \in Int
  BY DeltaIsInteger
<1> HIDE DEF offsets, sign
<1>3. FitTerms(TermsFor(offsets, body, sign))
  BY <1>1, <1>2, TermsForFit
<1> QED  BY <1>3 DEF offsets, sign, MultiplyTerms
-----------------------------------------------------------------------------
(* What the passes over a block make it of.                                *)

\* Removing dead stores leaves nodes of the block.
LEMMA DeadStoresLeave ==
  ASSUME NEW T, NEW block \in Seq(T)
  PROVE  EliminateDeadStores(block) \in Seq(T)
<1> DEFINE dead == DeadStores(block)
           n    == Len(block)
           C    == Seq(T)
           dom  == [k \in DOMAIN block |-> k]
           Turn(kept, i) == IF i \in dead THEN kept ELSE Append(kept, block[i])
           g      == [p \in C \X (1 .. n) |-> Turn(p[1], p[2])]
           Iter(h) == h = [s \in SUBSET DOMAIN dom |->
                             IF s = {} THEN <<>> ELSE Turn(h[s \ {Max(s)}], dom[Max(s)])]
           iter   == CHOOSE h : Iter(h)
<1> HIDE DEF dead
<1>1. n \in Nat /\ DOMAIN dom = 1 .. n /\ \A k \in 1 .. n : dom[k] = k
  OBVIOUS
<1>2. ASSUME NEW kept \in C, NEW i \in 1 .. n PROVE Turn(kept, i) \in C
  OBVIOUS
<1>3. <<>> \in C
  OBVIOUS
<1>4. g \in [C \X (1 .. n) -> C] /\ \A kept \in C, i \in 1 .. n : g[<<kept, i>>] = Turn(kept, i)
  <2> HIDE DEF C, Turn, n
  <2> QED  BY <1>2
<1> HIDE DEF g, C, Turn, n, dom
<1>5. PICK f : ChosenFold(f, g, <<>>, C, n)
  BY <1>1, <1>3, <1>4, ChosenFoldExists
<1>6. Iter(f)
  <2>1. ASSUME NEW s \in SUBSET (1 .. n), s # {}
        PROVE  f[s] = Turn(f[s \ {Max(s)}], Max(s))
    <3>1. Max(s) \in 1 .. n  BY <1>1, <2>1, MaxOfIndices
    <3>2. f[s \ {Max(s)}] \in C  BY <1>5 DEF ChosenFold
    <3>3. f[s] = g[<<f[s \ {Max(s)}], Max(s)>>]  BY <1>5, <2>1 DEF ChosenFold
    <3> QED  BY <1>4, <3>1, <3>2, <3>3
  <2>2. f[{}] = <<>>  BY <1>5 DEF ChosenFold
  <2>3. f = [s \in SUBSET (1 .. n) |-> f[s]]  BY <1>5 DEF ChosenFold
  <2>4. \A s \in SUBSET (1 .. n) : s # {} => dom[Max(s)] = Max(s)
    BY <1>1, MaxOfIndices
  <2> QED  BY <1>1, <2>1, <2>2, <2>3, <2>4
<1>7. Iter(iter)
  <2> HIDE DEF Iter
  <2> QED  BY <1>6
<1> HIDE DEF iter
<1>8. FoldsUp(iter, g, <<>>, C, n)
  <2>1. iter[{}] = <<>>  BY <1>1, <1>7
  <2>2. ASSUME NEW s \in SUBSET (1 .. n), s # {}, iter[s \ {Max(s)}] \in C
        PROVE  iter[s] = g[<<iter[s \ {Max(s)}], Max(s)>>]
    <3>1. Max(s) \in 1 .. n  BY <1>1, <2>2, MaxOfIndices
    <3>2. iter[s] = Turn(iter[s \ {Max(s)}], Max(s))  BY <1>1, <1>7, <2>2, <3>1
    <3> QED  BY <1>4, <2>2, <3>1, <3>2
  <2> QED  BY <2>1, <2>2 DEF FoldsUp
<1>9. PICK acc : Traces(acc, iter, g, <<>>, C, n)
  <2> HIDE DEF Iter
  <2> QED  BY <1>1, <1>3, <1>4, <1>8, FoldSteps
<1>10. CASE Len(block) >= 2
  <2>1. EliminateDeadStores(block) = iter[DOMAIN dom]
    BY <1>10
       DEF EliminateDeadStores, FoldLeftDomain, FoldLeft, MapThenFoldSet, iter, Turn, dom, dead
  <2>2. EliminateDeadStores(block) = iter[1 .. n]
    BY <1>1, <2>1
  <2>3. acc[n] \in C
    BY <1>1, <1>9 DEF Traces, Trace
  <2> QED  BY <1>9, <2>2, <2>3 DEF C, Traces
<1>11. CASE ~(Len(block) >= 2)
  <2>1. Len(block) < 2  BY <1>11
  <2> QED  BY <2>1 DEF EliminateDeadStores
<1> QED  BY <1>10, <1>11

\* A loop over a block leads from blocks of some nodes to such blocks when each
\* of its turns does.
Turns(T) == [block : Seq(T), index : Nat \ {0}]

LEMMA LoopOverKeeps ==
  ASSUME NEW T, NEW block \in Seq(T), NEW turn, \A loop \in Turns(T) : turn[loop] \in Turns(T)
  PROVE  LoopOver(turn, block) \in Seq(T)
<1> DEFINE n     == Len(block)
           C     == Turns(T)
           first == [block |-> block, index |-> 1]
           dom   == [k \in DOMAIN block |-> k]
           g       == [p \in C \X (1 .. n) |-> turn[p[1]]]
           Iter(h) == h = [s \in SUBSET DOMAIN dom |->
                             IF s = {} THEN first ELSE turn[h[s \ {Max(s)}]]]
           iter    == CHOOSE h : Iter(h)
<1>1. n \in Nat /\ DOMAIN dom = 1 .. n
  OBVIOUS
<1>2. first \in C
  BY DEF Turns
<1>3. g \in [C \X (1 .. n) -> C] /\ \A loop \in C, i \in 1 .. n : g[<<loop, i>>] = turn[loop]
  <2> HIDE DEF n
  <2> QED  OBVIOUS
<1> HIDE DEF g, C, n, dom
<1>4. PICK f : ChosenFold(f, g, first, C, n)
  <2> HIDE DEF first
  <2> QED  BY <1>1, <1>2, <1>3, ChosenFoldExists
<1> HIDE DEF first
<1>5. Iter(f)
  <2>1. ASSUME NEW s \in SUBSET (1 .. n), s # {}
        PROVE  f[s] = turn[f[s \ {Max(s)}]]
    <3>1. Max(s) \in 1 .. n  BY <1>1, <2>1, MaxOfIndices
    <3>2. f[s \ {Max(s)}] \in C  BY <1>4 DEF ChosenFold
    <3>3. f[s] = g[<<f[s \ {Max(s)}], Max(s)>>]  BY <1>4, <2>1 DEF ChosenFold
    <3> QED  BY <1>3, <3>1, <3>2, <3>3
  <2>2. f[{}] = first  BY <1>4 DEF ChosenFold
  <2>3. f = [s \in SUBSET (1 .. n) |-> f[s]]  BY <1>4 DEF ChosenFold
  <2> QED  BY <1>1, <2>1, <2>2, <2>3
<1>6. Iter(iter)
  <2> HIDE DEF Iter
  <2> QED  BY <1>5
<1> HIDE DEF iter
<1>7. FoldsUp(iter, g, first, C, n)
  <2>1. iter[{}] = first  BY <1>1, <1>6
  <2>2. ASSUME NEW s \in SUBSET (1 .. n), s # {}, iter[s \ {Max(s)}] \in C
        PROVE  iter[s] = g[<<iter[s \ {Max(s)}], Max(s)>>]
    <3>1. Max(s) \in 1 .. n  BY <1>1, <2>2, MaxOfIndices
    <3>2. iter[s] = turn[iter[s \ {Max(s)}]]  BY <1>1, <1>6, <2>2
    <3> QED  BY <1>3, <2>2, <3>1, <3>2
  <2> QED  BY <2>1, <2>2 DEF FoldsUp
<1>8. PICK acc : Traces(acc, iter, g, first, C, n)
  <2> HIDE DEF Iter
  <2> QED  BY <1>1, <1>2, <1>3, <1>7, FoldSteps
<1>9. LoopOver(turn, block) = iter[1 .. n].block
  <2>1. LoopOver(turn, block) = iter[DOMAIN dom].block
    BY DEF LoopOver, FoldLeftDomain, FoldLeft, MapThenFoldSet, iter, first, dom
  <2> QED  BY <1>1, <2>1
<1>10. acc[n] \in C
  BY <1>1, <1>8 DEF Traces, Trace
<1> QED  BY <1>8, <1>9, <1>10 DEF C, Traces, Turns

\* The blocks that the passes start from and leave: of sound nodes, none of which
\* is marked as reached with a nonzero counter.
Unmarked(h) == {n \in Sound(h) : n.kind # "NONNULL_MULTIPLY_LOOP"}

LEMMA UnmarkedIsAny ==
  ASSUME NEW h \in 0 .. MaxNesting
  PROVE  /\ Unmarked(h) \subseteq AnyNode /\ Turns(Unmarked(h)) \subseteq LoopStates
         /\ Seq(Unmarked(h)) \subseteq Seq(AnyNode) /\ Seq(Unmarked(h)) \subseteq Seq(Sound(h))
         /\ \A n \in Unmarked(h) : n.arg \in Int
<1> DEFINE U == Unmarked(h)
           S == Sound(h)
<1>1. U \subseteq S /\ S \subseteq AnyNode
  BY SoundIsAny DEF Unmarked
<1>2. \A n \in U : n.arg \in Int
  <2>1. \A n \in U : n \in NodesUpTo[h]  BY <1>1 DEF Sound
  <2> QED  BY <2>1, NodesNest, MaxNestingAssumption
<1> HIDE DEF U, S
<1>3. \A s \in Seq(U) : s \in Seq(AnyNode) /\ s \in Seq(S)
  BY <1>1
<1> QED  BY <1>1, <1>2, <1>3 DEF U, S, Turns, LoopStates

\* A node without a body and without terms of a multiply loop is such a node.
LEMMA SimpleIsSound ==
  ASSUME NEW h \in 1 .. MaxNesting, NEW kind \in Kinds \ (ControlKinds \union MultiplyKinds),
         NEW arg \in Int, NEW terms \in Seq(Terms)
  PROVE  Plain(kind, arg) \in Unmarked(h) /\ WithTerms(kind, arg, terms) \in Unmarked(h)
<1>1. ASSUME NEW ts \in Seq(Terms),
             NEW n, n = [kind |-> kind, arg |-> arg, body |-> <<>>, terms |-> ts]
      PROVE  n \in Unmarked(h)
  <2>1. n.kind = kind /\ n.body = <<>>  BY <1>1
  <2>2. Justified(n)
    BY <2>1 DEF Justified, TermsAreDistinct, IfIsJustified, NonnullIsFirst, MultiplyKinds,
                ControlKinds
  <2> DEFINE S == Sound(h - 1)
  <2>3. <<>> \in Seq(S)  OBVIOUS
  <2>4. n \in NodesOver(S)
    <3> HIDE DEF S
    <3> QED  BY <1>1, <2>3 DEF NodesOver
  <2>5. n \in Sound(h)
    BY <2>2, <2>4, SoundNode
  <2> QED  BY <2>1, <2>5 DEF Unmarked, MultiplyKinds
<1>2. Plain(kind, arg) = [kind |-> kind, arg |-> arg, body |-> <<>>, terms |-> <<>>]
  BY DEF Plain
<1>3. WithTerms(kind, arg, terms) = [kind |-> kind, arg |-> arg, body |-> <<>>, terms |-> terms]
  BY DEF Plain, WithTerms
<1>4. <<>> \in Seq(Terms)
  OBVIOUS
<1> QED  BY <1>1, <1>2, <1>3, <1>4

\* What a block holds besides the nodes from one to another.
LEMMA WithoutSome ==
  ASSUME NEW T, NEW block \in Seq(T), NEW i \in 1 .. Len(block), NEW j \in i .. Len(block)
  PROVE  /\ SubSeq(block, 1, i - 1) \in Seq(T) /\ SubSeq(block, j + 1, Len(block)) \in Seq(T)
         /\ SubSeq(block, i, j) \in Seq(T) /\ Len(SubSeq(block, i, j)) = j - i + 1
  OBVIOUS

LEMMA FoldSetConstKeeps ==
  ASSUME NEW h \in 0 .. MaxNesting, NEW block \in Seq(Unmarked(h))
  PROVE  FoldSetConst(block) \in Seq(Unmarked(h))
<1> DEFINE U    == Unmarked(h)
           turn == [loop \in LoopStates |-> FoldSetConstTurn(loop)]
<1>1. \A n \in U : n.arg \in Int
  BY UnmarkedIsAny
<1>2. ASSUME NEW n \in U, NEW value \in Int
      PROVE  Plain(IF value = 0 THEN "SET_ZERO" ELSE "SET_CONST", value) \in U
  <2>1. h # 0
    BY NodesUpToSteps DEF Sound, Unmarked
  <2>2. h \in 1 .. MaxNesting  BY <2>1, MaxNestingAssumption
  <2>3. (IF value = 0 THEN "SET_ZERO" ELSE "SET_CONST")
          \in Kinds \ (ControlKinds \union MultiplyKinds)
    BY DEF Kinds, ControlKinds, MultiplyKinds
  <2>4. <<>> \in Seq(Terms)  OBVIOUS
  <2> QED  BY <2>2, <2>3, <2>4, SimpleIsSound
<1>3. ASSUME NEW loop \in Turns(U) PROVE turn[loop] \in Turns(U)
  <2> DEFINE b == loop.block
             i == loop.index
             value  == b[i].arg + b[i + 1].arg
             merged == Plain(IF value = 0 THEN "SET_ZERO" ELSE "SET_CONST", value)
             before == SubSeq(b, 1, i - 1)
             after  == SubSeq(b, i + 2, Len(b))
  <2>1. turn[loop] = FoldSetConstTurn(loop)
    BY UnmarkedIsAny
  <2> HIDE DEF turn, U
  <2>2. b \in Seq(U) /\ i \in Nat \ {0}
    BY DEF Turns
  <2>3. i + 1 \in Nat \ {0} /\ [loop EXCEPT !.index = i + 1] \in Turns(U)
    BY <2>2 DEF Turns
  <2>4. ASSUME i < Len(b) PROVE before \in Seq(U) /\ after \in Seq(U) /\ merged \in U
    <3>1. i \in 1 .. Len(b) /\ i + 1 \in i .. Len(b) /\ i + 1 + 1 = i + 2  BY <2>2, <2>4
    <3>2. b[i] \in U /\ b[i + 1] \in U  BY <2>2, <3>1
    <3>3. value \in Int  BY <1>1, <3>2
    <3>4. merged \in U
      <4> HIDE DEF value
      <4> QED  BY <1>2, <3>2, <3>3
    <3>5. before \in Seq(U) /\ after \in Seq(U)
      <4> HIDE DEF b, i
      <4> QED  BY <2>2, <3>1, WithoutSome
    <3> QED  BY <3>4, <3>5
  <2>5. i < Len(b) => before \o <<merged>> \o after \in Seq(U)
    <3> HIDE DEF merged, before, after
    <3> QED  BY <2>4
  <2>6. FoldSetConstTurn(loop) =
          IF i >= Len(b) THEN loop
          ELSE IF b[i].kind \in StoreKinds /\ b[i + 1].kind = "ADD_DATA"
          THEN [block |-> before \o <<merged>> \o after, index |-> IF i > 1 THEN i ELSE i + 1]
          ELSE [loop EXCEPT !.index = i + 1]
    BY DEF FoldSetConstTurn
  <2> DEFINE folded == before \o <<merged>> \o after
  <2> HIDE DEF folded
  <2>7. i < Len(b) =>
          [block |-> folded, index |-> IF i > 1 THEN i ELSE i + 1] \in Turns(U)
    BY <2>2, <2>3, <2>5 DEF Turns, folded
  <2>8. i >= Len(b) \/ i < Len(b)
    BY <2>2
  <2> HIDE DEF b, i, merged, before, after
  <2> QED  BY <2>1, <2>3, <2>6, <2>7, <2>8 DEF folded
<1> HIDE DEF turn, U
<1>4. LoopOver(turn, block) \in Seq(U)
  BY <1>3, LoopOverKeeps DEF U
<1> QED  BY <1>4 DEF FoldSetConst, turn, U

LEMMA FoldScanReturnKeeps ==
  ASSUME NEW h \in 0 .. MaxNesting, NEW block \in Seq(Unmarked(h))
  PROVE  FoldScanReturn(block) \in Seq(Unmarked(h))
<1> DEFINE U    == Unmarked(h)
           turn == [loop \in LoopStates |-> FoldScanReturnTurn(loop)]
<1>1. ASSUME NEW loop \in Turns(U) PROVE turn[loop] \in Turns(U)
  <2> DEFINE b == loop.block
             i == loop.index
             fewer == SubSeq(b, 1, i - 1) \o SubSeq(b, i + 1, Len(b))
             folds == /\ b[i].kind = "SCAN" /\ b[i].arg # 0
                      /\ b[i + 1].kind = "ADD_PTR" /\ b[i + 1].arg = -b[i].arg
                      /\ b[i + 2].kind = "SCAN" /\ b[i + 2].arg = -b[i].arg
  <2>1. turn[loop] = FoldScanReturnTurn(loop)
    BY UnmarkedIsAny
  <2> HIDE DEF turn, U
  <2>2. b \in Seq(U) /\ i \in Nat \ {0}
    BY DEF Turns
  <2>3. i + 1 \in Nat \ {0} /\ [loop EXCEPT !.index = i + 1] \in Turns(U)
    BY <2>2 DEF Turns
  <2>4. FoldScanReturnTurn(loop) =
          IF i + 2 > Len(b) THEN loop
          ELSE IF folds THEN [block |-> fewer, index |-> IF i > 1 THEN i ELSE i + 1]
          ELSE [loop EXCEPT !.index = i + 1]
    BY DEF FoldScanReturnTurn, RemoveAt
  <2>5. ~(i + 2 > Len(b)) => fewer \in Seq(U)
    <3>1. ~(i + 2 > Len(b)) => i \in 1 .. Len(b) /\ i \in i .. Len(b)  BY <2>2
    <3> HIDE DEF b, i
    <3>2. ~(i + 2 > Len(b)) =>
            SubSeq(b, 1, i - 1) \in Seq(U) /\ SubSeq(b, i + 1, Len(b)) \in Seq(U)
      BY <2>2, <3>1, WithoutSome
    <3> QED  BY <3>2
  <2> HIDE DEF fewer, folds
  <2>6. ~(i + 2 > Len(b)) => [block |-> fewer, index |-> IF i > 1 THEN i ELSE i + 1] \in Turns(U)
    BY <2>2, <2>3, <2>5 DEF Turns
  <2> HIDE DEF b, i
  <2> QED  BY <2>1, <2>3, <2>4, <2>6
<1> HIDE DEF turn, U
<1>2. LoopOver(turn, block) \in Seq(U)
  BY <1>1, LoopOverKeeps DEF U
<1>3. CASE ScanReturnPass = TRUE
  BY <1>2, <1>3 DEF FoldScanReturn, turn, U
<1>4. CASE ScanReturnPass # TRUE
  BY <1>2, <1>4 DEF FoldScanReturn, turn, U
<1> QED  BY <1>3, <1>4

\* A run of cleared cells ends in the block.
LEMMA ZeroRunEnds ==
  ASSUME NEW T, NEW block \in Seq(T), NEW i \in 1 .. Len(block)
  PROVE  \E m \in Nat : ZeroRunEnd(block, i) = i + 2 * m /\ i + 2 * m <= Len(block)
<1> DEFINE pairs == {m \in 0 .. Len(block) :
                       /\ i + 2 * m <= Len(block)
                       /\ \A k \in 1 .. m : /\ block[i + 2 * k - 1].kind = "ADD_PTR"
                                            /\ block[i + 2 * k].kind = "SET_ZERO"}
<1>1. pairs \subseteq Int /\ Len(block) \in Int /\ \A m \in pairs : m <= Len(block)
  OBVIOUS
<1>2. pairs # {}
  <2>1. 0 \in pairs  OBVIOUS
  <2> QED  BY <2>1
<1>3. Greatest(pairs) \in pairs
  <2> HIDE DEF pairs
  <2> QED  BY <1>1, <1>2, GreatestOfBounded
<1>4. Greatest(pairs) \in Nat /\ i + 2 * Greatest(pairs) <= Len(block)
  <2> DEFINE m == Greatest(pairs)
  <2>1. m \in pairs  BY <1>3
  <2> HIDE DEF m
  <2> QED  BY <2>1 DEF m
<1>5. ZeroRunEnd(block, i) = i + 2 * Greatest(pairs)
  BY DEF ZeroRunEnd
<1> QED  BY <1>4, <1>5

LEMMA ZeroTermsType ==
  ASSUME NEW offsets \in Seq(Int)
  PROVE  ZeroTerms(offsets) \in Seq(Terms)
<1>1. \A i \in DOMAIN offsets : [offset |-> offsets[i], factor |-> 0] \in Terms
  BY DEF Terms
<1> QED  BY <1>1 DEF ZeroTerms

LEMMA FoldMultiZeroKeeps ==
  ASSUME NEW h \in 0 .. MaxNesting, NEW block \in Seq(Unmarked(h)), NEW failing
  PROVE  FoldMultiZero(block, failing) \in Seq(Unmarked(h))
<1> DEFINE U    == Unmarked(h)
           turn == [loop \in LoopStates |-> FoldMultiZeroTurn(loop, failing)]
<1>1. \A n \in U : n.arg \in Int
  BY UnmarkedIsAny
<1>2. ASSUME NEW n \in U, NEW arg \in Int, NEW terms \in Seq(Terms)
      PROVE  WithTerms("MULTI_ZERO", arg, terms) \in U
  <2>1. h # 0
    BY NodesUpToSteps DEF Sound, Unmarked
  <2>2. h \in 1 .. MaxNesting  BY <2>1, MaxNestingAssumption
  <2>3. "MULTI_ZERO" \in Kinds \ (ControlKinds \union MultiplyKinds)
    BY DEF Kinds, ControlKinds, MultiplyKinds
  <2> QED  BY <2>2, <2>3, SimpleIsSound
<1>3. ASSUME NEW loop \in Turns(U) PROVE turn[loop] \in Turns(U)
  <2> DEFINE b     == loop.block
             i     == loop.index
             last  == ZeroRunEnd(b, i)
             stop  == IF last < Len(b) /\ b[last + 1].kind = "ADD_PTR" THEN last + 1 ELSE last
             run   == SubSeq(b, i, stop)
             offsets == [k \in 1 .. (last - i) \div 2 + 1 |-> OffsetAt(run, 2 * k - 1)]
             node   == WithTerms("MULTI_ZERO", BlockDelta(run), ZeroTerms(offsets))
             before == SubSeq(b, 1, i - 1)
             after  == SubSeq(b, stop + 1, Len(b))
             folded == before \o <<node>> \o after
  <2>1. turn[loop] = FoldMultiZeroTurn(loop, failing)
    BY UnmarkedIsAny
  <2> HIDE DEF turn, U
  <2>2. b \in Seq(U) /\ i \in Nat \ {0}
    BY DEF Turns
  <2>3. i + 1 \in Nat \ {0} /\ [loop EXCEPT !.index = i + 1] \in Turns(U)
    BY <2>2 DEF Turns
  <2>4. FoldMultiZeroTurn(loop, failing) =
          IF i > Len(b) THEN loop
          ELSE IF b[i].kind # "SET_ZERO" \/ last = i \/ i \in failing
          THEN [loop EXCEPT !.index = i + 1]
          ELSE [block |-> folded, index |-> i + 1]
    BY DEF FoldMultiZeroTurn
  <2>5. ASSUME i \in 1 .. Len(b) PROVE folded \in Seq(U)
    <3>1. PICK m \in Nat : last = i + 2 * m /\ i + 2 * m <= Len(b)
      <4> HIDE DEF b, i
      <4> QED  BY <2>2, <2>5, ZeroRunEnds
    <3> HIDE DEF b, i, last
    <3>2. stop \in last .. Len(b) /\ stop \in i .. Len(b) /\ Len(b) \in Nat
      BY <2>2, <2>5, <3>1
    <3> HIDE DEF stop
    <3>3. /\ before \in Seq(U) /\ after \in Seq(U)
          /\ run \in Seq(U) /\ Len(run) = stop - i + 1
      BY <2>2, <2>5, <3>2, WithoutSome
    <3> HIDE DEF run, before, after
    <3>4. (last - i) \div 2 + 1 = m + 1
      BY <2>5, <3>1
    <3>5. ASSUME NEW k \in 1 .. m + 1 PROVE OffsetAt(run, 2 * k - 1) \in Int
      <4>1. 2 * k - 1 \in 1 .. Len(run) + 1
        BY <2>5, <3>1, <3>2, <3>3
      <4> QED  BY <1>1, <3>3, <4>1, OffsetIsInteger
    <3>6. offsets \in Seq(Int)
      BY <3>4, <3>5
    <3> HIDE DEF offsets
    <3>7. BlockDelta(run) \in Int
      BY <1>1, <3>3, OffsetIsInteger
    <3>8. b[i] \in U
      BY <2>2, <2>5
    <3>9. node \in U
      BY <1>2, <3>6, <3>7, <3>8, ZeroTermsType
    <3> HIDE DEF node
    <3> QED  BY <3>3, <3>9
  <2> HIDE DEF folded, last
  <2>6. i \in 1 .. Len(b) => [block |-> folded, index |-> i + 1] \in Turns(U)
    BY <2>3, <2>5 DEF Turns
  <2>7. i > Len(b) \/ i \in 1 .. Len(b)
    BY <2>2
  <2> HIDE DEF b, i
  <2> QED  BY <2>1, <2>3, <2>4, <2>6, <2>7
<1> HIDE DEF turn, U
<1>4. LoopOver(turn, block) \in Seq(U)
  BY <1>3, LoopOverKeeps DEF U
<1> QED  BY <1>4 DEF FoldMultiZero, turn, U
-----------------------------------------------------------------------------
(* What the passes over one loop make of it.                               *)

\* The body of a node that is not an if has no marked node.
LEMMA BodyIsUnmarked ==
  ASSUME NEW h \in 1 .. MaxNesting, NEW n \in Sound(h)
  PROVE  n.kind # "IF" => n.body \in Seq(Unmarked(h - 1))
<1> SUFFICES ASSUME n.kind # "IF" PROVE n.body \in Seq(Unmarked(h - 1))
  OBVIOUS
<1>1. n \in NodesOver(Sound(h - 1)) /\ Justified(n)
  BY SoundNode
<1> DEFINE S == Sound(h - 1)
           U == Unmarked(h - 1)
           b == n.body
<1>2. b \in Seq(S) /\ \A i \in DOMAIN b : b[i].kind # "NONNULL_MULTIPLY_LOOP"
  BY <1>1 DEF NodesOver, Justified, NonnullIsFirst
<1>3. \A m \in S : m.kind # "NONNULL_MULTIPLY_LOOP" => m \in U
  BY DEF Unmarked
<1> HIDE DEF S, U, b
<1>4. b \in Seq(U)
  BY <1>2, <1>3
<1> QED  BY <1>4 DEF U, b

LEMMA LoopOverSound ==
  ASSUME NEW h \in 1 .. MaxNesting, NEW body \in Seq(Unmarked(h - 1)),
         NEW arg \in Int, NEW terms \in Seq(Terms)
  PROVE  [kind |-> "LOOP", arg |-> arg, body |-> body, terms |-> terms] \in Unmarked(h)
<1> DEFINE S == Sound(h - 1)
           U == Unmarked(h - 1)
           n == [kind |-> "LOOP", arg |-> arg, body |-> body, terms |-> terms]
<1>1. \A m \in U : m \in S /\ m.kind # "NONNULL_MULTIPLY_LOOP"
  BY DEF Unmarked
<1> HIDE DEF S, U
<1>2. body \in Seq(S) /\ \A i \in DOMAIN body : body[i].kind # "NONNULL_MULTIPLY_LOOP"
  BY <1>1 DEF U
<1>3. n.kind = "LOOP" /\ n.body = body
  OBVIOUS
<1>4. n \in NodesOver(S)
  BY <1>2 DEF NodesOver, Kinds
<1>5. Justified(n)
  BY <1>2, <1>3 DEF Justified, TermsAreDistinct, IfIsJustified, NonnullIsFirst, MultiplyKinds
<1>6. n \in Sound(h)
  BY <1>4, <1>5, SoundNode DEF S
<1> QED  BY <1>3, <1>6 DEF Unmarked

LEMMA SetZeroKeeps ==
  ASSUME NEW h \in 1 .. MaxNesting, NEW n \in Unmarked(h)
  PROVE  SetZero(n) \in Unmarked(h)
<1>1. CASE n.kind # "LOOP" \/ Len(n.body) # 1
  BY <1>1 DEF SetZero
<1>2. CASE n.kind = "LOOP" /\ Len(n.body) = 1
  <2> DEFINE only == n.body[1]
             U == Unmarked(h - 1)
  <2>1. n.body \in Seq(U)
    BY <1>2, BodyIsUnmarked DEF Unmarked
  <2>2. h - 1 \in 0 .. MaxNesting
    BY MaxNestingAssumption
  <2>3. \A m \in U : m.arg \in Int
    BY <2>2, UnmarkedIsAny
  <2>4. only \in U
    <3> HIDE DEF U
    <3> QED  BY <1>2, <2>1
  <2>5. only.arg \in Int
    BY <2>3, <2>4
  <2>6. /\ "SET_ZERO" \in Kinds \ (ControlKinds \union MultiplyKinds)
        /\ "SCAN" \in Kinds \ (ControlKinds \union MultiplyKinds)
    BY DEF Kinds, ControlKinds, MultiplyKinds
  <2>7. ASSUME NEW arg \in Int
        PROVE  Plain("SET_ZERO", arg) \in Unmarked(h) /\ Plain("SCAN", arg) \in Unmarked(h)
    <3>1. <<>> \in Seq(Terms)  OBVIOUS
    <3> QED  BY <2>6, <3>1, SimpleIsSound
  <2>8. Plain("SET_ZERO", 0) \in Unmarked(h) /\ Plain("SCAN", only.arg) \in Unmarked(h)
    BY <2>5, <2>7
  <2>9. SetZero(n) = CASE only.kind = "ADD_DATA" /\ only.arg \in {-1, 1} -> Plain("SET_ZERO", 0)
                       [] only.kind = "ADD_PTR" -> Plain("SCAN", only.arg)
                       [] OTHER -> n
    BY <1>2 DEF SetZero
  <2> HIDE DEF only
  <2>10. CASE only.kind = "ADD_DATA" /\ only.arg \in {-1, 1}
    BY <2>8, <2>9, <2>10
  <2>11. CASE only.kind = "ADD_PTR"
    BY <2>8, <2>9, <2>11
  <2>12. CASE only.kind # "ADD_PTR" /\ ~(only.kind = "ADD_DATA" /\ only.arg \in {-1, 1})
    BY <2>9, <2>12
  <2> QED  BY <2>10, <2>11, <2>12
<1> QED  BY <1>1, <1>2

LEMMA ZeroingLoopKeeps ==
  ASSUME NEW h \in 1 .. MaxNesting, NEW n \in Unmarked(h)
  PROVE  ZeroingLoop(n) \in Unmarked(h)
<1>1. CASE ~IsZeroingLoop(n)
  BY <1>1 DEF ZeroingLoop
<1>2. CASE IsZeroingLoop(n)
  <2> DEFINE body == n.body
             offsets == OffsetsOf(body, StoreKinds)
             node == WithTerms("MULTI_ZERO", 0, ZeroTerms(<<0>> \o offsets))
             U == Unmarked(h - 1)
  <2>1. n.kind = "LOOP" /\ Len(body) >= 2
    BY <1>2 DEF IsZeroingLoop
  <2>2. body \in Seq(U)
    BY <2>1, BodyIsUnmarked DEF Unmarked
  <2>3. h - 1 \in 0 .. MaxNesting
    BY MaxNestingAssumption
  <2>4. \A m \in U : m.arg \in Int
    BY <2>3, UnmarkedIsAny
  <2>5. h - 1 \in 1 .. MaxNesting
    <3>1. body[1] \in U
      <4> HIDE DEF U, body
      <4> QED  BY <2>1, <2>2
    <3>2. h - 1 # 0
      BY <3>1, NodesUpToSteps DEF Sound, Unmarked
    <3> QED  BY <2>3, <3>2
  <2>6. offsets \in Seq(Int)
    <3> HIDE DEF U, body
    <3> QED  BY <2>2, <2>4, OffsetsOfType
  <2> HIDE DEF offsets
  <2>7. ZeroTerms(<<0>> \o offsets) \in Seq(Terms)
    <3>1. <<0>> \o offsets \in Seq(Int)  BY <2>6
    <3> QED  BY <3>1, ZeroTermsType
  <2>8. node \in U
    <3>1. "MULTI_ZERO" \in Kinds \ (ControlKinds \union MultiplyKinds)
      BY DEF Kinds, ControlKinds, MultiplyKinds
    <3> QED  BY <2>5, <2>7, <3>1, SimpleIsSound
  <2>9. ZeroingLoop(n) = Loop(<<node>>)
    BY <1>2 DEF ZeroingLoop, offsets
  <2> HIDE DEF node, U
  <2>10. <<node>> \in Seq(U)
    BY <2>8
  <2> DEFINE l == Loop(<<node>>)
  <2>11. l = [kind |-> "LOOP", arg |-> 0, body |-> <<node>>, terms |-> <<>>]
    BY DEF Loop, Plain
  <2>12. <<>> \in Seq(Terms)  OBVIOUS
  <2> HIDE DEF l
  <2>13. l \in Unmarked(h)
    <3>1. 0 \in Int  OBVIOUS
    <3> QED  BY <2>10, <2>11, <2>12, <3>1, LoopOverSound DEF U
  <2> QED  BY <2>9, <2>13 DEF l
<1> QED  BY <1>1, <1>2

LEMMA RecognizeMultiplyKeeps ==
  ASSUME NEW h \in 1 .. MaxNesting, NEW n \in Unmarked(h)
  PROVE  RecognizeMultiply(n) \in Unmarked(h)
<1>1. CASE ~IsMultiplyLoop(n)
  BY <1>1 DEF RecognizeMultiply
<1>2. CASE IsMultiplyLoop(n)
  <2> DEFINE terms == MultiplyTerms(n.body)
             node  == WithTerms("MULTIPLY_LOOP", 0, terms)
             U == Unmarked(h - 1)
             S == Sound(h - 1)
  <2>1. n.body \in Seq(U)
    BY <1>2, BodyIsUnmarked DEF Unmarked, IsMultiplyLoop
  <2>2. h - 1 \in 0 .. MaxNesting
    BY MaxNestingAssumption
  <2>3. \A m \in U : m.arg \in Int
    BY <2>2, UnmarkedIsAny
  <2>4. FitTerms(terms)
    <3> HIDE DEF U
    <3> QED  BY <2>1, <2>3, MultiplyTermsFit
  <2> HIDE DEF terms
  <2>5. node = [kind |-> "MULTIPLY_LOOP", arg |-> 0, body |-> <<>>, terms |-> terms]
    BY DEF WithTerms, Plain
  <2> HIDE DEF node
  <2>6. node.kind = "MULTIPLY_LOOP" /\ node.body = <<>> /\ node.terms = terms
    BY <2>5
  <2>7. TermsAreDistinct(node)
    <3>1. \A k \in DOMAIN terms : terms[k].offset # 0
      BY <2>4 DEF FitTerms
    <3>2. Distinct([k \in DOMAIN terms |-> terms[k].offset])
      BY <2>4 DEF FitTerms
    <3>3. 0 \notin TermOffsets(node)
      BY <2>6, <3>1 DEF TermOffsets
    <3> QED  BY <2>6, <3>2, <3>3 DEF TermsAreDistinct, IsInjective, Distinct
  <2>8. Justified(node)
    BY <2>6, <2>7 DEF Justified, IfIsJustified, NonnullIsFirst
  <2>9. node \in NodesOver(S)
    <3>1. <<>> \in Seq(S) /\ terms \in Seq(Terms)
      BY <2>4 DEF FitTerms
    <3> HIDE DEF S
    <3> QED  BY <2>5, <3>1 DEF NodesOver, Kinds
  <2>10. node \in Sound(h)
    BY <2>8, <2>9, SoundNode
  <2>11. RecognizeMultiply(n) = node
    BY <1>2 DEF RecognizeMultiply, node, terms
  <2> QED  BY <2>6, <2>10, <2>11 DEF Unmarked
<1> QED  BY <1>1, <1>2

LEMMA LoopToIfKeeps ==
  ASSUME NEW h \in 0 .. MaxNesting, NEW n \in Unmarked(h)
  PROVE  LoopToIf(n) \in Unmarked(h)
<1>1. CASE ~(n.kind = "LOOP" /\ LeavesOriginZero(n.body))
  BY <1>1 DEF LoopToIf
<1>2. CASE n.kind = "LOOP" /\ LeavesOriginZero(n.body)
  <2> DEFINE node == [n EXCEPT !.kind = "IF"]
             S == Sound(h - 1)
             U == Unmarked(h - 1)
  <2>1. h # 0
    BY NodesUpToSteps DEF Sound, Unmarked
  <2>2. h \in 1 .. MaxNesting  BY <2>1, MaxNestingAssumption
  <2>3. n \in NodesOver(S)
    BY <2>2, SoundNode DEF Unmarked
  <2>4. /\ node.kind = "IF" /\ node.body = n.body
        /\ node \in NodesOver(S)
    <3> HIDE DEF S
    <3> QED  BY <2>3 DEF NodesOver, Kinds
  <2>5. n.body \in Seq(U)
    BY <1>2, <2>2, BodyIsUnmarked DEF Unmarked
  <2>6. \A i \in DOMAIN n.body : n.body[i].kind # "NONNULL_MULTIPLY_LOOP"
    <3>1. \A m \in U : m.kind # "NONNULL_MULTIPLY_LOOP"  BY DEF Unmarked
    <3> HIDE DEF U
    <3> QED  BY <2>5, <3>1
  <2> HIDE DEF node
  <2>7. Justified(node)
    BY <1>2, <2>4, <2>6
       DEF Justified, TermsAreDistinct, IfIsJustified, NonnullIsFirst, MultiplyKinds
  <2>8. node \in Sound(h)
    BY <2>2, <2>4, <2>7, SoundNode
  <2> QED  BY <1>2, <2>4, <2>8 DEF LoopToIf, Unmarked, node
<1> QED  BY <1>1, <1>2

LEMMA LoopsToIfsKeeps ==
  ASSUME NEW h \in 0 .. MaxNesting, NEW block \in Seq(Unmarked(h))
  PROVE  LoopsToIfs(block) \in Seq(Unmarked(h))
<1> DEFINE U == Unmarked(h)
<1>1. \A n \in U : LoopToIf(n) \in U
  BY LoopToIfKeeps
<1> HIDE DEF U
<1>2. block \in Seq(U)
  BY DEF U
<1>3. \A i \in DOMAIN block : LoopToIf(block[i]) \in U
  BY <1>1, <1>2
<1>4. [i \in DOMAIN block |-> LoopToIf(block[i])] \in Seq(U)
  BY <1>2, <1>3
<1> QED  BY <1>4 DEF LoopsToIfs, U
-----------------------------------------------------------------------------
(* Marking the multiply loops that ifs begin with.                         *)

\* Two bodies that differ in no more than which of their multiply loops are marked.
Alike(a, b) ==
  /\ Len(a) = Len(b)
  /\ \A i \in DOMAIN a :
       /\ a[i].kind = b[i].kind \/ {a[i].kind, b[i].kind} \subseteq MultiplyKinds
       /\ a[i].arg = b[i].arg /\ a[i].terms = b[i].terms

\* The same is known of their origins.
LEMMA AlikeLeavesZero ==
  ASSUME NEW T, NEW a \in Seq(T), NEW b \in Seq(T), Alike(a, b), LeavesOriginZero(a)
  PROVE  LeavesOriginZero(b)
<1> DEFINE N  == Len(a)
           ka == OriginKnown(a)
           kb == OriginKnown(b)
<1>1. /\ N \in Nat /\ Len(b) = N
      /\ \A i \in 1 .. N :
           /\ a[i].kind = b[i].kind \/ {a[i].kind, b[i].kind} \subseteq MultiplyKinds
           /\ a[i].arg = b[i].arg /\ a[i].terms = b[i].terms
  BY DEF Alike
<1> HIDE DEF N
<1>2. \A i \in 1 .. N : Move(a[i]) = Move(b[i])
  BY <1>1 DEF Move, MultiplyKinds
<1>3. ASSUME NEW i \in 1 .. N + 1 PROVE OffsetAt(a, i) = OffsetAt(b, i)
  <2>1. \A k \in 1 .. i - 1 : Move(a[k]) = Move(b[k])
    <3>1. \A k \in 1 .. i - 1 : k \in 1 .. N  BY <1>1
    <3> QED  BY <1>2, <3>1
  <2>2. [k \in 1 .. i - 1 |-> Move(a[k])] = [k \in 1 .. i - 1 |-> Move(b[k])]
    BY <2>1
  <2> QED  BY <2>2 DEF OffsetAt
<1>4. ASSUME NEW i \in 1 .. N, NEW known, NEW at
      PROVE  KnownAfter(known, a[i], at) = KnownAfter(known, b[i], at)
  <2> DEFINE x == a[i]
             y == b[i]
  <2>1. /\ x.kind = y.kind \/ {x.kind, y.kind} \subseteq MultiplyKinds
        /\ x.arg = y.arg /\ x.terms = y.terms
    BY <1>1
  <2> HIDE DEF x, y
  <2>2. Touches(x, at) <=> Touches(y, at)
    BY <2>1 DEF Touches, TermOffsets
  <2>3. GivesUpAt(x, at) <=> GivesUpAt(y, at)
    BY <2>1, <2>2 DEF GivesUpAt, MultiplyKinds, ControlKinds
  <2>4. ZeroesOrigin(x, at) <=> ZeroesOrigin(y, at)
    BY <2>1, <2>2 DEF ZeroesOrigin, MultiplyKinds
  <2>5. x.kind = "SET_CONST" <=> y.kind = "SET_CONST"
    BY <2>1 DEF MultiplyKinds
  <2>6. KnownAfter(known, x, at) = KnownAfter(known, y, at)
    BY <2>3, <2>4, <2>5 DEF KnownAfter
  <2> QED  BY <2>6 DEF x, y
<1>5. /\ ka[0] = "unknown" /\ kb[0] = "unknown"
      /\ \A i \in 1 .. N : /\ ka[i] = KnownAfter(ka[i - 1], a[i], OffsetAt(a, i))
                           /\ kb[i] = KnownAfter(kb[i - 1], b[i], OffsetAt(b, i))
  BY <1>1, OriginKnownSteps DEF N
<1> HIDE DEF ka, kb
<1> DEFINE G == {i \in 0 .. N : ka[i] = kb[i]}
<1>6. 0 \in G
  BY <1>1, <1>5
<1>7. ASSUME NEW i \in 0 .. N - 1, i \in G PROVE i + 1 \in G
  <2>1. i + 1 \in 1 .. N /\ i + 1 - 1 = i /\ i + 1 \in 1 .. N + 1 /\ i + 1 \in 0 .. N
    BY <1>1
  <2> DEFINE j == i + 1
  <2>2. ka[j - 1] = kb[j - 1] /\ j \in 1 .. N /\ j \in 1 .. N + 1
    BY <1>7, <2>1
  <2> HIDE DEF j
  <2>3. ka[j] = kb[j]
    BY <1>3, <1>4, <1>5, <2>2
  <2> QED  BY <2>1, <2>3 DEF j
<1>8. N \in G
  <2> HIDE DEF G
  <2> QED  BY <1>1, <1>6, <1>7, InductionTo
<1>9. N + 1 \in 1 .. N + 1
  BY <1>1
<1>10. BlockDelta(a) = BlockDelta(b)
  BY <1>1, <1>3, <1>9 DEF BlockDelta, N
<1> QED  BY <1>1, <1>8, <1>10 DEF LeavesOriginZero, ka, kb, N

\* A multiply loop is as sound when it is marked.
LEMMA MarkedMultiply ==
  ASSUME NEW h \in 1 .. MaxNesting, NEW n \in Sound(h), n.kind = "MULTIPLY_LOOP"
  PROVE  [n EXCEPT !.kind = "NONNULL_MULTIPLY_LOOP"] \in Sound(h)
<1> DEFINE S == Sound(h - 1)
           m == [n EXCEPT !.kind = "NONNULL_MULTIPLY_LOOP"]
<1>1. n \in NodesOver(S) /\ Justified(n)
  BY SoundNode
<1>2. /\ m \in NodesOver(S)
      /\ m.kind = "NONNULL_MULTIPLY_LOOP" /\ m.body = n.body /\ m.terms = n.terms
  <2> HIDE DEF S
  <2> QED  BY <1>1 DEF NodesOver, Kinds
<1> HIDE DEF m
<1>3. Justified(m)
  <2>1. TermsAreDistinct(m)
    BY <1>1, <1>2 DEF Justified, TermsAreDistinct, MultiplyKinds, TermOffsets
  <2>2. IfIsJustified(m) /\ NonnullIsFirst(m)
    BY <1>1, <1>2 DEF Justified, IfIsJustified, NonnullIsFirst
  <2> QED  BY <2>1, <2>2 DEF Justified
<1>4. m \in Sound(h)
  BY <1>2, <1>3, SoundNode
<1> QED  BY <1>4 DEF m

\* A node whose body is replaced by one alike of sound nodes is as sound.
LEMMA AlikeBodyIsSound ==
  ASSUME NEW h \in 1 .. MaxNesting, NEW n \in Sound(h), NEW body \in Seq(Sound(h - 1)),
         Alike(n.body, body),
         \A i \in DOMAIN body : body[i].kind = "NONNULL_MULTIPLY_LOOP" =>
                                  n.body[i].kind = body[i].kind \/ (n.kind = "IF" /\ i = 1)
  PROVE  [n EXCEPT !.body = body] \in Sound(h)
<1> DEFINE S == Sound(h - 1)
           m == [n EXCEPT !.body = body]
<1>1. n \in NodesOver(S) /\ Justified(n)
  BY SoundNode
<1>2. /\ m \in NodesOver(S)
      /\ m.kind = n.kind /\ m.body = body /\ m.terms = n.terms
      /\ n.body \in Seq(S) /\ DOMAIN n.body = DOMAIN body
  <2>1. body \in Seq(S) /\ Len(n.body) = Len(body)  BY DEF Alike
  <2> HIDE DEF S
  <2>2. n.body \in Seq(S)  BY <1>1 DEF NodesOver
  <2>3. DOMAIN n.body = DOMAIN body
    <3> DEFINE b == n.body
    <3> HIDE DEF b
    <3>1. b \in Seq(S) /\ Len(b) = Len(body)  BY <2>1, <2>2 DEF b
    <3>2. DOMAIN b = DOMAIN body  BY <2>1, <3>1
    <3> QED  BY <3>2 DEF b
  <2>4. m \in NodesOver(S)
    BY <1>1, <2>1 DEF NodesOver
  <2>5. m.kind = n.kind /\ m.body = body /\ m.terms = n.terms
    BY <1>1 DEF NodesOver
  <2> QED  BY <2>2, <2>3, <2>4, <2>5
<1> HIDE DEF m
<1>3. Justified(m)
  <2>1. TermsAreDistinct(m)
    BY <1>1, <1>2 DEF Justified, TermsAreDistinct, TermOffsets
  <2>2. IfIsJustified(m)
    <3> HIDE DEF S
    <3>1. body \in Seq(S)  BY DEF S
    <3>2. LeavesOriginZero(n.body) => LeavesOriginZero(body)
      BY <1>2, <3>1, AlikeLeavesZero
    <3> QED  BY <1>1, <1>2, <3>2 DEF Justified, IfIsJustified
  <2>3. NonnullIsFirst(m)
    BY <1>1, <1>2 DEF Justified, NonnullIsFirst
  <2> QED  BY <2>1, <2>2, <2>3 DEF Justified
<1>4. m \in Sound(h)
  BY <1>2, <1>3, SoundNode
<1> QED  BY <1>4 DEF m

LEMMA MarkFirstKeeps ==
  ASSUME NEW h \in 1 .. MaxNesting, NEW n \in Sound(h)
  PROVE  /\ MarkFirst(n) \in Sound(h)
         /\ MarkFirst(n).kind = n.kind /\ MarkFirst(n).arg = n.arg
         /\ MarkFirst(n).terms = n.terms
<1> DEFINE S == Sound(h - 1)
           b == n.body
<1>1. n \in NodesOver(S) /\ b \in Seq(S)
  BY SoundNode DEF NodesOver
<1>2. CASE n.kind = "IF" /\ b # <<>> /\ b[1].kind = "MULTIPLY_LOOP"
  <2> DEFINE first == [b[1] EXCEPT !.kind = "NONNULL_MULTIPLY_LOOP"]
             body  == [b EXCEPT ![1] = first]
             m     == [n EXCEPT !.body = body]
  <2>1. b[1] \in S
    <3> HIDE DEF S, b
    <3> QED  BY <1>1, <1>2
  <2>2. h - 1 \in 1 .. MaxNesting
    <3>1. h - 1 # 0
      BY <2>1, NodesUpToSteps DEF Sound
    <3> QED  BY <3>1, MaxNestingAssumption
  <2>3. first \in S
    BY <1>2, <2>1, <2>2, MarkedMultiply
  <2>4. /\ first.kind = "NONNULL_MULTIPLY_LOOP" /\ first.arg = b[1].arg
        /\ first.terms = b[1].terms
    <3> DEFINE x == b[1]
    <3>1. x \in NodesOver(Sound(h - 1 - 1))
      BY <2>1, <2>2, SoundNode
    <3> HIDE DEF x
    <3>2. /\ [x EXCEPT !.kind = "NONNULL_MULTIPLY_LOOP"].kind = "NONNULL_MULTIPLY_LOOP"
          /\ [x EXCEPT !.kind = "NONNULL_MULTIPLY_LOOP"].arg = x.arg
          /\ [x EXCEPT !.kind = "NONNULL_MULTIPLY_LOOP"].terms = x.terms
      BY <3>1 DEF NodesOver
    <3> QED  BY <3>2 DEF x
  <2>5. /\ body \in Seq(S) /\ Len(body) = Len(b) /\ DOMAIN body = DOMAIN b
        /\ body[1] = first /\ \A i \in DOMAIN b : i # 1 => body[i] = b[i]
    <3> HIDE DEF S, b, first
    <3> QED  BY <1>1, <1>2, <2>3
  <2> HIDE DEF body
  <2>6. Alike(b, body)
    <3>1. ASSUME NEW i \in DOMAIN b
          PROVE  /\ b[i].kind = body[i].kind \/ {b[i].kind, body[i].kind} \subseteq MultiplyKinds
                 /\ b[i].arg = body[i].arg /\ b[i].terms = body[i].terms
      <4>1. CASE i = 1
        BY <1>2, <2>4, <2>5, <4>1 DEF MultiplyKinds
      <4>2. CASE i # 1
        BY <2>5, <4>2
      <4> QED  BY <4>1, <4>2
    <3> QED  BY <2>5, <3>1 DEF Alike
  <2>7. m \in Sound(h)
    <3>1. \A i \in DOMAIN body : n.body[i].kind = body[i].kind \/ (n.kind = "IF" /\ i = 1)
      BY <1>2, <2>5
    <3> QED  BY <2>5, <2>6, <3>1, AlikeBodyIsSound
  <2>8. m.kind = n.kind /\ m.arg = n.arg /\ m.terms = n.terms
    BY <1>1 DEF NodesOver
  <2>9. MarkFirst(n) = m
    <3>1. MarkFirst(n)
            = [n EXCEPT !.body = [b EXCEPT ![1] = [b[1] EXCEPT !.kind = "NONNULL_MULTIPLY_LOOP"]]]
      BY <1>2 DEF MarkFirst
    <3> QED  BY <3>1 DEF body
  <2> QED  BY <2>7, <2>8, <2>9
<1>3. CASE ~(n.kind = "IF" /\ b # <<>> /\ b[1].kind = "MULTIPLY_LOOP")
  BY <1>3 DEF MarkFirst
<1> QED  BY <1>2, <1>3

\* The nodes of a block with the bodies that f has for theirs, each marked.
MarkedWith(f, block) ==
  [i \in DOMAIN block |->
     MarkFirst(IF block[i].kind \in ControlKinds
               THEN [block[i] EXCEPT !.body = f[block[i].body]] ELSE block[i])]

\* Marking takes no node from one level to another.
LEMMA MarkFirstNests ==
  ASSUME NEW h \in Nat, NEW n \in NodesUpTo[h]
  PROVE  MarkFirst(n) \in NodesUpTo[h]
<1> DEFINE S == NodesUpTo[h - 1]
           b == n.body
<1>0. h - 1 \in Nat
  BY NodesNest
<1>1. NodesUpTo[h] = NodesOver(S) /\ b \in Seq(S)
  <2>1. h \in Nat \ {0}  BY <1>0
  <2> QED  BY <2>1, NodesUpToSteps, NodesNest
<1>2. CASE n.kind = "IF" /\ b # <<>> /\ b[1].kind = "MULTIPLY_LOOP"
  <2> DEFINE first == [b[1] EXCEPT !.kind = "NONNULL_MULTIPLY_LOOP"]
             body  == [b EXCEPT ![1] = first]
  <2>1. b[1] \in S
    <3> HIDE DEF S, b
    <3> QED  BY <1>1, <1>2
  <2>2. first \in S
    <3> DEFINE x == b[1]
    <3>1. h - 1 \in Nat \ {0}
      <4>1. h - 1 # 0  BY <2>1, NodesUpToSteps
      <4> QED  BY <1>0, <4>1
    <3>2. S = NodesOver(NodesUpTo[h - 1 - 1])
      BY <3>1, NodesUpToSteps
    <3>3. x \in NodesOver(NodesUpTo[h - 1 - 1])
      BY <2>1, <3>2
    <3> HIDE DEF x
    <3>4. [x EXCEPT !.kind = "NONNULL_MULTIPLY_LOOP"] \in NodesOver(NodesUpTo[h - 1 - 1])
      BY <3>3 DEF NodesOver, Kinds
    <3> QED  BY <3>2, <3>4 DEF x
  <2>3. body \in Seq(S)
    <3> HIDE DEF S, b, first
    <3> QED  BY <1>1, <1>2, <2>2
  <2>4. MarkFirst(n) = [n EXCEPT !.body = body]
    BY <1>2 DEF MarkFirst
  <2> HIDE DEF body
  <2>5. [n EXCEPT !.body = body] \in NodesOver(S)
    <3> HIDE DEF S
    <3> QED  BY <1>1, <2>3 DEF NodesOver
  <2> QED  BY <1>1, <2>4, <2>5
<1>3. CASE ~(n.kind = "IF" /\ b # <<>> /\ b[1].kind = "MULTIPLY_LOOP")
  BY <1>3 DEF MarkFirst
<1> QED  BY <1>2, <1>3

\* The function that marks blocks exists: it leads from no level to a higher one.
IsMarking(f) == f = [b \in Seq(AnyNode) |-> MarkedWith(f, b)]

LEMMA MarkingExists == \E f : IsMarking(f)
<1> DEFINE D == Seq(AnyNode)
           clamped(f, b) == IF MarkedWith(f, b) \in D THEN MarkedWith(f, b) ELSE <<>>
           h == [b \in D |-> Height(b)]
           G == [f \in [D -> D] |-> [b \in D |-> clamped(f, b)]]
<1>0. MaxNesting \in Nat
  BY MaxNestingAssumption
<1>1. \A b \in D : /\ Height(b) \in Nat
                   /\ \A i \in DOMAIN b : /\ b[i].body \in D
                                          /\ Height(b[i].body) < Height(b)
  BY <1>0, HeightFalls
<1>2. ASSUME NEW f \in [D -> D], NEW g \in [D -> D], NEW b \in D,
             \A c \in D : h[c] < h[b] => f[c] = g[c]
      PROVE  G[f][b] = G[g][b]
  <2> HIDE DEF D
  <2>1. \A i \in DOMAIN b : f[b[i].body] = g[b[i].body]
    BY <1>1, <1>2
  <2>2. MarkedWith(f, b) = MarkedWith(g, b)
    <3>1. \A i \in DOMAIN b :
            (IF b[i].kind \in ControlKinds
             THEN [b[i] EXCEPT !.body = f[b[i].body]] ELSE b[i])
            = (IF b[i].kind \in ControlKinds
               THEN [b[i] EXCEPT !.body = g[b[i].body]] ELSE b[i])
      BY <2>1
    <3>2. \A i \in DOMAIN b :
            MarkFirst(IF b[i].kind \in ControlKinds
                      THEN [b[i] EXCEPT !.body = f[b[i].body]] ELSE b[i])
            = MarkFirst(IF b[i].kind \in ControlKinds
                        THEN [b[i] EXCEPT !.body = g[b[i].body]] ELSE b[i])
      BY <3>1
    <3> QED  BY <3>2 DEF MarkedWith
  <2> QED  BY <2>2
<1>3. Descends(G, h, D, D)
  <2>0. <<>> \in D  OBVIOUS
  <2> HIDE DEF D
  <2>1. [b \in D |-> <<>>] \in [D -> D]  BY <2>0
  <2>2. h \in [D -> Nat]  BY <1>1
  <2>3. G \in [[D -> D] -> [D -> D]]
    BY <2>0
  <2> HIDE DEF G, h
  <2> QED  BY <1>2, <2>1, <2>2, <2>3 DEF Descends
<1>4. PICK f : IsFixpoint(f, G, D, D)
  <2> HIDE DEF G, h, D
  <2> QED  BY <1>3, RecursionByHeight
<1>5. f \in [D -> D] /\ \A b \in D : f[b] = clamped(f, b)
  <2>1. f \in [D -> D] /\ G[f] = f  BY <1>4 DEF IsFixpoint
  <2> HIDE DEF clamped, D
  <2>2. G[f] = [b \in D |-> clamped(f, b)]  BY <2>1
  <2> QED  BY <2>1, <2>2
<1> HIDE DEF G, h
<1> DEFINE Right(k) == \A b \in Seq(NodesUpTo[k]) :
                         f[b] = MarkedWith(f, b) /\ f[b] \in Seq(NodesUpTo[k])
           R == {k \in 0 .. MaxNesting : Right(k)}
<1>6. ASSUME NEW k \in 0 .. MaxNesting, k = 0 \/ k - 1 \in R PROVE k \in R
  <2> DEFINE U == NodesUpTo[k]
  <2> SUFFICES ASSUME NEW b \in Seq(U)
               PROVE  f[b] = MarkedWith(f, b) /\ f[b] \in Seq(U)
    OBVIOUS
  <2>1. b \in D /\ Seq(U) \subseteq D
    BY <1>0, LevelsGrow DEF AnyNode
  <2>2. ASSUME NEW i \in DOMAIN b PROVE MarkedWith(f, b)[i] \in U
    <3> DEFINE n == b[i]
               m == [n EXCEPT !.body = f[n.body]]
               V == NodesUpTo[k - 1]
    <3>1. n \in U
      <4> HIDE DEF U
      <4> QED  BY <2>2
    <3>2. k # 0
      BY <3>1, NodesUpToSteps
    <3>3. k \in Nat \ {0} /\ k - 1 \in R
      BY <1>0, <1>6, <3>2
    <3>4. U = NodesOver(V) /\ n.body \in Seq(V)
      BY <3>1, <3>3, NodesUpToSteps, NodesNest
    <3>5. f[n.body] \in Seq(V)
      BY <3>3, <3>4
    <3>6. m \in U
      <4> HIDE DEF n, V, U
      <4>1. n \in NodesOver(V) /\ f[n.body] \in Seq(V)  BY <3>1, <3>4, <3>5
      <4>2. m \in NodesOver(V)  BY <4>1 DEF NodesOver
      <4> QED  BY <3>4, <4>2
    <3>7. MarkFirst(n) \in U /\ MarkFirst(m) \in U
      <4> HIDE DEF n, m
      <4> QED  BY <3>1, <3>3, <3>6, MarkFirstNests
    <3>8. MarkedWith(f, b)[i] = MarkFirst(n) \/ MarkedWith(f, b)[i] = MarkFirst(m)
      <4>1. MarkedWith(f, b)[i] = MarkFirst(IF n.kind \in ControlKinds THEN m ELSE n)
        BY <2>2 DEF MarkedWith
      <4> HIDE DEF m, n
      <4> QED  BY <4>1
    <3> QED  BY <3>7, <3>8
  <2>3. MarkedWith(f, b) \in Seq(U)
    <3> DEFINE c == MarkedWith(f, b)
    <3>1. c = [i \in DOMAIN b |-> c[i]]  BY DEF MarkedWith
    <3>2. \A i \in DOMAIN b : c[i] \in U  BY <2>2
    <3> HIDE DEF c, U
    <3>3. DOMAIN b = 1 .. Len(b) /\ Len(b) \in Nat  OBVIOUS
    <3>4. c \in Seq(U)  BY <3>1, <3>2, <3>3
    <3> QED  BY <3>4 DEF c
  <2>4. MarkedWith(f, b) \in D
    <3> HIDE DEF U, D
    <3> QED  BY <2>1, <2>3
  <2>5. f[b] = MarkedWith(f, b)
    <3> HIDE DEF D
    <3> QED  BY <1>5, <2>1, <2>4
  <2> QED  BY <2>3, <2>5
<1>7. MaxNesting \in R
  <2>1. 0 \in R
    <3>1. 0 \in 0 .. MaxNesting  BY <1>0
    <3> HIDE DEF R
    <3> QED  BY <1>6, <3>1
  <2>2. ASSUME NEW k \in 0 .. MaxNesting - 1, k \in R PROVE k + 1 \in R
    <3>1. k + 1 \in 0 .. MaxNesting /\ k + 1 - 1 = k  BY <1>0
    <3> HIDE DEF R
    <3> QED  BY <1>6, <2>2, <3>1
  <2> HIDE DEF R
  <2> QED  BY <1>0, <2>1, <2>2, InductionTo
<1>8. \A b \in D : f[b] = MarkedWith(f, b)
  BY <1>7 DEF AnyNode
<1>9. IsMarking(f)
  <2>1. f = [b \in D |-> f[b]]  BY <1>5
  <2> QED  BY <1>8, <2>1 DEF IsMarking
<1> QED  BY <1>9

\* Marking keeps blocks sound, and changes no more of their own nodes than a body.
LEMMA MarkNonnullSteps ==
  ASSUME NEW h \in 0 .. MaxNesting, NEW block \in Seq(Sound(h))
  PROVE  /\ MarkNonnull(block) \in Seq(Sound(h)) /\ Len(MarkNonnull(block)) = Len(block)
         /\ \A i \in DOMAIN block : MarkNonnull(block)[i].kind = block[i].kind
<1> DEFINE marked == CHOOSE f : IsMarking(f)
           Same(b, c) ==
             /\ Len(b) = Len(c)
             /\ \A i \in DOMAIN b :
                  b[i].kind = c[i].kind /\ b[i].arg = c[i].arg /\ b[i].terms = c[i].terms
           Right(k) == \A b \in Seq(Sound(k)) : marked[b] \in Seq(Sound(k)) /\ Same(b, marked[b])
           R == {k \in 0 .. h : Right(k)}
<1>0. h \in Nat /\ MaxNesting \in Nat
  BY MaxNestingAssumption
<1>1. IsMarking(marked)
  BY MarkingExists
<1>2. MarkNonnull(block) = marked[block]
  BY DEF MarkNonnull, MarkEach, IsMarking, MarkedWith
<1> HIDE DEF marked
<1>3. \A b \in Seq(AnyNode) : marked[b] = MarkedWith(marked, b)
  BY <1>1 DEF IsMarking
<1>4. ASSUME NEW k \in 0 .. h, k = 0 \/ k - 1 \in R PROVE k \in R
  <2> DEFINE S == Sound(k)
  <2>1. k \in 0 .. MaxNesting  BY <1>0
  <2> SUFFICES ASSUME NEW b \in Seq(S)
               PROVE  marked[b] \in Seq(S) /\ Same(b, marked[b])
    OBVIOUS
  <2> DEFINE c == marked[b]
  <2>2. c = MarkedWith(marked, b)
    BY <1>3, <2>1, SoundIsAny
  <2>3. DOMAIN c = DOMAIN b
    BY <2>2 DEF MarkedWith
  <2>4. ASSUME NEW i \in DOMAIN b
        PROVE  /\ c[i] \in S
               /\ b[i].kind = c[i].kind /\ b[i].arg = c[i].arg /\ b[i].terms = c[i].terms
    <3> DEFINE n == b[i]
               body == marked[n.body]
               m == [n EXCEPT !.body = body]
    <3>1. n \in S
      <4> HIDE DEF S
      <4> QED  BY <2>4
    <3>2. k # 0
      BY <3>1, NodesUpToSteps DEF Sound
    <3>3. k \in 1 .. MaxNesting /\ k - 1 \in R
      BY <1>0, <1>4, <3>2
    <3>4. n \in NodesOver(Sound(k - 1)) /\ n.body \in Seq(Sound(k - 1)) /\ Justified(n)
      BY <3>1, <3>3, SoundNode DEF NodesOver
    <3>5. body \in Seq(Sound(k - 1)) /\ Same(n.body, body)
      BY <3>3, <3>4
    <3>6. m \in S
      <4>1. Alike(n.body, body)  BY <3>5 DEF Alike
      <4>2. \A j \in DOMAIN body : n.body[j].kind = body[j].kind
        <5> DEFINE x == n.body
                   T == Sound(k - 1)
        <5> HIDE DEF x, body, T
        <5>1. x \in Seq(T) /\ body \in Seq(T) /\ Same(x, body)  BY <3>4, <3>5 DEF x, T
        <5>2. DOMAIN x = DOMAIN body  BY <5>1
        <5> QED  BY <5>1, <5>2 DEF x
      <4> HIDE DEF body, n
      <4> QED  BY <3>1, <3>3, <3>5, <4>1, <4>2, AlikeBodyIsSound
    <3>7. m.kind = n.kind /\ m.arg = n.arg /\ m.terms = n.terms
      BY <3>4 DEF NodesOver
    <3>8. c[i] = MarkFirst(IF n.kind \in ControlKinds THEN m ELSE n)
      BY <2>2, <2>4 DEF MarkedWith
    <3> HIDE DEF m, n, S, c
    <3>9. PICK o \in {m, n} : c[i] = MarkFirst(o)
      BY <3>8
    <3>10. o \in S /\ o.kind = n.kind /\ o.arg = n.arg /\ o.terms = n.terms
      BY <3>1, <3>6, <3>7
    <3>11. /\ MarkFirst(o) \in S
           /\ MarkFirst(o).kind = o.kind /\ MarkFirst(o).arg = o.arg
           /\ MarkFirst(o).terms = o.terms
      BY <3>3, <3>10, MarkFirstKeeps DEF S
    <3> QED  BY <3>9, <3>10, <3>11 DEF n
  <2>5. c = [i \in DOMAIN b |-> c[i]]
    BY <2>2 DEF MarkedWith
  <2> HIDE DEF c, S
  <2>6. DOMAIN b = 1 .. Len(b) /\ Len(b) \in Nat
    OBVIOUS
  <2>7. c \in Seq(S) /\ Len(c) = Len(b)
    BY <2>4, <2>5, <2>6
  <2> QED  BY <2>4, <2>7 DEF c
<1>5. h \in R
  <2>1. 0 \in R
    <3>1. 0 \in 0 .. h  BY <1>0
    <3> HIDE DEF R
    <3> QED  BY <1>4, <3>1
  <2>2. ASSUME NEW k \in 0 .. h - 1, k \in R PROVE k + 1 \in R
    <3>1. k + 1 \in 0 .. h /\ k + 1 - 1 = k  BY <1>0
    <3> HIDE DEF R
    <3> QED  BY <1>4, <2>2, <3>1
  <2> HIDE DEF R
  <2> QED  BY <1>0, <2>1, <2>2, InductionTo
<1> QED  BY <1>2, <1>5

LEMMA MarkNonnullKeeps ==
  ASSUME NEW h \in 0 .. MaxNesting, NEW block \in Seq(Unmarked(h))
  PROVE  MarkNonnull(block) \in Seq(Unmarked(h))
<1> DEFINE U == Unmarked(h)
           S == Sound(h)
           c == MarkNonnull(block)
<1>1. block \in Seq(S)
  BY UnmarkedIsAny
<1>2. c \in Seq(S) /\ Len(c) = Len(block) /\ \A i \in DOMAIN block : c[i].kind = block[i].kind
  BY <1>1, MarkNonnullSteps
<1>3. \A n \in S : n \in U <=> n.kind # "NONNULL_MULTIPLY_LOOP"
  BY DEF Unmarked
<1>4. \A n \in U : n \in S
  BY DEF Unmarked
<1> HIDE DEF U, S, c
<1>5. block \in Seq(U)
  BY DEF U
<1>6. \A i \in DOMAIN block : block[i] \in U /\ block[i].kind # "NONNULL_MULTIPLY_LOOP"
  BY <1>3, <1>4, <1>5
<1>7. DOMAIN c = DOMAIN block
  BY <1>2, <1>5
<1>8. c \in Seq(U)
  BY <1>2, <1>3, <1>6, <1>7
<1> QED  BY <1>8 DEF c, U
-----------------------------------------------------------------------------
(***************************************************************************)
(* The inductive invariant.  Each invocation's block is one the passes may *)
(* start from, of the level that its place on the stack leaves it; all but *)
(* the top one's wait at a LOOP for its body, and the top one is at a node *)
(* in the passes over a node.                                              *)
(***************************************************************************)
PassesAtNode == {"set zero", "zeroing loop", "multiply loop"}

Passes ==
  PassesAtNode \union
    {"visit", "fold set const", "dead stores 1", "scan return", "multi zero", "dead stores 2",
     "loops to ifs", "dead stores 3", "mark nonnull", "done"}

Level(i) == MaxNesting + 1 - i

Frame == [block : Seq(AnyNode), index : Nat \ {0}, pass : Passes]

Waits(f) ==
  f.index \in DOMAIN f.block /\ f.block[f.index].kind = "LOOP" /\ f.pass = "set zero"

FrameOK(f, h) ==
  /\ f \in Frame
  /\ f.block \in Seq(Unmarked(h))
  /\ f.pass \in PassesAtNode => f.index \in DOMAIN f.block

StackOK(stack) ==
  /\ stack \in Seq(Frame) /\ Len(stack) \in 1 .. MaxNesting + 1
  /\ \A i \in 1 .. Len(stack) : FrameOK(stack[i], Level(i))
  /\ \A i \in 1 .. Len(stack) - 1 : Waits(stack[i])

Inv == StackOK(frames)

LEMMA LevelType ==
  ASSUME NEW i \in 1 .. MaxNesting + 1
  PROVE  /\ Level(i) \in 0 .. MaxNesting /\ Level(i) \in Nat
         /\ Level(i) - 1 = Level(i + 1)
         /\ Level(i) # 0 => Level(i) \in 1 .. MaxNesting /\ i + 1 \in 1 .. MaxNesting + 1
  BY MaxNestingAssumption DEF Level

\* Where some node is, the level is not the lowest.
LEMMA NodesAreAbove ==
  ASSUME NEW h \in 0 .. MaxNesting, NEW n \in Unmarked(h)
  PROVE  h \in 1 .. MaxNesting
<1>1. h # 0
  BY NodesUpToSteps DEF Sound, Unmarked
<1> QED  BY <1>1, MaxNestingAssumption

\* The top of the stack gives way to another frame.
LEMMA ReplaceTop ==
  ASSUME NEW stack, StackOK(stack), NEW f, FrameOK(f, Level(Len(stack)))
  PROVE  StackOK([stack EXCEPT ![Len(stack)] = f])
<1> DEFINE n == Len(stack)
           s == [stack EXCEPT ![n] = f]
<1>1. /\ stack \in Seq(Frame) /\ n \in 1 .. MaxNesting + 1 /\ n \in Nat /\ n >= 1
      /\ f \in Frame
  BY DEF StackOK, FrameOK
<1>2. /\ s \in Seq(Frame) /\ Len(s) = n /\ s[n] = f
      /\ \A i \in 1 .. n : i # n => s[i] = stack[i]
  BY <1>1
<1>3. \A i \in 1 .. n : FrameOK(s[i], Level(i))
  BY <1>2 DEF StackOK
<1>4. \A i \in 1 .. n - 1 : Waits(s[i])
  <2>1. \A i \in 1 .. n - 1 : i \in 1 .. n /\ i # n  BY <1>1
  <2> QED  BY <1>2, <2>1 DEF StackOK
<1> HIDE DEF s
<1>5. StackOK(s)
  BY <1>1, <1>2, <1>3, <1>4 DEF StackOK
<1> QED  BY <1>5 DEF s

\* The top frame of a stack, and the frame below it.
LEMMA TopType ==
  ASSUME NEW stack, StackOK(stack)
  PROVE  LET top == stack[Len(stack)]
             h   == Level(Len(stack))
         IN  /\ Len(stack) \in 1 .. MaxNesting + 1 /\ h \in 0 .. MaxNesting
             /\ FrameOK(top, h)
             /\ top.block \in Seq(Unmarked(h)) /\ top.index \in Nat \ {0}
             /\ top = [block |-> top.block, index |-> top.index, pass |-> top.pass]
             /\ top.index \in DOMAIN top.block =>
                  top.block[top.index] \in Unmarked(h) /\ h \in 1 .. MaxNesting
<1> DEFINE top == stack[Len(stack)]
           h   == Level(Len(stack))
<1>1. Len(stack) \in 1 .. MaxNesting + 1 /\ Len(stack) \in 1 .. Len(stack)
  BY DEF StackOK
<1>2. h \in 0 .. MaxNesting
  BY <1>1, LevelType
<1>3. FrameOK(top, h)
  BY <1>1 DEF StackOK
<1> HIDE DEF top, h
<1>4. top \in Frame /\ top.block \in Seq(Unmarked(h))
  BY <1>3 DEF FrameOK
<1>5. /\ top.index \in Nat \ {0}
      /\ top = [block |-> top.block, index |-> top.index, pass |-> top.pass]
  BY <1>4 DEF Frame
<1>6. top.index \in DOMAIN top.block =>
        top.block[top.index] \in Unmarked(h) /\ h \in 1 .. MaxNesting
  <2> DEFINE b == top.block
             U == Unmarked(h)
  <2> HIDE DEF b, U
  <2>1. b \in Seq(U)  BY <1>4 DEF b, U
  <2>2. top.index \in DOMAIN b => b[top.index] \in U  BY <2>1
  <2> QED  BY <1>2, <2>2, NodesAreAbove DEF b, U
<1> QED  BY <1>1, <1>2, <1>3, <1>4, <1>5, <1>6 DEF top, h

\* A frame with another block, at another pass.
LEMMA OtherFrame ==
  ASSUME NEW h \in 0 .. MaxNesting, NEW b \in Seq(Unmarked(h)), NEW i \in Nat \ {0},
         NEW pass \in Passes, pass \in PassesAtNode => i \in DOMAIN b
  PROVE  FrameOK([block |-> b, index |-> i, pass |-> pass], h)
<1>1. b \in Seq(AnyNode)
  BY UnmarkedIsAny
<1> QED  BY <1>1 DEF FrameOK, Frame

\* An invocation for the body of the LOOP that the top one is at.
LEMMA Push ==
  ASSUME NEW stack, StackOK(stack), Waits(stack[Len(stack)])
  PROVE  LET top == stack[Len(stack)]
         IN  StackOK(Append(stack, Invocation(top.block[top.index].body)))
<1> DEFINE n   == Len(stack)
           top == stack[n]
           h   == Level(n)
           node == top.block[top.index]
           new == Invocation(node.body)
           s   == Append(stack, new)
<1>1. /\ stack \in Seq(Frame) /\ n \in 1 .. MaxNesting + 1
      /\ node \in Unmarked(h) /\ h \in 1 .. MaxNesting /\ node.kind = "LOOP"
  BY TopType DEF StackOK, Waits
<1>2. h - 1 = Level(n + 1) /\ n + 1 \in 1 .. MaxNesting + 1 /\ h - 1 \in 0 .. MaxNesting
  BY <1>1, LevelType, MaxNestingAssumption
<1>3. node.body \in Seq(Unmarked(h - 1))
  BY <1>1, BodyIsUnmarked DEF Unmarked
<1> HIDE DEF node, h
<1>4. FrameOK(new, Level(n + 1))
  <2>1. 1 \in Nat \ {0} /\ "visit" \in Passes /\ "visit" \notin PassesAtNode
    BY DEF PassesAtNode, Passes
  <2> QED  BY <1>2, <1>3, <2>1, OtherFrame DEF Invocation
<1> HIDE DEF new
<1>5. /\ s \in Seq(Frame) /\ Len(s) = n + 1 /\ s[n + 1] = new
      /\ \A i \in 1 .. n : s[i] = stack[i]
  <2>1. new \in Frame  BY <1>4 DEF FrameOK
  <2> QED  BY <1>1, <2>1
<1>6. ASSUME NEW i \in 1 .. n + 1 PROVE FrameOK(s[i], Level(i))
  <2>1. i \in 1 .. n \/ i = n + 1  BY <1>1
  <2> QED  BY <1>4, <1>5, <2>1 DEF StackOK
<1>7. ASSUME NEW i \in 1 .. n + 1 - 1 PROVE Waits(s[i])
  <2>1. i \in 1 .. n /\ (i = n \/ i \in 1 .. n - 1)  BY <1>1
  <2> QED  BY <1>5, <2>1 DEF StackOK
<1> HIDE DEF s
<1>8. StackOK(s)
  BY <1>2, <1>5, <1>6, <1>7 DEF StackOK
<1> QED  BY <1>8 DEF s, new, node

\* An invocation returns: its block is the body of the LOOP the one below is at.
LEMMA NewBody ==
  ASSUME NEW h \in 1 .. MaxNesting, NEW block \in Seq(Unmarked(h)), NEW i \in DOMAIN block,
         block[i].kind = "LOOP", NEW body \in Seq(Unmarked(h - 1))
  PROVE  [block EXCEPT ![i].body = body] \in Seq(Unmarked(h))
<1> DEFINE U == Unmarked(h)
           n == block[i]
           m == [n EXCEPT !.body = body]
<1>1. n \in U
  <2> HIDE DEF U
  <2>1. block \in Seq(U)  BY DEF U
  <2> QED  BY <2>1
<1>2. n \in NodesOver(Sound(h - 1)) /\ n.kind = "LOOP"
  BY <1>1, SoundNode DEF Unmarked
<1> HIDE DEF n
<1>3. /\ n.arg \in Int /\ n.terms \in Seq(Terms)
      /\ m = [kind |-> "LOOP", arg |-> n.arg, body |-> body, terms |-> n.terms]
  <2>1. /\ n.arg \in Int /\ n.terms \in Seq(Terms)
        /\ n = [kind |-> "LOOP", arg |-> n.arg, body |-> n.body, terms |-> n.terms]
    BY <1>2 DEF NodesOver
  <2>2. m = [kind |-> "LOOP", arg |-> n.arg, body |-> body, terms |-> n.terms]
    BY <2>1
  <2> QED  BY <2>1, <2>2
<1> HIDE DEF m
<1>4. m \in U
  BY <1>3, LoopOverSound
<1>5. [block EXCEPT ![i].body = body] = [block EXCEPT ![i] = m]
  BY DEF m, n
<1> HIDE DEF U
<1>6. block \in Seq(U)
  BY DEF U
<1>7. [block EXCEPT ![i] = m] \in Seq(U)
  BY <1>4, <1>6
<1> QED  BY <1>5, <1>7 DEF U

LEMMA Pop ==
  ASSUME NEW stack, StackOK(stack), Len(stack) # 1,
         NEW body \in Seq(Unmarked(Level(Len(stack))))
  PROVE  LET below == Len(stack) - 1
         IN  StackOK([SubSeq(stack, 1, below) EXCEPT
                        ![below].block[stack[below].index].body = body])
<1> DEFINE below == Len(stack) - 1
           rest  == SubSeq(stack, 1, below)
           top   == stack[below]
           h     == Level(below)
           new   == [top EXCEPT !.block = [@ EXCEPT ![top.index].body = body]]
<1>1. /\ stack \in Seq(Frame) /\ Len(stack) \in 1 .. MaxNesting + 1
      /\ below \in 1 .. MaxNesting + 1 /\ below \in 1 .. Len(stack)
      /\ below \in 1 .. Len(stack) - 1 /\ below + 1 = Len(stack)
  <2> DEFINE n == Len(stack)
  <2>1. stack \in Seq(Frame) /\ n \in 1 .. MaxNesting + 1 /\ n # 1  BY DEF StackOK
  <2> HIDE DEF n
  <2>2. /\ n - 1 \in 1 .. MaxNesting + 1 /\ n - 1 \in 1 .. n
        /\ n - 1 \in 1 .. n - 1 /\ n - 1 + 1 = n
    BY <2>1, MaxNestingAssumption
  <2> QED  BY <2>1, <2>2 DEF n
<1>2. /\ rest \in Seq(Frame) /\ Len(rest) = below
      /\ \A i \in 1 .. below : rest[i] = stack[i] /\ i \in 1 .. Len(stack)
  BY <1>1
<1>3. StackOK(rest)
  <2>1. \A i \in 1 .. below - 1 : i \in 1 .. below /\ i \in 1 .. Len(stack) - 1
    BY <1>1
  <2> HIDE DEF rest, below
  <2> QED  BY <1>1, <1>2, <2>1 DEF StackOK
<1>4. Waits(top) /\ rest[Len(rest)] = top
  BY <1>1, <1>2 DEF StackOK
<1>5. top \in Frame
  <2> HIDE DEF below
  <2> QED  BY <1>1
<1> HIDE DEF rest, top
<1>6. /\ h \in 1 .. MaxNesting /\ top.block \in Seq(Unmarked(h))
      /\ top.index \in DOMAIN top.block /\ top.block[top.index].kind = "LOOP"
      /\ top.index \in Nat \ {0} /\ top.pass = "set zero"
      /\ top = [block |-> top.block, index |-> top.index, pass |-> top.pass]
  BY <1>2, <1>3, <1>4, TopType DEF Waits
<1>7. body \in Seq(Unmarked(h - 1))
  BY <1>1, LevelType
<1> HIDE DEF h
<1> DEFINE b == [top.block EXCEPT ![top.index].body = body]
<1>8. b \in Seq(Unmarked(h))
  BY <1>6, <1>7, NewBody
<1>9. top.index \in DOMAIN b
  BY <1>6
<1> HIDE DEF b
<1>10. new = [block |-> b, index |-> top.index, pass |-> "set zero"]
  <2>1. new = [top EXCEPT !.block = b]  BY DEF b
  <2>2. top \in Frame /\ top.pass = "set zero"
    BY <1>6, <1>5
  <2> HIDE DEF new
  <2> QED  BY <2>1, <2>2 DEF Frame
<1>11. FrameOK(new, h)
  <2>1. "set zero" \in Passes  BY DEF Passes, PassesAtNode
  <2>2. h \in 1 .. MaxNesting /\ top.index \in Nat \ {0}  BY <1>6
  <2>3. h \in 0 .. MaxNesting  BY <2>2, MaxNestingAssumption
  <2> HIDE DEF new
  <2> QED  BY <1>8, <1>9, <1>10, <2>1, <2>2, <2>3, OtherFrame
<1>12. StackOK([rest EXCEPT ![below] = new])
  BY <1>2, <1>3, <1>11, ReplaceTop DEF h
<1>13. [rest EXCEPT ![below].block[top.index].body = body] = [rest EXCEPT ![below] = new]
  <2>1. rest[below] = top  BY <1>2, <1>4
  <2> QED  BY <2>1
<1> QED  BY <1>12, <1>13 DEF rest, top
-----------------------------------------------------------------------------
(* Each step keeps it.                                                     *)

LEMMA InitInv == Init => Inv
<1> SUFFICES ASSUME Init PROVE Inv
  OBVIOUS
<1>1. original \in Seq(AnyNode) /\ \A n \in NodesOf(original) : n.kind \in ParsedKinds
  BY ProgramsAssumption DEF Init
<1>2. MaxNesting \in 0 .. MaxNesting /\ 1 \in 1 .. MaxNesting + 1 /\ Level(1) = MaxNesting
  BY MaxNestingAssumption DEF Level
<1>3. ASSUME NEW n \in NodesOf(original) PROVE Justified(n)
  <2>1. n.body \in Seq(AnyNode) /\ NodesOf(n.body) \subseteq NodesOf(original)
    BY <1>1, NodesOfBodies
  <2>2. \A i \in DOMAIN n.body : n.body[i] \in NodesOf(n.body)
    BY <2>1, NodesOfSteps
  <2>3. NonnullIsFirst(n)
    BY <1>1, <2>1, <2>2 DEF NonnullIsFirst, ParsedKinds
  <2>4. TermsAreDistinct(n) /\ IfIsJustified(n)
    BY <1>1 DEF TermsAreDistinct, IfIsJustified, ParsedKinds, MultiplyKinds
  <2> QED  BY <2>3, <2>4 DEF Justified
<1>4. original \in Seq(Sound(MaxNesting))
  BY <1>1, <1>2, <1>3, SoundBlock DEF AnyNode
<1>5. original \in Seq(Unmarked(MaxNesting))
  <2> DEFINE S == Sound(MaxNesting)
             U == Unmarked(MaxNesting)
  <2>1. \A n \in S : n.kind # "NONNULL_MULTIPLY_LOOP" => n \in U
    BY DEF Unmarked
  <2>2. \A i \in DOMAIN original : original[i].kind # "NONNULL_MULTIPLY_LOOP"
    <3>1. \A i \in DOMAIN original : original[i] \in NodesOf(original)
      BY <1>1, NodesOfSteps
    <3> QED  BY <1>1, <3>1 DEF ParsedKinds
  <2> HIDE DEF S, U
  <2>3. original \in Seq(S)
    BY <1>4 DEF S
  <2>4. original \in Seq(U)
    BY <2>1, <2>2, <2>3
  <2> QED  BY <2>4 DEF U
<1>6. FrameOK(Invocation(original), Level(1))
  <2>1. 1 \in Nat \ {0} /\ "visit" \in Passes /\ "visit" \notin PassesAtNode
    BY DEF PassesAtNode, Passes
  <2> QED  BY <1>2, <1>5, <2>1, OtherFrame DEF Invocation
<1> DEFINE f == Invocation(original)
           s == <<f>>
<1>7. f \in Frame
  BY <1>6 DEF FrameOK
<1>8. FrameOK(f, Level(1))
  BY <1>6
<1> HIDE DEF f
<1>9. s \in Seq(Frame) /\ Len(s) = 1 /\ s[1] = f
  BY <1>7
<1> HIDE DEF s
<1>10. (\A i \in 1 .. Len(s) : i = 1) /\ (\A i \in 1 .. Len(s) - 1 : FALSE)
  BY <1>9
<1>11. StackOK(s)
  BY <1>2, <1>8, <1>9, <1>10 DEF StackOK
<1> QED  BY <1>11 DEF Init, Inv, s, f

\* The node at index gives way to another.
LEMMA NodeGivesWay ==
  ASSUME NEW h \in 1 .. MaxNesting, NEW block \in Seq(Unmarked(h)), NEW i \in DOMAIN block,
         NEW n \in Unmarked(h)
  PROVE  /\ [block EXCEPT ![i] = n] \in Seq(Unmarked(h))
         /\ DOMAIN [block EXCEPT ![i] = n] = DOMAIN block
  OBVIOUS

LEMMA NextIndex ==
  ASSUME NEW k \in Nat \ {0}
  PROVE  k + 1 \in Nat \ {0}
  OBVIOUS

\* The top frame in a pass over a node, and one in which the node has given way.
LEMMA AtNode ==
  ASSUME Inv, At("set zero") \/ At("zeroing loop") \/ At("multiply loop")
  PROVE  /\ Top.index \in DOMAIN Top.block /\ Top.index \in Nat \ {0}
         /\ Here \in Unmarked(Level(Depth)) /\ Level(Depth) \in 1 .. MaxNesting
         /\ \A n \in Unmarked(Level(Depth)), pass \in Passes, i \in {Top.index, Top.index + 1} :
              pass \notin PassesAtNode \/ i = Top.index =>
                FrameOK([block |-> [Top.block EXCEPT ![Top.index] = n], index |-> i,
                         pass |-> pass], Level(Depth))
<1> DEFINE h == Level(Depth)
           b == Top.block
           k == Top.index
<1>1. /\ FrameOK(Top, h) /\ b \in Seq(Unmarked(h)) /\ k \in Nat \ {0} /\ h \in 0 .. MaxNesting
      /\ k \in DOMAIN b => b[k] \in Unmarked(h) /\ h \in 1 .. MaxNesting
  BY TopType DEF Inv, Top, Depth
<1>2. k \in DOMAIN b
  BY <1>1 DEF FrameOK, At, PassesAtNode
<1> HIDE DEF h, b, k
<1>3. ASSUME NEW n \in Unmarked(h), NEW pass \in Passes, NEW i \in {k, k + 1},
             pass \notin PassesAtNode \/ i = k
      PROVE  FrameOK([block |-> [b EXCEPT ![k] = n], index |-> i, pass |-> pass], h)
  <2> DEFINE c == [b EXCEPT ![k] = n]
  <2>1. c \in Seq(Unmarked(h)) /\ DOMAIN c = DOMAIN b
    BY <1>1, <1>2, NodeGivesWay
  <2>2. i \in Nat \ {0}
    <3>1. k \in Nat \ {0}  BY <1>1
    <3>2. k + 1 \in Nat \ {0}  BY <3>1, NextIndex
    <3> QED  BY <3>1, <3>2
  <2> HIDE DEF c
  <2>3. pass \in PassesAtNode => i \in DOMAIN c
    BY <1>2, <1>3, <2>1
  <2>4. FrameOK([block |-> c, index |-> i, pass |-> pass], h)
    BY <1>1, <2>1, <2>2, <2>3, OtherFrame
  <2> QED  BY <2>4 DEF c
<1> QED  BY <1>1, <1>2, <1>3 DEF h, b, k, Here

\* The stack after a step that replaces the top frame.
LEMMA SetTopKeeps ==
  ASSUME Inv, NEW f, FrameOK(f, Level(Depth)), SetTop(f)
  PROVE  Inv'
<1>1. StackOK([frames EXCEPT ![Len(frames)] = f])
  BY ReplaceTop DEF Inv, Depth
<1> QED  BY <1>1 DEF Inv, SetTop, Depth

\* A frame is its three fields.
LEMMA TopIs ==
  ASSUME Inv
  PROVE  /\ Top = [block |-> Top.block, index |-> Top.index, pass |-> Top.pass]
         /\ Top.block \in Seq(Unmarked(Level(Depth))) /\ Top.index \in Nat \ {0}
         /\ Level(Depth) \in 0 .. MaxNesting /\ Top \in Frame /\ Depth \in 1 .. MaxNesting + 1
         /\ Depth \in DOMAIN frames /\ frames \in Seq(Frame)
<1>1. frames \in Seq(Frame) /\ Len(frames) \in 1 .. MaxNesting + 1
  BY DEF Inv, StackOK
<1>2. FrameOK(Top, Level(Depth)) /\ Level(Depth) \in 0 .. MaxNesting
      /\ Top.block \in Seq(Unmarked(Level(Depth))) /\ Top.index \in Nat \ {0}
      /\ Top = [block |-> Top.block, index |-> Top.index, pass |-> Top.pass]
  BY TopType DEF Inv, Top, Depth
<1>3. Depth \in DOMAIN frames
  BY <1>1 DEF Depth
<1> QED  BY <1>1, <1>2, <1>3 DEF FrameOK, Depth

LEMMA NewPass ==
  ASSUME NEW f \in Frame, NEW pass
  PROVE  [f EXCEPT !.pass = pass] = [block |-> f.block, index |-> f.index, pass |-> pass]
  BY DEF Frame

LEMMA NewBlock ==
  ASSUME NEW f \in Frame, NEW b, NEW pass
  PROVE  [f EXCEPT !.block = b, !.pass = pass] =
           [block |-> b, index |-> f.index, pass |-> pass]
<1> DEFINE x == f.block
           y == f.index
           z == f.pass
           g == [f EXCEPT !.block = b]
<1>1. f = [block |-> x, index |-> y, pass |-> z]
  BY DEF Frame
<1> HIDE DEF x, y, z
<1>2. g = [block |-> b, index |-> y, pass |-> z]
  BY <1>1
<1>3. [f EXCEPT !.block = b, !.pass = pass] = [g EXCEPT !.pass = pass]
  OBVIOUS
<1> HIDE DEF g
<1>4. [g EXCEPT !.pass = pass] = [block |-> b, index |-> y, pass |-> pass]
  BY <1>2
<1> QED  BY <1>3, <1>4 DEF y

LEMMA NewIndex ==
  ASSUME NEW f \in Frame, NEW pass
  PROVE  [f EXCEPT !.index = @ + 1, !.pass = pass] =
           [block |-> f.block, index |-> f.index + 1, pass |-> pass]
<1> DEFINE x == f.block
           y == f.index
           z == f.pass
           k == y + 1
           g == [f EXCEPT !.index = k]
<1>1. f = [block |-> x, index |-> y, pass |-> z]
  BY DEF Frame
<1>2. [f EXCEPT !.index = @ + 1, !.pass = pass] = [g EXCEPT !.pass = pass]
  OBVIOUS
<1> HIDE DEF x, y, z, k
<1>3. g = [block |-> x, index |-> k, pass |-> z]
  BY <1>1
<1> HIDE DEF g
<1>4. [g EXCEPT !.pass = pass] = [block |-> x, index |-> k, pass |-> pass]
  BY <1>3
<1> QED  BY <1>2, <1>4 DEF x, y, k

LEMMA NewNode ==
  ASSUME NEW f \in Frame, NEW n, NEW pass
  PROVE  [f EXCEPT !.block[f.index] = n, !.pass = pass] =
           [block |-> [f.block EXCEPT ![f.index] = n], index |-> f.index, pass |-> pass]
<1> DEFINE e == [f.block EXCEPT ![f.index] = n]
<1>1. [f EXCEPT !.block[f.index] = n, !.pass = pass] = [f EXCEPT !.block = e, !.pass = pass]
  OBVIOUS
<1> HIDE DEF e
<1>2. [f EXCEPT !.block = e, !.pass = pass] = [block |-> e, index |-> f.index, pass |-> pass]
  BY NewBlock
<1> QED  BY <1>1, <1>2 DEF e

LEMMA NewNodeAndIndex ==
  ASSUME NEW f \in Frame, NEW n, NEW pass
  PROVE  [[f EXCEPT !.index = @ + 1, !.pass = pass] EXCEPT !.block[f.index] = n] =
           [block |-> [f.block EXCEPT ![f.index] = n], index |-> f.index + 1, pass |-> pass]
<1> DEFINE g == [f EXCEPT !.index = @ + 1, !.pass = pass]
           e == [f.block EXCEPT ![f.index] = n]
           k == f.index + 1
<1>1. g = [block |-> f.block, index |-> k, pass |-> pass]
  BY NewIndex
<1> HIDE DEF g, k
<1>2. [g EXCEPT !.block[f.index] = n] = [g EXCEPT !.block = e]
  BY <1>1
<1> HIDE DEF e
<1>3. [g EXCEPT !.block = e] = [block |-> e, index |-> k, pass |-> pass]
  BY <1>1
<1>4. [g EXCEPT !.block[f.index] = n] = [block |-> e, index |-> k, pass |-> pass]
  BY <1>2, <1>3
<1> QED  BY <1>4 DEF g, e, k

LEMMA VisitKeepsInv ==
  ASSUME Inv, Visit
  PROVE  Inv'
<1> DEFINE h == Level(Depth)
<1>1. /\ Top \in Frame /\ Top.block \in Seq(Unmarked(h)) /\ h \in 0 .. MaxNesting
      /\ Top.index \in Nat \ {0} /\ Depth \in DOMAIN frames /\ frames \in Seq(Frame)
  BY TopIs
<1> HIDE DEF h
<1>2. CASE Top.index > Len(Top.block)
  <2> DEFINE f == [Top EXCEPT !.pass = "fold set const"]
  <2>1. f = [block |-> Top.block, index |-> Top.index, pass |-> "fold set const"]
    BY <1>1, NewPass
  <2>2. "fold set const" \in Passes /\ "fold set const" \notin PassesAtNode
    BY DEF Passes, PassesAtNode
  <2> HIDE DEF f
  <2>3. FrameOK(f, h)
    BY <1>1, <2>1, <2>2, OtherFrame
  <2>4. frames' = [frames EXCEPT ![Depth] = f]
    <3>1. frames' = [frames EXCEPT ![Depth].pass = "fold set const"]
      BY <1>2 DEF Visit
    <3>2. frames[Depth] = Top  BY DEF Top
    <3> QED  BY <3>1, <3>2 DEF f
  <2> QED  BY <2>3, <2>4, SetTopKeeps DEF SetTop, h
<1>3. CASE ~(Top.index > Len(Top.block)) /\ Here.kind # "LOOP"
  <2> DEFINE f == NextNode
  <2>1. f = [block |-> Top.block, index |-> Top.index + 1, pass |-> "visit"]
    BY <1>1, NewIndex DEF NextNode
  <2>2. "visit" \in Passes /\ "visit" \notin PassesAtNode /\ Top.index + 1 \in Nat \ {0}
    BY <1>1 DEF Passes, PassesAtNode
  <2> HIDE DEF f
  <2>3. FrameOK(f, h)
    BY <1>1, <2>1, <2>2, OtherFrame
  <2>4. frames' = [frames EXCEPT ![Depth] = f]
    BY <1>3 DEF Visit, f
  <2> QED  BY <2>3, <2>4, SetTopKeeps DEF SetTop, h
<1>4. CASE ~(Top.index > Len(Top.block)) /\ Here.kind = "LOOP"
  <2> DEFINE f == [Top EXCEPT !.pass = "set zero"]
             s == [frames EXCEPT ![Depth] = f]
  <2>1. f = [block |-> Top.block, index |-> Top.index, pass |-> "set zero"]
    BY <1>1, NewPass
  <2>2. "set zero" \in Passes /\ Top.index \in DOMAIN Top.block
    BY <1>1, <1>4 DEF Passes, PassesAtNode
  <2> HIDE DEF f
  <2>3. FrameOK(f, h)
    BY <1>1, <2>1, <2>2, OtherFrame
  <2>4. StackOK(s)
    BY <2>3, ReplaceTop DEF Inv, Depth, h
  <2>5. s[Len(s)] = f /\ Len(s) = Depth
    BY <1>1 DEF Depth
  <2>6. f.block[f.index] = Here /\ f.index \in DOMAIN f.block /\ f.pass = "set zero"
    BY <2>1, <2>2 DEF Here
  <2>7. Waits(s[Len(s)])
    BY <1>4, <2>5, <2>6 DEF Waits
  <2>8. frames' = Append(s, Invocation(Here.body))
    <3>1. frames' = Append([frames EXCEPT ![Depth].pass = "set zero"], Invocation(Here.body))
      BY <1>4 DEF Visit
    <3>2. frames[Depth] = Top  BY DEF Top
    <3> QED  BY <3>1, <3>2 DEF f
  <2> HIDE DEF s
  <2>9. StackOK(Append(s, Invocation(Here.body)))
    BY <2>4, <2>5, <2>6, <2>7, Push
  <2> QED  BY <2>8, <2>9 DEF Inv
<1> QED  BY <1>2, <1>3, <1>4

LEMMA NodePassesKeepInv ==
  ASSUME Inv, SetZeroPass \/ ZeroingLoopPass \/ MultiplyLoopPass
  PROVE  Inv'
<1> DEFINE h == Level(Depth)
           Changed(n, i, pass) == [block |-> [Top.block EXCEPT ![Top.index] = n], index |-> i,
                                   pass |-> pass]
<1>1. /\ Top \in Frame /\ Top.block \in Seq(Unmarked(h)) /\ h \in 0 .. MaxNesting
      /\ Top.index \in Nat \ {0}
  BY TopIs
<1>2. /\ Top.index \in DOMAIN Top.block
      /\ Here \in Unmarked(h) /\ h \in 1 .. MaxNesting
      /\ \A n \in Unmarked(h), pass \in Passes, i \in {Top.index, Top.index + 1} :
           pass \notin PassesAtNode \/ i = Top.index => FrameOK(Changed(n, i, pass), h)
  BY AtNode DEF SetZeroPass, ZeroingLoopPass, MultiplyLoopPass
<1> HIDE DEF h
<1>3. /\ "visit" \in Passes /\ "zeroing loop" \in Passes /\ "multiply loop" \in Passes
      /\ "visit" \notin PassesAtNode
  BY DEF Passes, PassesAtNode
<1>4. ASSUME NEW n, NEW pass
      PROVE  [Top EXCEPT !.block[Top.index] = n, !.pass = pass] = Changed(n, Top.index, pass)
  BY <1>1, NewNode
<1>5. ASSUME NEW n
      PROVE  [NextNode EXCEPT !.block[Top.index] = n] = Changed(n, Top.index + 1, "visit")
  BY <1>1, NewNodeAndIndex DEF NextNode
<1>6. Top.block = [Top.block EXCEPT ![Top.index] = Here]
  BY <1>1, <1>2 DEF Here
<1>7. [Top EXCEPT !.pass = "multiply loop"] = Changed(Here, Top.index, "multiply loop")
  BY <1>1, <1>6, NewPass
<1>8. NextNode = Changed(Here, Top.index + 1, "visit")
  <2>1. NextNode = [block |-> Top.block, index |-> Top.index + 1, pass |-> "visit"]
    BY <1>1, NewIndex DEF NextNode
  <2> QED  BY <1>6, <2>1
<1> HIDE DEF Changed
<1>9. CASE SetZeroPass
  <2>1. SetTop(Changed(SetZero(Here), Top.index, "zeroing loop"))
    BY <1>4, <1>9 DEF SetZeroPass, NodeBecomes
  <2>2. SetZero(Here) \in Unmarked(h)
    BY <1>2, SetZeroKeeps
  <2> QED  BY <1>2, <1>3, <2>1, <2>2, SetTopKeeps DEF h
<1>10. CASE ZeroingLoopPass
  <2>1. PICK n \in {ZeroingLoop(Here), Here} : SetTop(Changed(n, Top.index, "multiply loop"))
    BY <1>4, <1>7, <1>10 DEF ZeroingLoopPass, NodeBecomes, Spare
  <2>2. n \in Unmarked(h)
    BY <1>2, ZeroingLoopKeeps
  <2> QED  BY <1>2, <1>3, <2>1, <2>2, SetTopKeeps DEF h
<1>11. CASE MultiplyLoopPass
  <2>1. PICK n \in {RecognizeMultiply(Here), Here} : SetTop(Changed(n, Top.index + 1, "visit"))
    BY <1>5, <1>8, <1>11 DEF MultiplyLoopPass
  <2>2. n \in Unmarked(h)
    BY <1>2, RecognizeMultiplyKeeps
  <2> QED  BY <1>2, <1>3, <2>1, <2>2, SetTopKeeps DEF h
<1> QED  BY <1>9, <1>10, <1>11

LEMMA BlockPassesKeepInv ==
  ASSUME Inv, \/ FoldSetConstPass \/ DeadStoresPasses \/ FoldScanReturnPass
              \/ FoldMultiZeroPass \/ LoopsToIfsPass
  PROVE  Inv'
<1> DEFINE h == Level(Depth)
           Changed(b, pass) == [block |-> b, index |-> Top.index, pass |-> pass]
           Later == {"dead stores 1", "scan return", "multi zero", "dead stores 2",
                     "loops to ifs", "dead stores 3", "mark nonnull"}
<1>1. /\ Top \in Frame /\ Top.block \in Seq(Unmarked(h)) /\ h \in 0 .. MaxNesting
      /\ Top.index \in Nat \ {0}
  BY TopIs
<1>2. ASSUME NEW b, NEW pass
      PROVE  [Top EXCEPT !.block = b, !.pass = pass] = Changed(b, pass)
  BY <1>1, NewBlock
<1>3. ASSUME NEW pass
      PROVE  [Top EXCEPT !.pass = pass] = Changed(Top.block, pass)
  BY <1>1, NewPass
<1>4. ASSUME NEW b \in Seq(Unmarked(h)), NEW pass \in Later, SetTop(Changed(b, pass))
      PROVE  Inv'
  <2>1. pass \in Passes /\ pass \notin PassesAtNode
    BY DEF Passes, PassesAtNode
  <2>2. FrameOK(Changed(b, pass), h)
    <3> HIDE DEF h
    <3> QED  BY <1>1, <2>1, OtherFrame
  <2> HIDE DEF Changed
  <2> QED  BY <1>4, <2>2, SetTopKeeps
<1> HIDE DEF h, Changed
<1>5. CASE FoldSetConstPass
  <2>1. SetTop(Changed(FoldSetConst(Top.block), "dead stores 1"))
    BY <1>2, <1>5 DEF FoldSetConstPass, BlockBecomes
  <2> QED  BY <1>1, <1>4, <2>1, FoldSetConstKeeps
<1>6. CASE DeadStoresPasses
  <2>1. PICK next \in {"scan return", "loops to ifs", "mark nonnull"} :
          \/ SetTop(Changed(EliminateDeadStores(Top.block), next))
          \/ SetTop(Changed(Top.block, next))
    BY <1>2, <1>3, <1>6 DEF DeadStoresPasses, DeadStoresPass, BlockBecomes, Spare
  <2>2. EliminateDeadStores(Top.block) \in Seq(Unmarked(h))
    BY <1>1, DeadStoresLeave
  <2>3. next \in Later
    OBVIOUS
  <2> QED  BY <1>1, <1>4, <2>1, <2>2, <2>3
<1>7. CASE FoldScanReturnPass
  <2>1. SetTop(Changed(FoldScanReturn(Top.block), "multi zero"))
    BY <1>2, <1>7 DEF FoldScanReturnPass, BlockBecomes
  <2> QED  BY <1>1, <1>4, <2>1, FoldScanReturnKeeps
<1>8. CASE FoldMultiZeroPass
  <2>1. PICK failing : SetTop(Changed(FoldMultiZero(Top.block, failing), "dead stores 2"))
    BY <1>2, <1>8 DEF FoldMultiZeroPass, BlockBecomes
  <2> QED  BY <1>1, <1>4, <2>1, FoldMultiZeroKeeps
<1>9. CASE LoopsToIfsPass
  <2>1. SetTop(Changed(LoopsToIfs(Top.block), "dead stores 3"))
    BY <1>2, <1>9 DEF LoopsToIfsPass, BlockBecomes
  <2> QED  BY <1>1, <1>4, <2>1, LoopsToIfsKeeps
<1> QED  BY <1>5, <1>6, <1>7, <1>8, <1>9

LEMMA MarkNonnullPassKeepsInv ==
  ASSUME Inv, MarkNonnullPass
  PROVE  Inv'
<1> DEFINE h == Level(Depth)
           b == MarkNonnull(Top.block)
<1>1. /\ Top \in Frame /\ Top.block \in Seq(Unmarked(h)) /\ h \in 0 .. MaxNesting
      /\ Top.index \in Nat \ {0} /\ Depth \in DOMAIN frames /\ frames \in Seq(Frame)
      /\ Depth \in 1 .. MaxNesting + 1
  BY TopIs
<1>2. b \in Seq(Unmarked(h))
  BY <1>1, MarkNonnullKeeps
<1> HIDE DEF b
<1>3. CASE Depth = 1
  <2> DEFINE f == [Top EXCEPT !.block = b, !.pass = "done"]
  <2>1. f = [block |-> b, index |-> Top.index, pass |-> "done"]
    BY <1>1, NewBlock
  <2>2. "done" \in Passes /\ "done" \notin PassesAtNode
    BY DEF Passes, PassesAtNode
  <2>3. frames' = <<f>>
    BY <1>3 DEF MarkNonnullPass, b
  <2> HIDE DEF f, h
  <2>4. FrameOK(f, h)
    BY <1>1, <1>2, <2>1, <2>2, OtherFrame
  <2>5. [frames EXCEPT ![Depth] = f] = <<f>>
    BY <1>1, <1>3 DEF Depth
  <2> QED  BY <2>3, <2>4, <2>5, SetTopKeeps DEF SetTop, h
<1>4. CASE Depth # 1
  <2> DEFINE below == Depth - 1
  <2>1. frames' = [SubSeq(frames, 1, below) EXCEPT
                     ![below].block[frames[below].index].body = b]
    BY <1>4 DEF MarkNonnullPass, b
  <2>2. StackOK([SubSeq(frames, 1, below) EXCEPT
                   ![below].block[frames[below].index].body = b])
    BY <1>2, <1>4, Pop DEF Inv, Depth, h
  <2> QED  BY <2>1, <2>2 DEF Inv
<1> QED  BY <1>3, <1>4

LEMMA NextKeepsInv == Inv /\ [Next]_vars => Inv'
<1> SUFFICES ASSUME Inv, [Next]_vars PROVE Inv'
  OBVIOUS
<1>1. CASE Visit  BY <1>1, VisitKeepsInv
<1>2. CASE SetZeroPass \/ ZeroingLoopPass \/ MultiplyLoopPass
  BY <1>2, NodePassesKeepInv
<1>3. CASE \/ FoldSetConstPass \/ DeadStoresPasses \/ FoldScanReturnPass
           \/ FoldMultiZeroPass \/ LoopsToIfsPass
  BY <1>3, BlockPassesKeepInv
<1>4. CASE MarkNonnullPass  BY <1>4, MarkNonnullPassKeepsInv
<1>5. CASE Finished \/ UNCHANGED vars
  BY <1>5 DEF Finished, vars, Inv
<1> QED  BY <1>1, <1>2, <1>3, <1>4, <1>5 DEF Next, Step
-----------------------------------------------------------------------------
(* What the stack is put back together to.                                 *)

Put(f, stack, i) ==
  IF i = Len(stack) THEN stack[i].block
  ELSE [stack[i].block EXCEPT ![stack[i].index].body = f[i + 1]]

PlugsFrom(f, stack, m) == f = [i \in m .. Len(stack) |-> Put(f, stack, i)]

\* There is such a function, from the top of the stack down.
LEMMA PluggingExists ==
  ASSUME NEW stack, Len(stack) \in Nat \ {0}
  PROVE  \E f : PlugsFrom(f, stack, 1)
<1> DEFINE n == Len(stack)
           G == {k \in 0 .. n - 1 : \E f : PlugsFrom(f, stack, n - k)}
<1> HIDE DEF n
<1>0. n \in Nat \ {0} /\ n = Len(stack) /\ n - 1 \in Nat /\ n - 0 = n
  BY DEF n
<1>1. 0 \in G
  <2> DEFINE f == [i \in n .. n |-> stack[i].block]
  <2>1. \A i \in n .. n : i = n  BY <1>0
  <2>2. \A i \in n .. n : Put(f, stack, i) = stack[i].block
    BY <1>0, <2>1 DEF Put
  <2>3. f = [i \in n .. n |-> Put(f, stack, i)]
    BY <2>2
  <2> HIDE DEF f
  <2>4. PlugsFrom(f, stack, n)  BY <1>0, <2>3 DEF PlugsFrom
  <2> QED  BY <1>0, <2>4
<1>2. ASSUME NEW k \in 0 .. n - 1 - 1, k \in G PROVE k + 1 \in G
  <2> DEFINE m == n - (k + 1)
  <2>1. /\ m \in Int /\ n - k = m + 1 /\ m # n /\ k + 1 \in 0 .. n - 1
        /\ m \notin m + 1 .. n /\ m \in m .. n /\ m + 1 # m
        /\ \A i \in m .. n : i # m => i \in m + 1 .. n
        /\ \A i \in m .. n : i + 1 # m /\ (i # n => i + 1 \in m + 1 .. n /\ i + 1 \in m .. n)
    BY <1>0
  <2>2. PICK f : PlugsFrom(f, stack, n - k)  BY <1>2
  <2> HIDE DEF m
  <2>3. \A i \in m + 1 .. n : f[i] = Put(f, stack, i)
    <3>1. f = [i \in m + 1 .. n |-> Put(f, stack, i)]
      BY <1>0, <2>1, <2>2 DEF PlugsFrom
    <3> QED  BY <3>1
  <2> DEFINE g == [i \in m .. n |-> IF i = m THEN Put(f, stack, m) ELSE f[i]]
  <2>4. /\ g[m] = Put(f, stack, m)
        /\ \A i \in m + 1 .. n : i \in m .. n /\ i # m => g[i] = f[i]
        /\ \A i \in m .. n : i # m => g[i] = f[i]
    BY <2>1
  <2>5. g = [i \in m .. n |-> g[i]]
    OBVIOUS
  <2> HIDE DEF g
  <2>6. ASSUME NEW i \in m .. n PROVE g[i] = Put(g, stack, i)
    <3>1. g[i] = Put(f, stack, i)
      BY <2>1, <2>3, <2>4
    <3>2. CASE i = n
      BY <1>0, <3>1, <3>2 DEF Put
    <3>3. CASE i # n
      <4>1. g[i + 1] = f[i + 1]
        BY <2>1, <2>4, <3>3
      <4> QED  BY <1>0, <3>1, <3>3, <4>1 DEF Put
    <3> QED  BY <3>2, <3>3
  <2>7. g = [i \in m .. n |-> Put(g, stack, i)]
    BY <2>5, <2>6
  <2>8. PlugsFrom(g, stack, m)
    BY <1>0, <2>7 DEF PlugsFrom
  <2> QED  BY <2>1, <2>8 DEF m
<1>3. n - 1 \in G
  <2> HIDE DEF G
  <2> QED  BY <1>0, <1>1, <1>2, InductionTo
<1>4. n - (n - 1) = 1
  BY <1>0
<1> QED  BY <1>3, <1>4

\* What it holds is at every level a block of that level.
LEMMA PluggingKeeps ==
  ASSUME NEW stack, StackOK(stack), NEW f, PlugsFrom(f, stack, 1)
  PROVE  f[1] \in Seq(Unmarked(MaxNesting))
<1> DEFINE n == Len(stack)
           G == {k \in 0 .. n - 1 : f[n - k] \in Seq(Unmarked(Level(n - k)))}
<1>0. n \in Nat \ {0} /\ n \in 1 .. MaxNesting + 1 /\ n - 1 \in Nat /\ n - 0 = n
      /\ n - (n - 1) = 1
  <2>1. n \in 1 .. MaxNesting + 1  BY DEF StackOK
  <2> HIDE DEF n
  <2> QED  BY <2>1, MaxNestingAssumption
<1>1. \A i \in 1 .. n : f[i] = Put(f, stack, i)
  BY DEF PlugsFrom
<1>2. \A i \in 1 .. n : stack[i].block \in Seq(Unmarked(Level(i)))
  BY DEF StackOK, FrameOK
<1>3. \A i \in 1 .. n - 1 : Waits(stack[i])
  BY DEF StackOK
<1>4. 0 \in G
  <2>1. n \in 1 .. n  BY <1>0
  <2>2. f[n] = stack[n].block  BY <1>1, <2>1 DEF Put
  <2> HIDE DEF n
  <2> QED  BY <1>0, <1>2, <2>1, <2>2
<1>5. ASSUME NEW k \in 0 .. n - 1 - 1, k \in G PROVE k + 1 \in G
  <2> DEFINE m == n - (k + 1)
             h == Level(m)
             b == stack[m].block
             i == stack[m].index
  <2> HIDE DEF n
  <2>1. /\ m \in 1 .. n - 1 /\ m \in 1 .. n /\ m # n /\ m + 1 = n - k
        /\ m + 1 \in 1 .. MaxNesting + 1 /\ m \in 1 .. MaxNesting + 1 /\ k + 1 \in 0 .. n - 1
    BY <1>0, MaxNestingAssumption
  <2> HIDE DEF m
  <2>2. h \in 1 .. MaxNesting /\ Level(m + 1) = h - 1
    BY <2>1, LevelType
  <2>3. f[m] = [b EXCEPT ![i].body = f[m + 1]]
    BY <1>1, <2>1 DEF Put, n
  <2>4. b \in Seq(Unmarked(h)) /\ i \in DOMAIN b /\ b[i].kind = "LOOP"
    BY <1>2, <1>3, <2>1 DEF Waits
  <2>5. f[m + 1] \in Seq(Unmarked(h - 1))
    BY <1>5, <2>1, <2>2
  <2> HIDE DEF h, b, i
  <2>6. f[m] \in Seq(Unmarked(h))
    BY <2>2, <2>3, <2>4, <2>5, NewBody
  <2> QED  BY <2>1, <2>6 DEF m, h
<1>6. n - 1 \in G
  <2> HIDE DEF G, n
  <2> QED  BY <1>0, <1>4, <1>5, InductionTo
<1>7. Level(1) = MaxNesting
  BY MaxNestingAssumption DEF Level
<1> QED
  <2> HIDE DEF n
  <2> QED  BY <1>0, <1>6, <1>7

LEMMA RebuiltIsUnmarked ==
  ASSUME Inv
  PROVE  Rebuilt \in Seq(Unmarked(MaxNesting))
<1> DEFINE plugged == CHOOSE f : PlugsFrom(f, frames, 1)
<1>1. Len(frames) \in Nat \ {0}
  BY MaxNestingAssumption DEF Inv, StackOK
<1>2. PlugsFrom(plugged, frames, 1)
  BY <1>1, PluggingExists
<1>3. Rebuilt = plugged[1]
  BY DEF Rebuilt, PlugsFrom, Put, Depth
<1> HIDE DEF plugged
<1> QED  BY <1>2, <1>3, PluggingKeeps DEF Inv
-----------------------------------------------------------------------------
(***************************************************************************)
(* What the passes add up to.  OptimizeBlock is a recursive function; what *)
(* it makes of a block is what remains of bf_opt_block when its invocation *)
(* begins, and each step leaves less of it.                                *)
(***************************************************************************)

\* What is left of the passes over a block, from some of them on.
FromMarking(b)    == MarkNonnull(b)
FromStores3(b)    == FromMarking(EliminateDeadStores(b))
FromIfs(b)        == FromStores3(LoopsToIfs(b))
FromStores2(b)    == FromIfs(EliminateDeadStores(b))
FromMultiZero(b)  == FromStores2(FoldMultiZero(b, {}))
FromScanReturn(b) == FromMultiZero(FoldScanReturn(b))
FromStores1(b)    == FromScanReturn(EliminateDeadStores(b))
FromSetConst(b)   == FromStores1(FoldSetConst(b))

\* The passes over a node, when what its body becomes is f's value.
NodeWith(f, n) ==
  IF n.kind # "LOOP" THEN n
  ELSE RecognizeMultiply(ZeroingLoop(SetZero([n EXCEPT !.body = f[@]])))

FoldedWith(f, b) == FoldLeft(LAMBDA done, n : Append(done, NodeWith(f, n)), <<>>, b)

\* They are applied one after the other.
LEMMA FoldedNodes ==
  ASSUME NEW f, NEW T, NEW b \in Seq(T)
  PROVE  FoldedWith(f, b) = [i \in DOMAIN b |-> NodeWith(f, b[i])]
<1> DEFINE n  == Len(b)
           e  == [i \in DOMAIN b |-> NodeWith(f, b[i])]
           S  == {e[i] : i \in DOMAIN b}
           C  == Seq(S)
           g  == [p \in C \X (1 .. n) |-> Append(p[1], e[p[2]])]
           Iter(h) == h = [s \in SUBSET DOMAIN b |->
                             IF s = {} THEN <<>>
                             ELSE Append(h[s \ {Max(s)}], NodeWith(f, b[Max(s)]))]
           iter == CHOOSE h : Iter(h)
<1>1. n \in Nat /\ DOMAIN b = 1 .. n
  OBVIOUS
<1>2. \A i \in 1 .. n : e[i] \in S /\ e[i] = NodeWith(f, b[i])
  BY <1>1
<1>3. <<>> \in C
  OBVIOUS
<1>4. /\ g \in [C \X (1 .. n) -> C]
      /\ \A done \in C, i \in 1 .. n : g[<<done, i>>] = Append(done, e[i])
  <2> HIDE DEF S, n, e
  <2>1. \A done \in C, i \in 1 .. n : Append(done, e[i]) \in C  BY <1>2
  <2> HIDE DEF C
  <2> QED  BY <2>1
<1>5. /\ e = [i \in 1 .. n |-> e[i]]
      /\ \A i \in 1 .. n : e[i] = NodeWith(f, b[i])
  BY <1>1
<1> HIDE DEF g, C, n, e, S
<1>6. PICK h : ChosenFold(h, g, <<>>, C, n)
  BY <1>1, <1>3, <1>4, ChosenFoldExists
<1>7. Iter(h)
  <2>1. ASSUME NEW s \in SUBSET (1 .. n), s # {}
        PROVE  h[s] = Append(h[s \ {Max(s)}], NodeWith(f, b[Max(s)]))
    <3>1. Max(s) \in 1 .. n  BY <1>1, <2>1, MaxOfIndices
    <3>2. h[s \ {Max(s)}] \in C  BY <1>6 DEF ChosenFold
    <3>3. h[s] = g[<<h[s \ {Max(s)}], Max(s)>>]  BY <1>6, <2>1 DEF ChosenFold
    <3> QED  BY <1>4, <1>5, <3>1, <3>2, <3>3
  <2>2. h[{}] = <<>>  BY <1>6 DEF ChosenFold
  <2>3. h = [s \in SUBSET (1 .. n) |-> h[s]]  BY <1>6 DEF ChosenFold
  <2> QED  BY <1>1, <2>1, <2>2, <2>3
<1>8. Iter(iter)
  <2> HIDE DEF Iter
  <2> QED  BY <1>7
<1> HIDE DEF iter
<1>9. FoldsUp(iter, g, <<>>, C, n)
  <2>1. iter[{}] = <<>>  BY <1>1, <1>8
  <2>2. ASSUME NEW s \in SUBSET (1 .. n), s # {}, iter[s \ {Max(s)}] \in C
        PROVE  iter[s] = g[<<iter[s \ {Max(s)}], Max(s)>>]
    <3>1. Max(s) \in 1 .. n  BY <1>1, <2>2, MaxOfIndices
    <3>2. iter[s] = Append(iter[s \ {Max(s)}], NodeWith(f, b[Max(s)]))  BY <1>1, <1>8, <2>2
    <3> QED  BY <1>4, <1>5, <2>2, <3>1, <3>2
  <2> QED  BY <2>1, <2>2 DEF FoldsUp
<1>10. PICK acc : Traces(acc, iter, g, <<>>, C, n)
  <2> HIDE DEF Iter
  <2> QED  BY <1>1, <1>3, <1>4, <1>9, FoldSteps
<1>11. FoldedWith(f, b) = iter[1 .. n]
  <2>1. FoldedWith(f, b) = iter[DOMAIN b]
    BY DEF FoldedWith, FoldLeft, MapThenFoldSet, iter
  <2> QED  BY <1>1, <2>1
<1> DEFINE P == {k \in 0 .. n : acc[k] = [i \in 1 .. k |-> e[i]]}
<1>12. 0 \in P
  <2>1. acc[0] = <<>>  BY <1>10 DEF Traces, Trace
  <2>2. [i \in 1 .. 0 |-> e[i]] = <<>>  OBVIOUS
  <2> QED  BY <1>1, <2>1, <2>2
<1>13. ASSUME NEW k \in 0 .. n - 1, k \in P PROVE k + 1 \in P
  <2>1. k + 1 \in 1 .. n /\ k + 1 - 1 = k /\ k + 1 \in 0 .. n /\ k \in 0 .. n
    BY <1>1
  <2>2. acc[k] \in C /\ acc[k + 1] = Append(acc[k], e[k + 1])
    <3>1. acc[k] \in C /\ acc[k + 1] = g[<<acc[k], k + 1>>]
      BY <1>10, <2>1 DEF Traces, Trace
    <3> QED  BY <1>4, <2>1, <3>1
  <2>3. acc[k] = [i \in 1 .. k |-> e[i]]
    BY <1>13
  <2>4. Append([i \in 1 .. k |-> e[i]], e[k + 1]) = [i \in 1 .. k + 1 |-> e[i]]
    <3> DEFINE s == [i \in 1 .. k |-> e[i]]
               t == Append(s, e[k + 1])
    <3>1. s \in Seq(S) /\ Len(s) = k /\ k \in Nat
      BY <1>1, <2>1, <2>2, <2>3 DEF C
    <3>2. \A i \in 1 .. k : s[i] = e[i]  OBVIOUS
    <3> HIDE DEF s
    <3>3. /\ t = [i \in 1 .. k + 1 |-> t[i]]
          /\ \A i \in 1 .. k + 1 : t[i] = e[i]
      BY <3>1, <3>2
    <3> HIDE DEF t
    <3>4. t = [i \in 1 .. k + 1 |-> e[i]]  BY <3>3
    <3> QED  BY <3>4 DEF t, s
  <2> QED  BY <2>1, <2>2, <2>3, <2>4
<1>14. n \in P
  <2> HIDE DEF P
  <2> QED  BY <1>1, <1>12, <1>13, InductionTo
<1>15. iter[1 .. n] = [i \in 1 .. n |-> e[i]]
  BY <1>10, <1>14 DEF Traces
<1>16. e = [i \in DOMAIN b |-> NodeWith(f, b[i])]
  BY DEF e
<1> QED  BY <1>5, <1>11, <1>15, <1>16
-----------------------------------------------------------------------------
OptimizedWith(f, b) == FromSetConst(FoldedWith(f, b))

IsOptimizing(f) == f = [b \in Seq(AnyNode) |-> OptimizedWith(f, b)]

\* What a block becomes depends on what the bodies in it become.
LEMMA OptimizedByBodies ==
  ASSUME NEW f, NEW g, NEW b \in Seq(AnyNode), \A i \in DOMAIN b : f[b[i].body] = g[b[i].body]
  PROVE  OptimizedWith(f, b) = OptimizedWith(g, b)
<1>1. \A i \in DOMAIN b : NodeWith(f, b[i]) = NodeWith(g, b[i])
  BY DEF NodeWith
<1>2. [i \in DOMAIN b |-> NodeWith(f, b[i])] = [i \in DOMAIN b |-> NodeWith(g, b[i])]
  BY <1>1
<1>3. FoldedWith(f, b) = FoldedWith(g, b)
  BY <1>2, FoldedNodes
<1> QED  BY <1>3 DEF OptimizedWith

\* So the recursion on blocks defines a function, height by height.
LEMMA OptimizingExists == \E f : IsOptimizing(f)
<1> DEFINE Low(k) == {b \in Seq(AnyNode) : Height(b) <= k}
           Is(f, k) == f = [b \in Low(k) |-> OptimizedWith(f, b)]
           G == {k \in 0 .. MaxNesting : \E f : Is(f, k)}
<1>0. MaxNesting \in Nat
  BY MaxNestingAssumption
<1>1. \A b \in Seq(AnyNode) : /\ Height(b) \in 0 .. MaxNesting
                              /\ \A i \in DOMAIN b : /\ b[i].body \in Seq(AnyNode)
                                                     /\ Height(b[i].body) < Height(b)
  BY HeightFalls
<1>2. 0 \in G
  <2> DEFINE f == [b \in Low(0) |-> OptimizedWith(<<>>, b)]
  <2>1. ASSUME NEW b \in Low(0) PROVE OptimizedWith(<<>>, b) = OptimizedWith(f, b)
    <3>1. b \in Seq(AnyNode) /\ Height(b) = 0
      BY <1>1
    <3>2. \A i \in DOMAIN b : FALSE
      <4> SUFFICES ASSUME NEW i \in DOMAIN b PROVE FALSE
        OBVIOUS
      <4>1. Height(b[i].body) \in 0 .. MaxNesting /\ Height(b[i].body) < 0
        BY <1>1, <3>1
      <4> QED  BY <4>1
    <3> HIDE DEF f
    <3> QED  BY <3>1, <3>2, OptimizedByBodies
  <2>2. f = [b \in Low(0) |-> OptimizedWith(f, b)]
    BY <2>1
  <2> HIDE DEF f
  <2>3. 0 \in 0 .. MaxNesting  BY <1>0
  <2> QED  BY <2>2, <2>3
<1>3. ASSUME NEW k \in 0 .. MaxNesting - 1, k \in G PROVE k + 1 \in G
  <2>1. PICK f : Is(f, k)  BY <1>3
  <2> DEFINE g == [b \in Low(k + 1) |-> OptimizedWith(f, b)]
  <2>2. \A b \in Low(k) : f[b] = g[b]
    <3> SUFFICES ASSUME NEW b \in Low(k) PROVE f[b] = g[b]
      OBVIOUS
    <3>1. b \in Low(k + 1)  BY <1>0, <1>1
    <3> HIDE DEF Low
    <3> QED  BY <2>1, <3>1
  <2> HIDE DEF g
  <2>3. ASSUME NEW b \in Low(k + 1) PROVE OptimizedWith(f, b) = OptimizedWith(g, b)
    <3>1. b \in Seq(AnyNode)  OBVIOUS
    <3>2. \A i \in DOMAIN b : b[i].body \in Low(k)
      <4> SUFFICES ASSUME NEW i \in DOMAIN b PROVE b[i].body \in Low(k)
        OBVIOUS
      <4>1. /\ b[i].body \in Seq(AnyNode) /\ Height(b[i].body) < Height(b)
            /\ Height(b[i].body) \in Int /\ Height(b) \in Int /\ Height(b) <= k + 1 /\ k \in Int
        BY <1>1
      <4> QED  BY <4>1
    <3> HIDE DEF Low
    <3>3. \A i \in DOMAIN b : f[b[i].body] = g[b[i].body]
      BY <2>2, <3>2
    <3> QED  BY <3>1, <3>3, OptimizedByBodies
  <2>4. g = [b \in Low(k + 1) |-> OptimizedWith(g, b)]
    <3> HIDE DEF Low
    <3> QED  BY <2>3 DEF g
  <2>5. k + 1 \in 0 .. MaxNesting  BY <1>0
  <2> HIDE DEF Low
  <2> QED  BY <2>4, <2>5
<1>4. MaxNesting \in G
  <2> HIDE DEF G
  <2> QED  BY <1>0, <1>2, <1>3, InductionTo
<1>5. Low(MaxNesting) = Seq(AnyNode)
  BY <1>1
<1> HIDE DEF Low
<1> QED  BY <1>4, <1>5 DEF IsOptimizing

\* What becomes of a node, and of a block whose nodes before i have been dealt with.
Optimized(n) ==
  IF n.kind # "LOOP" THEN n
  ELSE RecognizeMultiply(ZeroingLoop(SetZero([n EXCEPT !.body = OptimizeBlock(@)])))

NodesFrom(b, i) == [j \in DOMAIN b |-> IF j < i THEN b[j] ELSE Optimized(b[j])]

LEMMA OptimizeBlockSteps ==
  ASSUME NEW block \in Seq(AnyNode)
  PROVE  OptimizeBlock(block) = FromSetConst(NodesFrom(block, 1))
<1> DEFINE optimized == CHOOSE f : IsOptimizing(f)
<1>1. IsOptimizing(optimized)
  BY OptimizingExists
<1>2. \A b : OptimizeBlock(b) = optimized[b]
  BY DEF OptimizeBlock, IsOptimizing, OptimizedWith, FoldedWith, NodeWith, FromSetConst,
         FromStores1, FromScanReturn, FromMultiZero, FromStores2, FromIfs, FromStores3,
         FromMarking
<1> HIDE DEF optimized
<1>3. optimized[block] = OptimizedWith(optimized, block)
  BY <1>1 DEF IsOptimizing
<1>4. FoldedWith(optimized, block) = [i \in DOMAIN block |-> NodeWith(optimized, block[i])]
  BY FoldedNodes
<1>5. \A i \in DOMAIN block : NodeWith(optimized, block[i]) = Optimized(block[i])
  BY <1>2 DEF NodeWith, Optimized
<1>6. \A j \in DOMAIN block : ~(j < 1)
  OBVIOUS
<1>7. FoldedWith(optimized, block) = NodesFrom(block, 1)
  BY <1>4, <1>5, <1>6 DEF NodesFrom
<1> QED  BY <1>2, <1>3, <1>7 DEF OptimizedWith
-----------------------------------------------------------------------------
(* What each invocation of the stack will return.                          *)

\* Of one whose node at index becomes n by the pass under way.
OnceIs(n, f) == FromSetConst(NodesFrom([f.block EXCEPT ![f.index] = n], f.index + 1))

\* Of the top one.
Yields(f) ==
  LET b == f.block
      n == b[f.index]
  IN  CASE f.pass = "visit"          -> FromSetConst(NodesFrom(b, f.index))
        [] f.pass = "set zero"       -> OnceIs(RecognizeMultiply(ZeroingLoop(SetZero(n))), f)
        [] f.pass = "zeroing loop"   -> OnceIs(RecognizeMultiply(ZeroingLoop(n)), f)
        [] f.pass = "multiply loop"  -> OnceIs(RecognizeMultiply(n), f)
        [] f.pass = "fold set const" -> FromSetConst(b)
        [] f.pass = "dead stores 1"  -> FromStores1(b)
        [] f.pass = "scan return"    -> FromScanReturn(b)
        [] f.pass = "multi zero"     -> FromMultiZero(b)
        [] f.pass = "dead stores 2"  -> FromStores2(b)
        [] f.pass = "loops to ifs"   -> FromIfs(b)
        [] f.pass = "dead stores 3"  -> FromStores3(b)
        [] f.pass = "mark nonnull"   -> FromMarking(b)
        [] f.pass = "done"           -> b

\* Of one that waits for the body of the LOOP at its index.
WillYield(f) == FromSetConst(NodesFrom(f.block, f.index))

\* The block an invocation was made for: the root, or the body in the one below.
CalledFor(root, stack, k) ==
  IF k = 1 THEN root ELSE stack[k - 1].block[stack[k - 1].index].body

OnCourse(root, stack) ==
  /\ Yields(stack[Len(stack)]) = OptimizeBlock(CalledFor(root, stack, Len(stack)))
  /\ \A k \in 1 .. Len(stack) - 1 :
       WillYield(stack[k]) = OptimizeBlock(CalledFor(root, stack, k))

DoneAtRoot(stack) == stack[Len(stack)].pass = "done" => Len(stack) = 1

EndInv == DoneAtRoot(frames) /\ (~spared => OnCourse(original, frames))

LEMMA YieldsInvoked ==
  ASSUME NEW b, NEW i
  PROVE  Yields([block |-> b, index |-> i, pass |-> "visit"]) = FromSetConst(NodesFrom(b, i))
  BY DEF Yields

LEMMA YieldsAtNode ==
  ASSUME NEW b, NEW i
  PROVE  LET Is(pass) == [block |-> b, index |-> i, pass |-> pass]
             Once(n)  == FromSetConst(NodesFrom([b EXCEPT ![i] = n], i + 1))
         IN  /\ Yields(Is("set zero")) = Once(RecognizeMultiply(ZeroingLoop(SetZero(b[i]))))
             /\ Yields(Is("zeroing loop")) = Once(RecognizeMultiply(ZeroingLoop(b[i])))
             /\ Yields(Is("multiply loop")) = Once(RecognizeMultiply(b[i]))
  BY DEF Yields, OnceIs

LEMMA YieldsOfBlock ==
  ASSUME NEW b, NEW i
  PROVE  LET Is(pass) == [block |-> b, index |-> i, pass |-> pass]
         IN  /\ Yields(Is("fold set const")) = FromSetConst(b)
             /\ Yields(Is("dead stores 1")) = FromStores1(b)
             /\ Yields(Is("scan return")) = FromScanReturn(b)
             /\ Yields(Is("multi zero")) = FromMultiZero(b)
             /\ Yields(Is("dead stores 2")) = FromStores2(b)
             /\ Yields(Is("loops to ifs")) = FromIfs(b)
             /\ Yields(Is("dead stores 3")) = FromStores3(b)
             /\ Yields(Is("mark nonnull")) = FromMarking(b)
             /\ Yields(Is("done")) = b
  BY DEF Yields

\* A top frame that yields the same, at the same place.
LEMMA TopChanges ==
  ASSUME NEW root, NEW stack, StackOK(stack), OnCourse(root, stack), NEW f,
         Yields(f) = Yields(stack[Len(stack)])
  PROVE  OnCourse(root, [stack EXCEPT ![Len(stack)] = f])
<1> DEFINE n == Len(stack)
           s == [stack EXCEPT ![n] = f]
<1>1. stack \in Seq(Frame) /\ n \in 1 .. MaxNesting + 1 /\ n \in Nat \ {0}
  <2>1. stack \in Seq(Frame) /\ n \in 1 .. MaxNesting + 1  BY DEF StackOK
  <2> QED  BY <2>1, MaxNestingAssumption
<1>2. Len(s) = n /\ s[n] = f /\ \A k \in 1 .. n - 1 : s[k] = stack[k]
  BY <1>1
<1> HIDE DEF s
<1>3. \A k \in 1 .. n : CalledFor(root, s, k) = CalledFor(root, stack, k)
  <2> SUFFICES ASSUME NEW k \in 1 .. n
               PROVE  CalledFor(root, s, k) = CalledFor(root, stack, k)
    OBVIOUS
  <2>1. k = 1 \/ k - 1 \in 1 .. n - 1  BY <1>1
  <2> QED  BY <1>2, <2>1 DEF CalledFor
<1>4. OnCourse(root, s)
  <2> HIDE DEF n
  <2>1. n \in 1 .. n /\ \A k \in 1 .. n - 1 : k \in 1 .. n  BY <1>1
  <2> QED  BY <1>2, <1>3, <2>1 DEF OnCourse, n
<1> QED  BY <1>4 DEF s

LEMMA SetTopOnCourse ==
  ASSUME Inv, OnCourse(original, frames), UNCHANGED original, NEW f, SetTop(f),
         Yields(f) = Yields(Top)
  PROVE  OnCourse(original, frames)'
  BY TopChanges DEF Inv, SetTop, Top, Depth
-----------------------------------------------------------------------------
LEMMA NodesFromSteps ==
  ASSUME NEW T, NEW b \in Seq(T), NEW i \in Nat \ {0}
  PROVE  /\ i > Len(b) => NodesFrom(b, i) = b
         /\ i \in DOMAIN b =>
              NodesFrom(b, i) = NodesFrom([b EXCEPT ![i] = Optimized(b[i])], i + 1)
<1>1. ASSUME i > Len(b) PROVE NodesFrom(b, i) = b
  <2>1. \A j \in DOMAIN b : j < i  BY <1>1
  <2>2. NodesFrom(b, i) = [j \in DOMAIN b |-> b[j]]
    BY <2>1 DEF NodesFrom
  <2> QED  BY <2>2
<1>2. ASSUME i \in DOMAIN b
      PROVE  NodesFrom(b, i) = NodesFrom([b EXCEPT ![i] = Optimized(b[i])], i + 1)
  <2> DEFINE c == [b EXCEPT ![i] = Optimized(b[i])]
  <2>1. DOMAIN c = DOMAIN b /\ c[i] = Optimized(b[i]) /\ \A j \in DOMAIN b : j # i => c[j] = b[j]
    BY <1>2
  <2> HIDE DEF c
  <2>2. \A j \in DOMAIN b : (IF j < i THEN b[j] ELSE Optimized(b[j])) =
                             (IF j < i + 1 THEN c[j] ELSE Optimized(c[j]))
    BY <2>1
  <2>3. NodesFrom(b, i) = NodesFrom(c, i + 1)
    BY <2>1, <2>2 DEF NodesFrom
  <2> QED  BY <2>3 DEF c
<1> QED  BY <1>1, <1>2

\* A LOOP is visited: its invocation waits for that of its body.
LEMMA PushOnCourse ==
  ASSUME NEW root, NEW stack, StackOK(stack), OnCourse(root, stack),
         stack[Len(stack)].pass = "visit",
         NEW f, f.block = stack[Len(stack)].block, f.index = stack[Len(stack)].index,
         NEW body \in Seq(AnyNode), body = f.block[f.index].body
  PROVE  OnCourse(root, Append([stack EXCEPT ![Len(stack)] = f], Invocation(body)))
<1> DEFINE n == Len(stack)
           top == stack[n]
           s == [stack EXCEPT ![n] = f]
           t == Append(s, Invocation(body))
<1>1. stack \in Seq(Frame) /\ n \in Nat \ {0} /\ n + 1 - 1 = n /\ n + 1 # 1
  <2>1. stack \in Seq(Frame) /\ n \in 1 .. MaxNesting + 1  BY DEF StackOK
  <2> HIDE DEF n
  <2> QED  BY <2>1, MaxNestingAssumption
<1>2. s \in Seq({stack[i] : i \in 1 .. n} \union {f}) /\ Len(s) = n
      /\ s[n] = f /\ \A k \in 1 .. n - 1 : s[k] = stack[k]
  BY <1>1
<1> HIDE DEF s
<1>3. /\ Len(t) = n + 1 /\ t[n + 1] = Invocation(body) /\ t[n] = f
      /\ \A k \in 1 .. n - 1 : t[k] = stack[k]
  <2> HIDE DEF n
  <2> QED  BY <1>1, <1>2
<1> HIDE DEF t
<1>4. \A k \in 1 .. n : CalledFor(root, t, k) = CalledFor(root, stack, k)
  <2> SUFFICES ASSUME NEW k \in 1 .. n
               PROVE  CalledFor(root, t, k) = CalledFor(root, stack, k)
    OBVIOUS
  <2>1. k = 1 \/ k - 1 \in 1 .. n - 1  BY <1>1
  <2> QED  BY <1>3, <2>1 DEF CalledFor
<1>5. WillYield(f) = OptimizeBlock(CalledFor(root, t, n))
  <2>1. top \in Frame
    <3>1. n = Len(stack)  OBVIOUS
    <3> HIDE DEF n
    <3> QED  BY <1>1, <3>1
  <2>2. top = [block |-> f.block, index |-> f.index, pass |-> "visit"]
    BY <2>1 DEF Frame
  <2> HIDE DEF top
  <2>3. Yields(top) = WillYield(f)
    BY <2>2, YieldsInvoked DEF WillYield
  <2>4. n \in 1 .. n  BY <1>1
  <2> QED  BY <1>4, <2>3, <2>4 DEF OnCourse, top
<1>6. Yields(t[n + 1]) = OptimizeBlock(CalledFor(root, t, n + 1))
  <2>1. Yields(Invocation(body)) = FromSetConst(NodesFrom(body, 1))
    BY YieldsInvoked DEF Invocation
  <2>2. CalledFor(root, t, n + 1) = body
    <3> HIDE DEF n
    <3> QED  BY <1>1, <1>3 DEF CalledFor
  <2> QED  BY <1>3, <2>1, <2>2, OptimizeBlockSteps
<1>7. \A k \in 1 .. n + 1 - 1 : WillYield(t[k]) = OptimizeBlock(CalledFor(root, t, k))
  <2> SUFFICES ASSUME NEW k \in 1 .. n + 1 - 1
               PROVE  WillYield(t[k]) = OptimizeBlock(CalledFor(root, t, k))
    OBVIOUS
  <2> HIDE DEF n
  <2>1. k = n \/ k \in 1 .. n - 1  BY <1>1
  <2>2. k \in 1 .. n  BY <1>1
  <2>3. CASE k = n  BY <1>3, <1>5, <2>3
  <2>4. CASE k \in 1 .. n - 1  BY <1>3, <1>4, <2>2, <2>4 DEF OnCourse, n
  <2> QED  BY <2>1, <2>3, <2>4
<1>8. OnCourse(root, t)
  <2> HIDE DEF n
  <2>1. Yields(t[Len(t)]) = OptimizeBlock(CalledFor(root, t, Len(t)))
    BY <1>3, <1>6
  <2>2. \A k \in 1 .. Len(t) - 1 : WillYield(t[k]) = OptimizeBlock(CalledFor(root, t, k))
    <3> SUFFICES ASSUME NEW k \in 1 .. Len(t) - 1
                 PROVE  WillYield(t[k]) = OptimizeBlock(CalledFor(root, t, k))
      OBVIOUS
    <3>1. k \in 1 .. n + 1 - 1  BY <1>1, <1>3
    <3> QED  BY <1>7, <3>1
  <2> QED  BY <2>1, <2>2 DEF OnCourse
<1> QED  BY <1>8 DEF t, s

LEMMA VisitOnCourse ==
  ASSUME Inv, OnCourse(original, frames), Visit
  PROVE  OnCourse(original, frames)'
<1> DEFINE h == Level(Depth)
           b == Top.block
           i == Top.index
<1>1. /\ Top \in Frame /\ b \in Seq(Unmarked(h)) /\ i \in Nat \ {0}
      /\ Depth \in DOMAIN frames /\ frames \in Seq(Frame) /\ Top.pass = "visit"
      /\ Top = [block |-> b, index |-> i, pass |-> "visit"]
  BY TopIs DEF Visit, At
<1>2. UNCHANGED original
  BY DEF Visit, Done
<1>3. Yields(Top) = FromSetConst(NodesFrom(b, i))
  BY <1>1, YieldsInvoked
<1> HIDE DEF h, b, i
<1>4. CASE i > Len(b)
  <2> DEFINE f == [block |-> b, index |-> i, pass |-> "fold set const"]
  <2>1. SetTop(f)
    <3>1. frames' = [frames EXCEPT ![Depth].pass = "fold set const"]
      BY <1>4 DEF Visit, b, i
    <3>2. frames[Depth] = Top  BY DEF Top
    <3>3. [Top EXCEPT !.pass = "fold set const"] = f
      BY <1>1, NewPass DEF b, i
    <3> QED  BY <3>1, <3>2, <3>3 DEF SetTop
  <2>2. Yields(f) = Yields(Top)
    <3>1. NodesFrom(b, i) = b  BY <1>1, <1>4, NodesFromSteps
    <3>2. Yields(f) = FromSetConst(b)  BY YieldsOfBlock
    <3> QED  BY <1>3, <3>1, <3>2
  <2> QED  BY <1>2, <2>1, <2>2, SetTopOnCourse
<1>5. CASE ~(i > Len(b)) /\ Here.kind # "LOOP"
  <2> DEFINE f == [block |-> b, index |-> i + 1, pass |-> "visit"]
  <2>1. SetTop(f)
    <3>1. frames' = [frames EXCEPT ![Depth] = NextNode]
      BY <1>5 DEF Visit, b, i
    <3>2. NextNode = f
      BY <1>1, NewIndex DEF NextNode, b, i
    <3> QED  BY <3>1, <3>2 DEF SetTop
  <2>2. i \in DOMAIN b
    BY <1>1, <1>5
  <2>3. Optimized(b[i]) = b[i]
    BY <1>5 DEF Optimized, Here, b, i
  <2>4. [b EXCEPT ![i] = b[i]] = b
    BY <1>1
  <2>5. NodesFrom(b, i) = NodesFrom(b, i + 1)
    BY <1>1, <2>2, <2>3, <2>4, NodesFromSteps
  <2>6. Yields(f) = Yields(Top)
    BY <1>3, <2>5, YieldsInvoked
  <2> QED  BY <1>2, <2>1, <2>6, SetTopOnCourse
<1>6. CASE ~(i > Len(b)) /\ Here.kind = "LOOP"
  <2> DEFINE f == [block |-> b, index |-> i, pass |-> "set zero"]
  <2>1. frames' = Append([frames EXCEPT ![Depth] = f], Invocation(Here.body))
    <3>1. frames' = Append([frames EXCEPT ![Depth].pass = "set zero"], Invocation(Here.body))
      BY <1>6 DEF Visit, b, i
    <3>2. frames[Depth] = Top  BY DEF Top
    <3>3. [Top EXCEPT !.pass = "set zero"] = f
      BY <1>1, NewPass DEF b, i
    <3> QED  BY <3>1, <3>2, <3>3
  <2>2. i \in DOMAIN b
    BY <1>1, <1>6
  <2>3. Here.body \in Seq(AnyNode)
    <3>1. b \in Seq(AnyNode)  BY <1>1, UnmarkedIsAny, TopIs DEF h, b, Frame
    <3>2. b[i].body \in Seq(AnyNode)  BY <2>2, <3>1, HeightFalls
    <3> QED  BY <3>2 DEF Here, b, i
  <2>4. Here.body = f.block[f.index].body  BY DEF Here, b, i
  <2>5. /\ StackOK(frames) /\ Depth = Len(frames) /\ frames[Len(frames)].pass = "visit"
        /\ f.block = frames[Len(frames)].block /\ f.index = frames[Len(frames)].index
    BY <1>1 DEF Inv, Depth, Top, b, i
  <2> HIDE DEF f
  <2>6. OnCourse(original, frames')
    BY <2>1, <2>3, <2>4, <2>5, PushOnCourse
  <2> QED  BY <1>2, <2>6
<1> QED  BY <1>4, <1>5, <1>6

LEMMA NodePassesOnCourse ==
  ASSUME Inv, OnCourse(original, frames), ~spared',
         SetZeroPass \/ ZeroingLoopPass \/ MultiplyLoopPass
  PROVE  OnCourse(original, frames)'
<1> DEFINE b == Top.block
           i == Top.index
           Is(block, pass) == [block |-> block, index |-> i, pass |-> pass]
           With(n) == [b EXCEPT ![i] = n]
           Once(n) == FromSetConst(NodesFrom(With(n), i + 1))
<1>0. Top = Is(b, Top.pass)
  BY TopIs
<1>1. Top \in Frame /\ i \in DOMAIN b /\ Here = b[i]
  BY TopIs, AtNode DEF SetZeroPass, ZeroingLoopPass, MultiplyLoopPass, Here
<1>2. UNCHANGED original
  BY DEF SetZeroPass, ZeroingLoopPass, MultiplyLoopPass, Done, Spare
<1>3. ASSUME NEW n, NEW pass
      PROVE  [Top EXCEPT !.block[Top.index] = n, !.pass = pass] = Is(With(n), pass)
  BY <1>1, NewNode
<1>4. ASSUME NEW n
      PROVE  [NextNode EXCEPT !.block[Top.index] = n] =
               [block |-> With(n), index |-> i + 1, pass |-> "visit"]
  BY <1>1, NewNodeAndIndex DEF NextNode
<1>5. ASSUME NEW n, NEW m PROVE With(n)[i] = n /\ [With(n) EXCEPT ![i] = m] = With(m)
  BY <1>1
<1> HIDE DEF b, i, With
<1>6. CASE SetZeroPass
  <2>1. SetTop(Is(With(SetZero(Here)), "zeroing loop"))
    BY <1>3, <1>6 DEF SetZeroPass, NodeBecomes
  <2>2. Yields(Top) = Once(RecognizeMultiply(ZeroingLoop(SetZero(Here))))
    <3>1. Top = Is(b, "set zero")  BY <1>0, <1>6 DEF SetZeroPass, At
    <3>2. Yields(Is(b, "set zero")) = Once(RecognizeMultiply(ZeroingLoop(SetZero(Here))))
      BY <1>1, YieldsAtNode DEF With
    <3> QED  BY <3>1, <3>2
  <2> DEFINE n == SetZero(Here)
             m == RecognizeMultiply(ZeroingLoop(n))
  <2>3. Yields(Is(With(n), "zeroing loop")) = Yields(Top)
    <3>1. /\ With(n)[i] = n
          /\ \A x : [With(n) EXCEPT ![i] = x] = With(x)
      BY <1>5
    <3>2. Yields(Is(With(n), "zeroing loop")) =
            FromSetConst(NodesFrom(
              [With(n) EXCEPT ![i] = RecognizeMultiply(ZeroingLoop(With(n)[i]))], i + 1))
      BY YieldsAtNode
    <3> HIDE DEF n
    <3>3. Yields(Is(With(n), "zeroing loop")) = Once(m)
      BY <3>1, <3>2
    <3> QED  BY <2>2, <3>3 DEF n
  <2> QED  BY <1>2, <2>1, <2>3, SetTopOnCourse
<1>7. CASE ZeroingLoopPass
  <2>1. SetTop(Is(With(ZeroingLoop(Here)), "multiply loop"))
    BY <1>3, <1>7 DEF ZeroingLoopPass, NodeBecomes, Spare
  <2>2. Yields(Top) = Once(RecognizeMultiply(ZeroingLoop(Here)))
    <3>1. Top = Is(b, "zeroing loop")  BY <1>0, <1>7 DEF ZeroingLoopPass, At
    <3>2. Yields(Is(b, "zeroing loop")) = Once(RecognizeMultiply(ZeroingLoop(Here)))
      BY <1>1, YieldsAtNode DEF With
    <3> QED  BY <3>1, <3>2
  <2> DEFINE n == ZeroingLoop(Here)
  <2>3. Yields(Is(With(n), "multiply loop")) = Yields(Top)
    <3>1. /\ With(n)[i] = n
          /\ \A x : [With(n) EXCEPT ![i] = x] = With(x)
      BY <1>5
    <3>2. Yields(Is(With(n), "multiply loop")) =
            FromSetConst(NodesFrom([With(n) EXCEPT ![i] = RecognizeMultiply(With(n)[i])], i + 1))
      BY YieldsAtNode
    <3> HIDE DEF n
    <3>3. Yields(Is(With(n), "multiply loop")) = Once(RecognizeMultiply(n))
      BY <3>1, <3>2
    <3> QED  BY <2>2, <3>3 DEF n
  <2> QED  BY <1>2, <2>1, <2>3, SetTopOnCourse
<1>8. CASE MultiplyLoopPass
  <2> DEFINE f == [block |-> With(RecognizeMultiply(Here)), index |-> i + 1, pass |-> "visit"]
  <2>1. SetTop(f)
    BY <1>4, <1>8 DEF MultiplyLoopPass
  <2>2. Yields(Top) = Once(RecognizeMultiply(Here))
    <3>1. Top = Is(b, "multiply loop")  BY <1>0, <1>8 DEF MultiplyLoopPass, At
    <3>2. Yields(Is(b, "multiply loop")) = Once(RecognizeMultiply(Here))
      BY <1>1, YieldsAtNode DEF With
    <3> QED  BY <3>1, <3>2
  <2>3. Yields(f) = Yields(Top)
    BY <2>2, YieldsInvoked
  <2> QED  BY <1>2, <2>1, <2>3, SetTopOnCourse
<1> QED  BY <1>6, <1>7, <1>8

LEMMA BlockPassesOnCourse ==
  ASSUME Inv, OnCourse(original, frames), ~spared',
         \/ FoldSetConstPass \/ DeadStoresPasses \/ FoldScanReturnPass
         \/ FoldMultiZeroPass \/ LoopsToIfsPass
  PROVE  OnCourse(original, frames)'
<1> DEFINE b == Top.block
           Is(block, pass) == [block |-> block, index |-> Top.index, pass |-> pass]
<1>0. Top = Is(b, Top.pass)
  BY TopIs
<1>1. Top \in Frame
  BY TopIs
<1>2. UNCHANGED original
  BY DEF FoldSetConstPass, DeadStoresPasses, DeadStoresPass, FoldScanReturnPass,
         FoldMultiZeroPass, LoopsToIfsPass, Done, Spare
<1>3. ASSUME NEW c, NEW pass
      PROVE  [Top EXCEPT !.block = c, !.pass = pass] = Is(c, pass)
  BY <1>1, NewBlock
<1>4. ASSUME NEW c, NEW pass, NEW next, Top.pass = pass, SetTop(Is(c, next)),
             Yields(Is(c, next)) = Yields(Is(b, pass))
      PROVE  OnCourse(original, frames)'
  <2>1. Top = Is(b, pass)  BY <1>0, <1>4
  <2> HIDE DEF Is
  <2> QED  BY <1>2, <1>4, <2>1, SetTopOnCourse
<1> HIDE DEF b
<1>5. CASE FoldSetConstPass
  <2>1. Top.pass = "fold set const" /\ SetTop(Is(FoldSetConst(b), "dead stores 1"))
    BY <1>3, <1>5 DEF FoldSetConstPass, BlockBecomes, At, b
  <2>2. Yields(Is(FoldSetConst(b), "dead stores 1")) = Yields(Is(b, "fold set const"))
    <3>1. Yields(Is(FoldSetConst(b), "dead stores 1")) = FromStores1(FoldSetConst(b))
      BY YieldsOfBlock
    <3>2. Yields(Is(b, "fold set const")) = FromSetConst(b)
      BY YieldsOfBlock
    <3> QED  BY <3>1, <3>2 DEF FromSetConst
  <2> HIDE DEF Is
  <2> QED  BY <1>4, <2>1, <2>2
<1>6. CASE DeadStoresPass("dead stores 1", "scan return")
  <2>1. Top.pass = "dead stores 1" /\ SetTop(Is(EliminateDeadStores(b), "scan return"))
    BY <1>3, <1>6 DEF DeadStoresPass, BlockBecomes, At, b, Spare
  <2>2. Yields(Is(EliminateDeadStores(b), "scan return")) = Yields(Is(b, "dead stores 1"))
    <3>1. Yields(Is(EliminateDeadStores(b), "scan return")) = FromScanReturn(EliminateDeadStores(b))
      BY YieldsOfBlock
    <3>2. Yields(Is(b, "dead stores 1")) = FromStores1(b)
      BY YieldsOfBlock
    <3> QED  BY <3>1, <3>2 DEF FromStores1
  <2> HIDE DEF Is
  <2> QED  BY <1>4, <2>1, <2>2
<1>7. CASE DeadStoresPass("dead stores 2", "loops to ifs")
  <2>1. Top.pass = "dead stores 2" /\ SetTop(Is(EliminateDeadStores(b), "loops to ifs"))
    BY <1>3, <1>7 DEF DeadStoresPass, BlockBecomes, At, b, Spare
  <2>2. Yields(Is(EliminateDeadStores(b), "loops to ifs")) = Yields(Is(b, "dead stores 2"))
    <3>1. Yields(Is(EliminateDeadStores(b), "loops to ifs")) = FromIfs(EliminateDeadStores(b))
      BY YieldsOfBlock
    <3>2. Yields(Is(b, "dead stores 2")) = FromStores2(b)
      BY YieldsOfBlock
    <3> QED  BY <3>1, <3>2 DEF FromStores2
  <2> HIDE DEF Is
  <2> QED  BY <1>4, <2>1, <2>2
<1>8. CASE DeadStoresPass("dead stores 3", "mark nonnull")
  <2>1. Top.pass = "dead stores 3" /\ SetTop(Is(EliminateDeadStores(b), "mark nonnull"))
    BY <1>3, <1>8 DEF DeadStoresPass, BlockBecomes, At, b, Spare
  <2>2. Yields(Is(EliminateDeadStores(b), "mark nonnull")) = Yields(Is(b, "dead stores 3"))
    <3>1. Yields(Is(EliminateDeadStores(b), "mark nonnull")) = FromMarking(EliminateDeadStores(b))
      BY YieldsOfBlock
    <3>2. Yields(Is(b, "dead stores 3")) = FromStores3(b)
      BY YieldsOfBlock
    <3> QED  BY <3>1, <3>2 DEF FromStores3
  <2> HIDE DEF Is
  <2> QED  BY <1>4, <2>1, <2>2
<1>9. CASE FoldScanReturnPass
  <2>1. Top.pass = "scan return" /\ SetTop(Is(FoldScanReturn(b), "multi zero"))
    BY <1>3, <1>9 DEF FoldScanReturnPass, BlockBecomes, At, b
  <2>2. Yields(Is(FoldScanReturn(b), "multi zero")) = Yields(Is(b, "scan return"))
    <3>1. Yields(Is(FoldScanReturn(b), "multi zero")) = FromMultiZero(FoldScanReturn(b))
      BY YieldsOfBlock
    <3>2. Yields(Is(b, "scan return")) = FromScanReturn(b)
      BY YieldsOfBlock
    <3> QED  BY <3>1, <3>2 DEF FromScanReturn
  <2> HIDE DEF Is
  <2> QED  BY <1>4, <2>1, <2>2
<1>10. CASE FoldMultiZeroPass
  <2>1. PICK failing : /\ BlockBecomes(FoldMultiZero(Top.block, failing), "dead stores 2")
                       /\ spared' = (spared \/ failing # {})
    BY <1>10 DEF FoldMultiZeroPass
  <2>2. failing = {}
    BY <2>1
  <2>3. Top.pass = "multi zero" /\ SetTop(Is(FoldMultiZero(b, {}), "dead stores 2"))
    BY <1>3, <1>10, <2>1, <2>2 DEF FoldMultiZeroPass, BlockBecomes, At, b
  <2>4. Yields(Is(FoldMultiZero(b, {}), "dead stores 2")) = Yields(Is(b, "multi zero"))
    <3>1. Yields(Is(FoldMultiZero(b, {}), "dead stores 2")) = FromStores2(FoldMultiZero(b, {}))
      BY YieldsOfBlock
    <3>2. Yields(Is(b, "multi zero")) = FromMultiZero(b)
      BY YieldsOfBlock
    <3> QED  BY <3>1, <3>2 DEF FromMultiZero
  <2> HIDE DEF Is
  <2> QED  BY <1>4, <2>3, <2>4
<1>11. CASE LoopsToIfsPass
  <2>1. Top.pass = "loops to ifs" /\ SetTop(Is(LoopsToIfs(b), "dead stores 3"))
    BY <1>3, <1>11 DEF LoopsToIfsPass, BlockBecomes, At, b
  <2>2. Yields(Is(LoopsToIfs(b), "dead stores 3")) = Yields(Is(b, "loops to ifs"))
    <3>1. Yields(Is(LoopsToIfs(b), "dead stores 3")) = FromStores3(LoopsToIfs(b))
      BY YieldsOfBlock
    <3>2. Yields(Is(b, "loops to ifs")) = FromIfs(b)
      BY YieldsOfBlock
    <3> QED  BY <3>1, <3>2 DEF FromIfs
  <2> HIDE DEF Is
  <2> QED  BY <1>4, <2>1, <2>2
<1> QED  BY <1>5, <1>6, <1>7, <1>8, <1>9, <1>10, <1>11 DEF DeadStoresPasses

\* The caller of an invocation that returns yields what it was to yield.
LEMMA ReturnYields ==
  ASSUME NEW b \in Seq(AnyNode), NEW i \in DOMAIN b, b[i].kind = "LOOP", i \in Nat \ {0},
         NEW body, body = OptimizeBlock(b[i].body)
  PROVE  Yields([block |-> [b EXCEPT ![i].body = body], index |-> i, pass |-> "set zero"]) =
           FromSetConst(NodesFrom(b, i))
<1> DEFINE n == [b[i] EXCEPT !.body = body]
           c == [b EXCEPT ![i] = n]
           o == RecognizeMultiply(ZeroingLoop(SetZero(n)))
<1>1. o = Optimized(b[i])
  BY DEF Optimized
<1>2. c[i] = n /\ \A x : [c EXCEPT ![i] = x] = [b EXCEPT ![i] = x]
  OBVIOUS
<1>3. [b EXCEPT ![i].body = body] = c
  OBVIOUS
<1> HIDE DEF c, n
<1>4. Yields([block |-> c, index |-> i, pass |-> "set zero"]) =
        FromSetConst(NodesFrom([c EXCEPT ![i] = RecognizeMultiply(ZeroingLoop(SetZero(c[i])))],
                               i + 1))
  BY YieldsAtNode
<1>5. [c EXCEPT ![i] = RecognizeMultiply(ZeroingLoop(SetZero(c[i])))] =
        [b EXCEPT ![i] = Optimized(b[i])]
  BY <1>1, <1>2
<1>6. NodesFrom(b, i) = NodesFrom([b EXCEPT ![i] = Optimized(b[i])], i + 1)
  BY NodesFromSteps
<1> QED  BY <1>3, <1>4, <1>5, <1>6

LEMMA NewBlockOnly ==
  ASSUME NEW f \in Frame, NEW b
  PROVE  [f EXCEPT !.block = b] = [block |-> b, index |-> f.index, pass |-> f.pass]
<1> DEFINE x == f.block
           y == f.index
           z == f.pass
<1>1. f = [block |-> x, index |-> y, pass |-> z]
  BY DEF Frame
<1> HIDE DEF x, y, z
<1>2. [f EXCEPT !.block = b] = [block |-> b, index |-> y, pass |-> z]
  BY <1>1
<1> QED  BY <1>2 DEF y, z

LEMMA PopOnCourse ==
  ASSUME NEW root, NEW stack, StackOK(stack), OnCourse(root, stack), Len(stack) # 1,
         NEW body, body = Yields(stack[Len(stack)])
  PROVE  LET below == Len(stack) - 1
         IN  OnCourse(root, [SubSeq(stack, 1, below) EXCEPT
                               ![below].block[stack[below].index].body = body])
<1> DEFINE n    == Len(stack)
           m    == n - 1
           rest == SubSeq(stack, 1, m)
           top  == stack[m]
           b    == top.block
           i    == top.index
           new  == [block |-> [b EXCEPT ![i].body = body], index |-> i, pass |-> "set zero"]
           s    == [rest EXCEPT ![m] = new]
<1>1. /\ stack \in Seq(Frame) /\ n \in 1 .. MaxNesting + 1 /\ n # 1
      /\ n \in 1 .. Len(stack)
  BY DEF StackOK
<1>2. /\ m \in Nat \ {0} /\ m \in 1 .. n - 1 /\ m \in 1 .. n /\ m + 1 = n
  <2> HIDE DEF n
  <2> QED  BY <1>1, MaxNestingAssumption
<1>3. Len(rest) = m /\ rest \in Seq(Frame) /\ \A k \in 1 .. m : rest[k] = stack[k]
  BY <1>1, <1>2
<1>4. top \in Frame /\ Waits(top)
  <2> HIDE DEF m
  <2> QED  BY <1>1, <1>2 DEF StackOK
<1> HIDE DEF rest
<1>5. Len(s) = m /\ s[m] = new /\ \A k \in 1 .. m - 1 : s[k] = stack[k]
  <2> HIDE DEF new, m, top
  <2> QED  BY <1>2, <1>3
<1>6. [rest EXCEPT ![m].block[i].body = body] = s
  <2>1. rest[m] = top
    BY <1>2, <1>3
  <2>2. [top EXCEPT !.block[i].body = body] = new
    <3> DEFINE e == [b EXCEPT ![i].body = body]
    <3>1. [top EXCEPT !.block[i].body = body] = [top EXCEPT !.block = e]
      OBVIOUS
    <3> HIDE DEF e, b, i
    <3>2. [top EXCEPT !.block = e] = [block |-> e, index |-> i, pass |-> "set zero"]
      <4>1. top \in Frame /\ top.pass = "set zero"
        BY <1>4 DEF Waits
      <4> HIDE DEF top
      <4>2. [top EXCEPT !.block = e] = [block |-> e, index |-> top.index, pass |-> top.pass]
        BY <4>1, NewBlockOnly
      <4> QED  BY <4>1, <4>2 DEF i
    <3> QED  BY <3>1, <3>2 DEF e, b
  <2> HIDE DEF top, new, m
  <2> QED  BY <1>2, <2>1, <2>2
<1>7. b \in Seq(AnyNode) /\ i \in DOMAIN b /\ b[i].kind = "LOOP" /\ i \in Nat \ {0}
  BY <1>4 DEF Frame, Waits
<1>8. body = OptimizeBlock(b[i].body)
  BY <1>1, <1>2 DEF OnCourse, CalledFor
<1>9. Yields(new) = WillYield(top)
  <2> HIDE DEF b, i
  <2>1. WillYield(top) = FromSetConst(NodesFrom(b, i))  BY DEF WillYield, b, i
  <2> QED  BY <1>7, <1>8, <2>1, ReturnYields
<1> HIDE DEF s, new
<1>10. \A k \in 1 .. m : CalledFor(root, s, k) = CalledFor(root, stack, k)
  <2> HIDE DEF m
  <2> SUFFICES ASSUME NEW k \in 1 .. m
               PROVE  CalledFor(root, s, k) = CalledFor(root, stack, k)
    OBVIOUS
  <2>1. k = 1 \/ k - 1 \in 1 .. m - 1  BY <1>2
  <2> QED  BY <1>5, <2>1 DEF CalledFor
<1>11. \A k \in 1 .. m : WillYield(stack[k]) = OptimizeBlock(CalledFor(root, stack, k))
  <2> SUFFICES ASSUME NEW k \in 1 .. m
               PROVE  WillYield(stack[k]) = OptimizeBlock(CalledFor(root, stack, k))
    OBVIOUS
  <2>1. k \in 1 .. Len(stack) - 1  BY <1>2
  <2> QED  BY <2>1 DEF OnCourse
<1>12. OnCourse(root, s)
  <2>1. Yields(s[m]) = OptimizeBlock(CalledFor(root, s, m))
    <3>1. m \in 1 .. m  BY <1>2
    <3>2. WillYield(top) = OptimizeBlock(CalledFor(root, stack, m))  BY <1>11, <3>1
    <3>3. CalledFor(root, s, m) = CalledFor(root, stack, m)  BY <1>10, <3>1
    <3> HIDE DEF m, top
    <3> QED  BY <1>5, <1>9, <3>2, <3>3
  <2> HIDE DEF m
  <2>2. ASSUME NEW k \in 1 .. m - 1
        PROVE  WillYield(s[k]) = OptimizeBlock(CalledFor(root, s, k))
    <3>1. k \in 1 .. m  BY <1>2
    <3> QED  BY <1>5, <1>10, <1>11, <3>1
  <2> QED  BY <1>5, <2>1, <2>2 DEF OnCourse
<1> QED  BY <1>6, <1>12 DEF rest

LEMMA MarkNonnullPassOnCourse ==
  ASSUME Inv, OnCourse(original, frames), MarkNonnullPass
  PROVE  OnCourse(original, frames)'
<1> DEFINE b == Top.block
<1>1. Top \in Frame /\ Depth \in DOMAIN frames /\ frames \in Seq(Frame) /\ Depth = Len(frames)
  BY TopIs DEF Depth
<1>2. UNCHANGED original
  BY DEF MarkNonnullPass, Done
<1>3. Yields(Top) = MarkNonnull(b)
  <2>1. Top = [block |-> b, index |-> Top.index, pass |-> "mark nonnull"]
    BY TopIs DEF MarkNonnullPass, At
  <2>2. Yields([block |-> b, index |-> Top.index, pass |-> "mark nonnull"]) = FromMarking(b)
    BY YieldsOfBlock
  <2> QED  BY <2>1, <2>2 DEF FromMarking
<1>4. CASE Depth = 1
  <2> DEFINE f == [block |-> MarkNonnull(b), index |-> Top.index, pass |-> "done"]
  <2>1. [Top EXCEPT !.block = MarkNonnull(b), !.pass = "done"] = f
    BY <1>1, NewBlock
  <2>2. frames' = <<f>>
    BY <1>4, <2>1 DEF MarkNonnullPass
  <2>3. Yields(f) = Yields(Top)
    BY <1>3, YieldsOfBlock
  <2> HIDE DEF f
  <2>4. [frames EXCEPT ![Depth] = f] = <<f>>
    BY <1>1, <1>4 DEF Depth
  <2> QED  BY <1>2, <2>2, <2>3, <2>4, SetTopOnCourse DEF SetTop
<1>5. CASE Depth # 1
  <2> DEFINE below == Depth - 1
             body  == MarkNonnull(b)
  <2>1. frames' = [SubSeq(frames, 1, below) EXCEPT
                     ![below].block[frames[below].index].body = body]
    BY <1>5 DEF MarkNonnullPass
  <2>2. body = Yields(frames[Len(frames)])
    BY <1>1, <1>3 DEF Top
  <2> HIDE DEF body
  <2>3. OnCourse(original, frames')
    BY <1>1, <1>5, <2>1, <2>2, PopOnCourse DEF Inv
  <2> QED  BY <1>2, <2>3
<1> QED  BY <1>4, <1>5

LEMMA NextOnCourse ==
  ASSUME Inv, OnCourse(original, frames), [Next]_vars, ~spared'
  PROVE  OnCourse(original, frames)'
<1>1. CASE Visit  BY <1>1, VisitOnCourse
<1>2. CASE SetZeroPass \/ ZeroingLoopPass \/ MultiplyLoopPass
  BY <1>2, NodePassesOnCourse
<1>3. CASE \/ FoldSetConstPass \/ DeadStoresPasses \/ FoldScanReturnPass
           \/ FoldMultiZeroPass \/ LoopsToIfsPass
  BY <1>3, BlockPassesOnCourse
<1>4. CASE MarkNonnullPass  BY <1>4, MarkNonnullPassOnCourse
<1>5. CASE Finished \/ UNCHANGED vars
  BY <1>5 DEF Finished, vars, OnCourse, CalledFor
<1> QED  BY <1>1, <1>2, <1>3, <1>4, <1>5 DEF Next, Step

\* No memory that was missing comes to have been there.
LEMMA SparedStays ==
  ASSUME [Next]_vars, ~spared'
  PROVE  ~spared
<1>1. CASE FoldMultiZeroPass  BY <1>1 DEF FoldMultiZeroPass
<1> QED
  BY <1>1 DEF Next, Step, Visit, SetZeroPass, ZeroingLoopPass, MultiplyLoopPass, FoldSetConstPass,
              DeadStoresPasses, DeadStoresPass, FoldScanReturnPass, LoopsToIfsPass,
              MarkNonnullPass, Finished, Done, Spare, vars

\* Only the root's invocation is the last.
LEMMA NewTopStays ==
  ASSUME Inv, NEW f, SetTop(f), f.pass # "done"
  PROVE  DoneAtRoot(frames)'
<1>1. frames' = [frames EXCEPT ![Len(frames)] = f]
  BY DEF SetTop, Depth
<1>2. Len(frames) \in DOMAIN frames /\ frames \in Seq(Frame)
  BY TopIs DEF Depth
<1>3. Len(frames') = Len(frames) /\ frames'[Len(frames)] = f
  BY <1>1, <1>2
<1> QED  BY <1>3 DEF DoneAtRoot

LEMMA PassesStayAtRoot ==
  ASSUME Inv, \/ SetZeroPass \/ ZeroingLoopPass \/ MultiplyLoopPass
              \/ FoldSetConstPass \/ DeadStoresPasses \/ FoldScanReturnPass
              \/ FoldMultiZeroPass \/ LoopsToIfsPass
  PROVE  DoneAtRoot(frames)'
<1> DEFINE Later == {"visit", "zeroing loop", "multiply loop", "dead stores 1", "scan return",
                     "multi zero", "dead stores 2", "loops to ifs", "dead stores 3",
                     "mark nonnull"}
<1>1. Top \in Frame
  BY TopIs
<1>2. ASSUME NEW pass \in Later, NEW b, NEW i, SetTop([block |-> b, index |-> i, pass |-> pass])
      PROVE  DoneAtRoot(frames)'
  BY <1>2, NewTopStays
<1>3. ASSUME NEW n, NEW pass \in Later, NodeBecomes(n, pass) PROVE DoneAtRoot(frames)'
  <2>1. SetTop([block |-> [Top.block EXCEPT ![Top.index] = n], index |-> Top.index,
               pass |-> pass])
    BY <1>1, <1>3, NewNode DEF NodeBecomes
  <2> HIDE DEF Later
  <2> QED  BY <1>2, <2>1
<1>4. ASSUME NEW b, NEW pass \in Later, BlockBecomes(b, pass) PROVE DoneAtRoot(frames)'
  <2>1. SetTop([block |-> b, index |-> Top.index, pass |-> pass])
    BY <1>1, <1>4, NewBlock DEF BlockBecomes
  <2> HIDE DEF Later
  <2> QED  BY <1>2, <2>1
<1>5. ASSUME NEW pass \in Later, Spare(pass) PROVE DoneAtRoot(frames)'
  <2>1. SetTop([block |-> Top.block, index |-> Top.index, pass |-> pass])
    BY <1>1, <1>5, NewPass DEF Spare
  <2> HIDE DEF Later
  <2> QED  BY <1>2, <2>1
<1>6. /\ "visit" \in Later /\ "zeroing loop" \in Later /\ "multiply loop" \in Later
      /\ "dead stores 1" \in Later /\ "scan return" \in Later /\ "multi zero" \in Later
      /\ "dead stores 2" \in Later /\ "loops to ifs" \in Later /\ "dead stores 3" \in Later
      /\ "mark nonnull" \in Later
  OBVIOUS
<1> HIDE DEF Later
<1>7. CASE SetZeroPass \/ ZeroingLoopPass
  BY <1>3, <1>5, <1>6, <1>7 DEF SetZeroPass, ZeroingLoopPass
<1>8. CASE MultiplyLoopPass
  <2>1. \/ \E n : SetTop([NextNode EXCEPT !.block[Top.index] = n])
        \/ SetTop(NextNode)
    BY <1>8 DEF MultiplyLoopPass
  <2>2. CASE \E n : SetTop([NextNode EXCEPT !.block[Top.index] = n])
    <3>1. PICK n : SetTop([NextNode EXCEPT !.block[Top.index] = n])  BY <2>2
    <3>2. [NextNode EXCEPT !.block[Top.index] = n] =
            [block |-> [Top.block EXCEPT ![Top.index] = n], index |-> Top.index + 1,
             pass |-> "visit"]
      BY <1>1, NewNodeAndIndex DEF NextNode
    <3>3. SetTop([block |-> [Top.block EXCEPT ![Top.index] = n], index |-> Top.index + 1,
                 pass |-> "visit"])
      BY <3>1, <3>2
    <3> QED  BY <1>2, <1>6, <3>3
  <2>3. CASE SetTop(NextNode)
    <3>1. NextNode = [block |-> Top.block, index |-> Top.index + 1, pass |-> "visit"]
      BY <1>1, NewIndex DEF NextNode
    <3> QED  BY <1>2, <1>6, <2>3, <3>1
  <2> QED  BY <2>1, <2>2, <2>3
<1>9. CASE FoldSetConstPass \/ FoldScanReturnPass \/ FoldMultiZeroPass \/ LoopsToIfsPass
  BY <1>4, <1>6, <1>9
     DEF FoldSetConstPass, FoldScanReturnPass, FoldMultiZeroPass, LoopsToIfsPass
<1>10. CASE DeadStoresPasses
  BY <1>4, <1>5, <1>6, <1>10 DEF DeadStoresPasses, DeadStoresPass
<1> QED  BY <1>7, <1>8, <1>9, <1>10

LEMMA VisitStaysAtRoot ==
  ASSUME Inv, Visit
  PROVE  DoneAtRoot(frames)'
<1>1. Top \in Frame /\ Depth \in DOMAIN frames /\ frames \in Seq(Frame)
  BY TopIs
<1>2. frames[Depth] = Top
  BY DEF Top
<1>3. CASE Top.index > Len(Top.block)
  <2>1. [Top EXCEPT !.pass = "fold set const"] =
          [block |-> Top.block, index |-> Top.index, pass |-> "fold set const"]
    BY <1>1, NewPass
  <2>2. SetTop([Top EXCEPT !.pass = "fold set const"])
    BY <1>2, <1>3 DEF Visit, SetTop
  <2> QED  BY <2>1, <2>2, NewTopStays
<1>4. CASE ~(Top.index > Len(Top.block)) /\ Here.kind # "LOOP"
  <2>1. NextNode = [block |-> Top.block, index |-> Top.index + 1, pass |-> "visit"]
    BY <1>1, NewIndex DEF NextNode
  <2>2. SetTop(NextNode)
    BY <1>4 DEF Visit, SetTop
  <2> QED  BY <2>1, <2>2, NewTopStays
<1>5. CASE ~(Top.index > Len(Top.block)) /\ Here.kind = "LOOP"
  <2> DEFINE new == Invocation(Here.body)
             x   == [frames[Depth] EXCEPT !.pass = "set zero"]
             s   == [frames EXCEPT ![Depth] = x]
  <2>1. frames' = Append(s, new)
    BY <1>5 DEF Visit
  <2>2. new.pass = "visit"
    BY DEF Invocation
  <2>3. s \in Seq(Frame \union {x}) /\ Len(s) \in Nat
    <3> HIDE DEF x
    <3> QED  BY <1>1
  <2> HIDE DEF new, s, x
  <2>4. Len(frames') = Len(s) + 1 /\ frames'[Len(s) + 1] = new
    <3> DEFINE T == Frame \union {x}
    <3> HIDE DEF T
    <3>1. s \in Seq(T \union {new})
      BY <2>3 DEF T
    <3> QED  BY <2>1, <3>1
  <2> QED  BY <2>2, <2>4 DEF DoneAtRoot
<1> QED  BY <1>3, <1>4, <1>5

LEMMA MarkNonnullPassStaysAtRoot ==
  ASSUME Inv, MarkNonnullPass
  PROVE  DoneAtRoot(frames)'
<1>1. /\ Depth \in Nat \ {0} /\ frames \in Seq(Frame) /\ Depth = Len(frames)
      /\ \A k \in 1 .. Depth - 1 : Waits(frames[k])
  <2>1. Len(frames) \in 1 .. MaxNesting + 1 /\ frames \in Seq(Frame)  BY DEF Inv, StackOK
  <2>2. Len(frames) \in Nat \ {0}  BY <2>1, MaxNestingAssumption
  <2> QED  BY <2>1, <2>2 DEF Inv, StackOK, Depth
<1>2. CASE Depth = 1
  <2>1. \E f : frames' = <<f>>
    BY <1>2 DEF MarkNonnullPass
  <2>2. Len(frames') = 1
    BY <2>1
  <2> QED  BY <2>2 DEF DoneAtRoot
<1>3. CASE Depth # 1
  <2> DEFINE m    == Depth - 1
             rest == SubSeq(frames, 1, m)
             i    == frames[m].index
             body == MarkNonnull(Top.block)
             s    == [rest EXCEPT ![m].block[i].body = body]
  <2>1. frames' = s
    BY <1>3 DEF MarkNonnullPass
  <2>2. m \in 1 .. Depth - 1 /\ m \in Nat \ {0} /\ m \in 1 .. Depth
    BY <1>1, <1>3
  <2>3. rest \in Seq(Frame) /\ Len(rest) = m /\ rest[m] = frames[m] /\ frames[m] \in Frame
    BY <1>1, <2>2
  <2>4. rest[m].pass = "set zero"
    BY <1>1, <2>2, <2>3 DEF Waits
  <2> HIDE DEF rest, m, body, i
  <2>5. Len(s) = m /\ s[m] = [rest[m] EXCEPT !.block[i].body = body]
    BY <2>2, <2>3
  <2>6. s[m].pass = "set zero"
    BY <2>3, <2>4, <2>5 DEF Frame
  <2> QED  BY <2>1, <2>5, <2>6 DEF DoneAtRoot
<1> QED  BY <1>2, <1>3
-----------------------------------------------------------------------------
LEMMA InitEndInv == Init => EndInv
<1> SUFFICES ASSUME Init PROVE EndInv
  OBVIOUS
<1> DEFINE f == Invocation(original)
<1>1. frames = <<f>> /\ original \in Seq(AnyNode)
  BY ProgramsAssumption DEF Init
<1>2. f.pass = "visit" /\ Yields(f) = OptimizeBlock(original)
  BY <1>1, YieldsInvoked, OptimizeBlockSteps DEF Invocation
<1> HIDE DEF f
<1>3. Len(frames) = 1 /\ frames[1] = f /\ \A k \in 1 .. Len(frames) - 1 : FALSE
  BY <1>1
<1> QED  BY <1>2, <1>3 DEF EndInv, DoneAtRoot, OnCourse, CalledFor

LEMMA NextKeepsEndInv == Inv /\ EndInv /\ [Next]_vars => EndInv'
<1> SUFFICES ASSUME Inv, EndInv, [Next]_vars PROVE EndInv'
  OBVIOUS
<1>1. DoneAtRoot(frames)'
  <2>1. CASE Visit  BY <2>1, VisitStaysAtRoot
  <2>2. CASE \/ SetZeroPass \/ ZeroingLoopPass \/ MultiplyLoopPass
             \/ FoldSetConstPass \/ DeadStoresPasses \/ FoldScanReturnPass
             \/ FoldMultiZeroPass \/ LoopsToIfsPass
    BY <2>2, PassesStayAtRoot
  <2>3. CASE MarkNonnullPass  BY <2>3, MarkNonnullPassStaysAtRoot
  <2>4. CASE Finished \/ UNCHANGED vars
    BY <2>4 DEF Finished, vars, DoneAtRoot, EndInv
  <2> QED  BY <2>1, <2>2, <2>3, <2>4 DEF Next, Step
<1>2. ASSUME ~spared' PROVE OnCourse(original, frames)'
  <2>1. OnCourse(original, frames)
    BY <1>2, SparedStays DEF EndInv
  <2> QED  BY <1>2, <2>1, NextOnCourse
<1> QED  BY <1>1, <1>2 DEF EndInv
-----------------------------------------------------------------------------
(* Theorems.                                                               *)

\* Whatever the parsed program, and whichever allocations of the optimiser's passes
\* fail: in the program as it would be if bf_opt_block stopped between two passes, no
\* two terms of a multiply loop have one offset and none is of the counter, and every
\* IF and NONNULL_MULTIPLY_LOOP is one for the reason that bf_try_convert_loop_to_if
\* or bf_mark_known_nonnull_multiply_in_ifs found, which no later pass took away.
THEOREM OptimizerJustifies == Spec => []JustifiedSoFar
<1>1. Inv => JustifiedSoFar
  <2> SUFFICES ASSUME Inv PROVE JustifiedSoFar
    OBVIOUS
  <2> DEFINE h == MaxNesting
             U == Unmarked(h)
             S == Sound(h)
             N == NodesUpTo[h]
             b == Rebuilt
  <2>0. h \in 0 .. MaxNesting  BY MaxNestingAssumption
  <2>1. U \subseteq S /\ S \subseteq N /\ \A n \in U : n.kind # "NONNULL_MULTIPLY_LOOP"
    BY DEF Unmarked, Sound
  <2>2. b \in Seq(U)
    BY RebuiltIsUnmarked
  <2> HIDE DEF U, S, N, b, h
  <2>3. b \in Seq(S) /\ b \in Seq(N)
    BY <2>1, <2>2
  <2>4. \A i \in DOMAIN b : b[i].kind # "NONNULL_MULTIPLY_LOOP"
    BY <2>1, <2>2
  <2>5. \A n \in NodesOf(b) : Justified(n)
    BY <2>0, <2>3, SoundBlock DEF S, N
  <2> QED  BY <2>4, <2>5 DEF JustifiedSoFar, Justified, NoNonnull, b
<1>2. Inv /\ [Next]_vars => Inv'
  BY NextKeepsInv
<1> QED  BY <1>1, <1>2, InitInv, PTL DEF Spec

\* Whatever the parsed program: when the passes are over and no allocation failed,
\* the state machine's program is the one OptimizeBlock makes of it, from which the
\* runs of the interpreter and of the code generators start.
THEOREM OptimizerEndsOptimized == Spec => []EndsOptimized
<1>1. Inv /\ EndInv => EndsOptimized
  <2> SUFFICES ASSUME Inv, EndInv, ~Optimizing, ~spared
               PROVE  Rebuilt = OptimizeBlock(original)
    BY DEF EndsOptimized
  <2>1. frames # <<>> /\ Len(frames) \in Nat \ {0}
    <3>1. Len(frames) \in 1 .. MaxNesting + 1 /\ frames \in Seq(Frame)  BY DEF Inv, StackOK
    <3> QED  BY <3>1, MaxNestingAssumption
  <2>2. Top.pass = "done"
    BY <2>1 DEF Optimizing
  <2>3. Len(frames) = 1
    BY <2>2 DEF EndInv, DoneAtRoot, Top, Depth
  <2>4. Top = frames[1] /\ Top = [block |-> Top.block, index |-> Top.index, pass |-> "done"]
    BY <2>2, <2>3, TopIs DEF Top, Depth
  <2>5. Yields(Top) = Top.block
    <3>1. Yields([block |-> Top.block, index |-> Top.index, pass |-> "done"]) = Top.block
      BY YieldsOfBlock
    <3> QED  BY <2>4, <3>1
  <2>6. Yields(Top) = OptimizeBlock(original)
    BY <2>3, <2>4 DEF EndInv, OnCourse, CalledFor
  <2> DEFINE plugged == CHOOSE f : PlugsFrom(f, frames, 1)
  <2>7. PlugsFrom(plugged, frames, 1)
    BY <2>1, PluggingExists
  <2>8. Rebuilt = plugged[1]
    BY DEF Rebuilt, PlugsFrom, Put, Depth
  <2> HIDE DEF plugged
  <2>9. plugged[1] = frames[1].block
    <3>1. 1 \in 1 .. Len(frames)  BY <2>3
    <3>2. plugged[1] = Put(plugged, frames, 1)  BY <2>7, <3>1 DEF PlugsFrom
    <3> QED  BY <2>3, <3>2 DEF Put
  <2> QED  BY <2>4, <2>5, <2>6, <2>8, <2>9
<1>2. Inv /\ [Next]_vars => Inv'
  BY NextKeepsInv
<1> QED  BY <1>1, <1>2, InitInv, InitEndInv, NextKeepsEndInv, PTL DEF Spec
=============================================================================
