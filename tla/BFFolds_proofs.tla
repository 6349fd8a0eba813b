---------------------------- MODULE BFFolds_proofs ----------------------------
(***************************************************************************)
(* Lemmas that the proofs about the interpreter and about the generated    *)
(* code share: induction and recursion in terms of sets, what the folds of *)
(* the community modules compute, and the extremes of sets of integers.    *)
(***************************************************************************)
EXTENDS BFJitPlan, BFLoops, FiniteSets, TLAPS, FiniteSetTheorems
-----------------------------------------------------------------------------
(* Induction.                                                              *)

\* A nonempty set of naturals has a least element: among the intervals 0 .. n
\* with n in the set, one contains no other.
LEMMA NatMinimum ==
  ASSUME NEW T, T \subseteq Nat, T # {}
  PROVE  \E m \in T : \A n \in T : m <= n
<1> DEFINE F == {0 .. n : n \in T}
<1>1. F \subseteq FiniteSubsetsOf(Nat)
  <2> SUFFICES ASSUME NEW n \in T PROVE 0 .. n \in FiniteSubsetsOf(Nat)
    OBVIOUS
  <2>1. IsFiniteSet(0 .. n)  BY FS_Interval
  <2>2. 0 .. n \in SUBSET Nat  OBVIOUS
  <2> QED  BY <2>1, <2>2 DEF FiniteSubsetsOf
<1>2. F # {}  OBVIOUS
<1> DEFINE R == StrictSubsetOrdering(Nat)
           S == FiniteSubsetsOf(Nat)
<1>3. IsWellFoundedOn(R, S)
  BY FS_StrictSubsetOrderingWellFounded
<1> HIDE DEF F
<1>4. PICK I \in F : \A J \in F : ~ (<<J, I>> \in R)
  <2> HIDE DEF R, S
  <2>1. F \subseteq S  BY <1>1 DEF S
  <2> QED  BY <1>2, <1>3, <2>1, WFMin
<1>5. PICK m \in T : I = 0 .. m
  BY DEF F
<1>6. \A n \in T : m <= n
  <2> SUFFICES ASSUME NEW n \in T, n < m PROVE FALSE
    OBVIOUS
  <2>1. 0 .. n \in F  BY DEF F
  <2>2. /\ 0 .. n \subseteq 0 .. m /\ 0 .. n # 0 .. m
        /\ 0 .. n \in SUBSET Nat /\ 0 .. m \in SUBSET Nat
    OBVIOUS
  <2>3. <<0 .. n, 0 .. m>> \in R
    BY <2>2 DEF StrictSubsetOrdering
  <2> QED  BY <1>4, <1>5, <2>1, <2>3
<1> QED  BY <1>6

\* Induction up to N, on the set of the numbers that have the property.
LEMMA InductionTo ==
  ASSUME NEW N \in Nat, NEW G, 0 \in G, \A n \in 0 .. N - 1 : n \in G => n + 1 \in G
  PROVE  N \in G
<1> DEFINE T == {n \in 0 .. N : n \notin G}
<1> SUFFICES ASSUME T # {} PROVE FALSE
  OBVIOUS
<1>1. PICK m \in T : \A n \in T : m <= n
  <2>1. T \subseteq Nat  OBVIOUS
  <2> HIDE DEF T
  <2> QED  BY <2>1, NatMinimum
<1>2. m # 0 /\ m - 1 \in 0 .. N - 1
  OBVIOUS
<1>3. m - 1 \in G
  <2>1. m - 1 \notin T  BY <1>1, <1>2
  <2> QED  BY <1>2, <2>1
<1> QED  BY <1>2, <1>3

\* A set of subsets has them all, when it has each of which it has all that
\* are one element smaller.
LEMMA SubsetInduction ==
  ASSUME NEW S, IsFiniteSet(S), NEW G,
         \A s \in SUBSET S : (\A x \in s : s \ {x} \in G) => s \in G
  PROVE  \A s \in SUBSET S : s \in G
<1> DEFINE R == StrictSubsetOrdering(S)
           F == FiniteSubsetsOf(S)
           T == {s \in SUBSET S : s \notin G}
<1> SUFFICES ASSUME T # {} PROVE FALSE
  OBVIOUS
<1>1. T \subseteq F
  BY FS_Subset DEF FiniteSubsetsOf
<1>2. IsWellFoundedOn(R, F)
  BY FS_StrictSubsetOrderingWellFounded
<1>3. PICK s \in T : \A t \in T : ~ (<<t, s>> \in R)
  <2> HIDE DEF R, F, T
  <2> QED  BY <1>1, <1>2, WFMin
<1>4. \A x \in s : s \ {x} \in G
  <2> SUFFICES ASSUME NEW x \in s, s \ {x} \notin G PROVE FALSE
    OBVIOUS
  <2>1. s \ {x} \in T /\ s \ {x} \subseteq s /\ s \ {x} # s
    OBVIOUS
  <2>2. <<s \ {x}, s>> \in R
    BY <2>1 DEF StrictSubsetOrdering
  <2> QED  BY <1>3, <2>1, <2>2
<1> QED  BY <1>3, <1>4
-----------------------------------------------------------------------------
(***************************************************************************)
(* Recursion.  A recursive function exists if its value at a point depends *)
(* only on its values at points of a lesser height: G takes what the       *)
(* function is taken to be to what its definition then makes of it.        *)
(***************************************************************************)
Descends(G, h, D, V) ==
  /\ [D -> V] # {}
  /\ h \in [D -> Nat]
  /\ G \in [[D -> V] -> [D -> V]]
  /\ \A f, g \in [D -> V], x \in D :
       (\A y \in D : h[y] < h[x] => f[y] = g[y]) => G[f][x] = G[g][x]

IsFixpoint(f, G, D, V) == f \in [D -> V] /\ G[f] = f

LEMMA RecursionByHeight ==
  ASSUME NEW D, NEW V, NEW h, NEW G, Descends(G, h, D, V)
  PROVE  \E f : IsFixpoint(f, G, D, V)
<1> DEFINE F == [D -> V]
<1> USE DEF Descends
<1>0. PICK start \in F : TRUE
  OBVIOUS
<1> DEFINE Good(f, n) == \A x \in D : h[x] < n => G[f][x] = f[x]
           T == {n \in Nat : \A f \in [D -> V] : ~Good(f, n)}
\* One that is right below each height.
<1>1. T = {}
  <2> SUFFICES ASSUME T # {} PROVE FALSE
    OBVIOUS
  <2>1. PICK m \in T : \A n \in T : m <= n
    <3>1. T \subseteq Nat  OBVIOUS
    <3> HIDE DEF T
    <3> QED  BY <3>1, NatMinimum
  <2>2. m # 0
    <3> SUFFICES ASSUME m = 0 PROVE FALSE
      OBVIOUS
    <3>1. Good(start, 0)  OBVIOUS
    <3> QED  BY <1>0, <2>1, <3>1
  <2>3. m \in Nat /\ m - 1 \in Nat /\ m - 1 \notin T
    BY <2>1, <2>2
  <2>4. PICK f \in [D -> V] : Good(f, m - 1)
    BY <2>3
  <2>5. G[f] \in [D -> V]
    OBVIOUS
  <2>6. Good(G[f], m)
    <3> SUFFICES ASSUME NEW x \in D, h[x] < m PROVE G[G[f]][x] = G[f][x]
      OBVIOUS
    <3>1. ASSUME NEW y \in D, h[y] < h[x] PROVE G[f][y] = f[y]
      <4>1. h[y] \in Nat /\ h[x] \in Nat  OBVIOUS
      <4>2. h[y] < m - 1  BY <2>3, <3>1, <4>1
      <4> QED  BY <2>4, <4>2
    <3> QED  BY <2>5, <3>1
  <2> QED  BY <2>1, <2>5, <2>6
\* Two of them agree there.
<1>2. ASSUME NEW f \in [D -> V], NEW g \in [D -> V], NEW n \in Nat, NEW k \in Nat,
             Good(f, n), Good(g, k), NEW x \in D, h[x] < n, h[x] < k
      PROVE  f[x] = g[x]
  <2> DEFINE B == {y \in D : h[y] <= h[x] /\ f[y] # g[y]}
             H == {h[y] : y \in B}
  <2> SUFFICES ASSUME B # {} PROVE FALSE
    OBVIOUS
  <2>1. PICK m \in H : \A j \in H : m <= j
    <3>1. H \subseteq Nat
      <4>1. \A y \in D : h[y] \in Nat  OBVIOUS
      <4> QED  BY <4>1
    <3>2. H # {}
      <4>1. PICK y \in B : TRUE  OBVIOUS
      <4>2. h[y] \in H  BY <4>1
      <4> QED  BY <4>2
    <3> HIDE DEF H
    <3> QED  BY <3>1, <3>2, NatMinimum
  <2>2. PICK y \in B : m = h[y]
    OBVIOUS
  <2>3. ASSUME NEW z \in D, h[z] < h[y] PROVE f[z] = g[z]
    <3> SUFFICES ASSUME f[z] # g[z] PROVE FALSE
      OBVIOUS
    <3>0. h[z] \in Nat /\ h[y] \in Nat /\ h[x] \in Nat /\ h[y] <= h[x]  OBVIOUS
    <3>1. z \in B  BY <2>3, <3>0
    <3>2. h[z] \in H  BY <3>1
    <3>3. h[y] <= h[z]  BY <2>1, <2>2, <3>2
    <3> HIDE DEF B, H
    <3> QED  BY <2>3, <3>0, <3>3
  <2>4. G[f][y] = G[g][y]
    BY <2>3
  <2>5. h[y] < n /\ h[y] < k
    <3>1. h[y] \in Nat /\ h[x] \in Nat /\ h[y] <= h[x]  OBVIOUS
    <3> QED  BY <1>2, <3>1
  <2>6. f[y] = g[y]
    BY <1>2, <2>4, <2>5
  <2> QED  BY <2>6
<1> DEFINE Up(x) == CHOOSE f \in [D -> V] : Good(f, h[x] + 1)
           E == [x \in D |-> Up(x)[x]]
<1>3. ASSUME NEW x \in D PROVE Up(x) \in [D -> V] /\ Good(Up(x), h[x] + 1)
  <2>1. h[x] + 1 \in Nat  OBVIOUS
  <2>2. \E f \in [D -> V] : Good(f, h[x] + 1)  BY <1>1, <2>1
  <2> QED  BY <2>2
<1>4. E \in F
  <2> HIDE DEF Up
  <2> QED  BY <1>3
<1>5. ASSUME NEW x \in D PROVE G[E][x] = E[x]
  <2> DEFINE f == Up(x)
  <2>1. f \in [D -> V] /\ Good(f, h[x] + 1) /\ h[x] \in Nat
    BY <1>3
  <2>2. ASSUME NEW y \in D, h[y] <= h[x] PROVE E[y] = f[y]
    <3>1. Up(y) \in [D -> V] /\ Good(Up(y), h[y] + 1) /\ h[y] \in Nat  BY <1>3
    <3>2. h[y] < h[y] + 1 /\ h[y] < h[x] + 1 /\ h[x] + 1 \in Nat /\ h[y] + 1 \in Nat
      BY <2>1, <2>2, <3>1
    <3> HIDE DEF Up, Good, f
    <3>3. Up(y)[y] = f[y]  BY <1>2, <2>1, <3>1, <3>2
    <3> QED  BY <3>3
  <2>3. ASSUME NEW y \in D, h[y] < h[x] PROVE E[y] = f[y]
    <3>1. h[y] \in Nat  OBVIOUS
    <3>2. h[y] <= h[x]  BY <2>1, <2>3, <3>1
    <3> HIDE DEF E, f
    <3> QED  BY <2>2, <3>2
  <2> HIDE DEF E, Up
  <2>4. G[E][x] = G[f][x]
    BY <1>4, <2>1, <2>3
  <2>5. G[f][x] = f[x]
    BY <2>1
  <2>6. E[x] = f[x]
    BY <2>1, <2>2
  <2> QED  BY <2>4, <2>5, <2>6
<1>6. G[E] = E
  <2> HIDE DEF E
  <2>1. G[E] \in [D -> V]  BY <1>4
  <2> QED  BY <1>4, <1>5, <2>1
<1> QED  BY <1>4, <1>6 DEF IsFixpoint

\* So the function a fold over the subsets of S is defined by exists; pick says
\* which element of a subset is folded last.
CanFold(g, pick, b, C, S) ==
  /\ IsFiniteSet(S)
  /\ b \in C
  /\ g \in [C \X S -> C]
  /\ pick \in [(SUBSET S) \ {{}} -> S]
  /\ \A s \in (SUBSET S) \ {{}} : pick[s] \in s

FoldsSubsets(f, g, pick, b, C, S) ==
  /\ f \in [SUBSET S -> C]
  /\ \A s \in SUBSET S : f[s] = IF s = {} THEN b ELSE g[<<f[s \ {pick[s]}], pick[s]>>]

LEMMA FoldExists ==
  ASSUME NEW S, NEW C, NEW b, NEW g, NEW pick, CanFold(g, pick, b, C, S)
  PROVE  \E f : FoldsSubsets(f, g, pick, b, C, S)
<1> USE DEF CanFold
<1> DEFINE D == SUBSET S
           h == [s \in D |-> Cardinality(s)]
           G == [f \in [D -> C] |->
                   [s \in D |-> IF s = {} THEN b ELSE g[<<f[s \ {pick[s]}], pick[s]>>]]]
<1>1. h \in [D -> Nat]
  BY FS_CardinalityType, FS_Subset
<1>2. G \in [[D -> C] -> [D -> C]]
  <2> SUFFICES ASSUME NEW f \in [D -> C], NEW s \in D, s # {}
               PROVE  g[<<f[s \ {pick[s]}], pick[s]>>] \in C
    OBVIOUS
  <2>1. s \ {pick[s]} \in D /\ pick[s] \in S  OBVIOUS
  <2>2. f[s \ {pick[s]}] \in C  BY <2>1
  <2> QED  BY <2>1, <2>2
<1>3. [s \in D |-> b] \in [D -> C]
  OBVIOUS
<1>4. ASSUME NEW f \in [D -> C], NEW k \in [D -> C], NEW s \in D,
             \A t \in D : h[t] < h[s] => f[t] = k[t]
      PROVE  G[f][s] = G[k][s]
  <2>1. CASE s = {}  BY <2>1
  <2>2. CASE s # {}
    <3> DEFINE t == s \ {pick[s]}
    <3>1. pick[s] \in s /\ t \in D  BY <2>2
    <3>2. IsFiniteSet(s)  BY FS_Subset
    <3>3. Cardinality(s \ {pick[s]}) = Cardinality(s) - 1
      <4> DEFINE p == pick[s]
      <4>1. p \in s  BY <3>1
      <4> HIDE DEF p, D
      <4>2. Cardinality(s \ {p}) = Cardinality(s) - 1
        BY <3>2, <4>1, FS_RemoveElement
      <4> QED  BY <4>2 DEF p
    <3>4. Cardinality(s) \in Nat
      BY <3>2, FS_CardinalityType
    <3>5. h[t] = Cardinality(t) /\ h[s] = Cardinality(s)
      BY <3>1
    <3>6. h[t] < h[s]
      <4> HIDE DEF h
      <4> QED  BY <3>3, <3>4, <3>5
    <3>7. f[t] = k[t]
      <4> HIDE DEF h, t
      <4> QED  BY <1>4, <3>1, <3>6
    <3> QED  BY <2>2, <3>7
  <2> QED  BY <2>1, <2>2
<1>5. Descends(G, h, D, C)
  <2> HIDE DEF D, h, G
  <2>1. [D -> C] # {}  BY <1>3
  <2> QED  BY <1>1, <1>2, <1>4, <2>1 DEF Descends
<1>6. PICK f : IsFixpoint(f, G, D, C)
  <2> HIDE DEF D, h, G
  <2> QED  BY <1>5, RecursionByHeight
<1>7. f \in [D -> C] /\ G[f] = f
  BY <1>6 DEF IsFixpoint
<1>8. G[f] = [s \in D |-> IF s = {} THEN b ELSE g[<<f[s \ {pick[s]}], pick[s]>>]]
  BY <1>7
<1> QED  BY <1>7, <1>8 DEF FoldsSubsets
-----------------------------------------------------------------------------
(* Sums over a finite set.                                                 *)

Pick(s) == CHOOSE x \in s : TRUE

\* h has the sum of f over each subset of S.
SumsUp(h, f, S) ==
  /\ h \in [SUBSET S -> Int]
  /\ \A s \in SUBSET S :
       h[s] = IF s = {} THEN 0 ELSE f[Pick(s)] + h[s \ {Pick(s)}]

LEMMA PickIn ==
  ASSUME NEW s, s # {}
  PROVE  Pick(s) \in s
  BY DEF Pick

\* A function that has the sum of every subset exists: one that is right up to
\* a size gives one that is right up to the next.
LEMMA SumsUpExists ==
  ASSUME NEW S, IsFiniteSet(S), NEW f, \A x \in S : f[x] \in Int
  PROVE  \E h : SumsUp(h, f, S)
<1> DEFINE N == Cardinality(S)
           Good(h, s) == h[s] = IF s = {} THEN 0 ELSE f[Pick(s)] + h[s \ {Pick(s)}]
           G == {n \in 0 .. N : \E h \in [SUBSET S -> Int] :
                   \A s \in SUBSET S : Cardinality(s) <= n => Good(h, s)}
<1>0. N \in Nat /\ \A s \in SUBSET S : IsFiniteSet(s) /\ Cardinality(s) \in 0 .. N
  BY FS_CardinalityType, FS_Subset
<1>1. 0 \in G
  <2> DEFINE h == [s \in SUBSET S |-> 0]
  <2>1. h \in [SUBSET S -> Int]
    OBVIOUS
  <2>2. ASSUME NEW s \in SUBSET S, Cardinality(s) <= 0 PROVE Good(h, s)
    <3>1. s = {}  BY <1>0, <2>2, FS_EmptySet
    <3> QED  BY <3>1
  <2> HIDE DEF h
  <2> QED  BY <1>0, <2>1, <2>2
<1>2. ASSUME NEW n \in 0 .. N - 1, n \in G PROVE n + 1 \in G
  <2>1. PICK h \in [SUBSET S -> Int] :
          \A s \in SUBSET S : Cardinality(s) <= n => Good(h, s)
    BY <1>2
  <2> DEFINE g == [s \in SUBSET S |-> IF s = {} THEN 0 ELSE f[Pick(s)] + h[s \ {Pick(s)}]]
  <2>2. g \in [SUBSET S -> Int]
    <3> SUFFICES ASSUME NEW s \in SUBSET S, s # {}
                 PROVE  f[Pick(s)] + h[s \ {Pick(s)}] \in Int
      OBVIOUS
    <3>1. Pick(s) \in S  BY PickIn
    <3>2. f[Pick(s)] \in Int /\ h[s \ {Pick(s)}] \in Int  BY <2>1, <3>1
    <3> QED  BY <3>2
  <2>3. ASSUME NEW s \in SUBSET S, Cardinality(s) <= n + 1 PROVE Good(g, s)
    <3>1. CASE s = {}  BY <3>1
    <3>2. CASE s # {}
      <4> DEFINE t == s \ {Pick(s)}
      <4>1. Pick(s) \in s  BY <3>2, PickIn
      <4>2. Cardinality(t) = Cardinality(s) - 1  BY <1>0, <4>1, FS_RemoveElement
      <4>3. t \in SUBSET S /\ Cardinality(t) <= n  BY <1>0, <2>3, <4>2
      <4>4. g[t] = h[t]  BY <2>1, <4>3
      <4>5. g[s] = f[Pick(s)] + h[t]  BY <3>2
      <4> QED  BY <3>2, <4>4, <4>5
    <3> QED  BY <3>1, <3>2
  <2>4. n + 1 \in 0 .. N  BY <1>0
  <2> HIDE DEF g
  <2> QED  BY <2>2, <2>3, <2>4
<1>3. N \in G
  <2> HIDE DEF G
  <2> QED  BY <1>0, <1>1, <1>2, InductionTo
<1>4. PICK h \in [SUBSET S -> Int] : \A s \in SUBSET S : Cardinality(s) <= N => Good(h, s)
  BY <1>3
<1>5. \A s \in SUBSET S : Good(h, s)
  BY <1>0, <1>4
<1> QED  BY <1>4, <1>5 DEF SumsUp

\* The sum of a set depends only on the function's values on that set.
LEMMA SumsUpAgree ==
  ASSUME NEW S, NEW f, NEW h, SumsUp(h, f, S),
         NEW T, NEW g, NEW k, SumsUp(k, g, T),
         NEW U, IsFiniteSet(U), U \subseteq S, U \subseteq T,
         \A x \in U : f[x] = g[x]
  PROVE  h[U] = k[U]
<1> DEFINE G == {s \in SUBSET U : h[s] = k[s]}
<1>1. ASSUME NEW s \in SUBSET U, \A x \in s : s \ {x} \in G PROVE s \in G
  <2>1. CASE s = {}  BY <2>1 DEF SumsUp
  <2>2. CASE s # {}
    <3>1. Pick(s) \in s  BY <2>2, PickIn
    <3>2. h[s \ {Pick(s)}] = k[s \ {Pick(s)}]  BY <1>1, <3>1
    <3>3. h[s] = f[Pick(s)] + h[s \ {Pick(s)}]  BY <2>2 DEF SumsUp
    <3>4. k[s] = g[Pick(s)] + k[s \ {Pick(s)}]  BY <2>2 DEF SumsUp
    <3> QED  BY <3>1, <3>2, <3>3, <3>4
  <2> QED  BY <2>1, <2>2
<1>2. \A s \in SUBSET U : (\A x \in s : s \ {x} \in G) => s \in G
  BY <1>1
<1>3. U \in G
  <2> HIDE DEF G
  <2>1. \A s \in SUBSET U : s \in G
    BY <1>2, SubsetInduction
  <2> QED  BY <2>1
<1> QED  BY <1>3

\* Any element can be taken out of a sum, not just the one picked.
LEMMA SumsUpRemove ==
  ASSUME NEW S, IsFiniteSet(S), NEW f, \A x \in S : f[x] \in Int,
         NEW h, SumsUp(h, f, S), NEW k \in S
  PROVE  h[S] = f[k] + h[S \ {k}]
<1> DEFINE G == {s \in SUBSET S : \A j \in s : h[s] = f[j] + h[s \ {j}]}
<1>1. ASSUME NEW s \in SUBSET S, \A x \in s : s \ {x} \in G PROVE s \in G
  <2> SUFFICES ASSUME NEW j \in s PROVE h[s] = f[j] + h[s \ {j}]
    OBVIOUS
  <2> DEFINE p == Pick(s)
             t == s \ {p}
  <2>1. p \in s /\ h[s] = f[p] + h[t]  BY PickIn DEF SumsUp
  <2>2. CASE j = p  BY <2>1, <2>2
  <2>3. CASE j # p
    <3>1. h[t] = f[j] + h[t \ {j}]
      BY <1>1, <2>1, <2>3
    <3>2. h[s \ {j}] = f[p] + h[(s \ {j}) \ {p}]
      BY <1>1, <2>1, <2>3
    <3>3. (s \ {j}) \ {p} = t \ {j}  OBVIOUS
    <3>4. f[p] \in Int /\ f[j] \in Int /\ h[t \ {j}] \in Int
      BY <2>1 DEF SumsUp
    <3>5. h[s \ {j}] = f[p] + h[t \ {j}]
      BY <3>2, <3>3
    <3> HIDE DEF t, p
    <3> QED  BY <2>1, <3>1, <3>4, <3>5
  <2> QED  BY <2>2, <2>3
<1>2. \A s \in SUBSET S : (\A x \in s : s \ {x} \in G) => s \in G
  BY <1>1
<1>3. S \in G
  <2> HIDE DEF G
  <2>1. \A s \in SUBSET S : s \in G
    BY <1>2, SubsetInduction
  <2> QED  BY <2>1
<1> QED  BY <1>3
-----------------------------------------------------------------------------
(* The folds of the community modules are such sums.                       *)

\* FoldFunction with + is the sum of the function's values.
Total(f) == FoldFunction(+, 0, f)

LEMMA TotalSumsUp ==
  ASSUME NEW f, IsFiniteSet(DOMAIN f), \A x \in DOMAIN f : f[x] \in Int
  PROVE  \E h : SumsUp(h, f, DOMAIN f) /\ Total(f) = h[DOMAIN f]
<1> DEFINE S == DOMAIN f
           Iter(h) == h = [s \in SUBSET S |->
                             IF s = {} THEN 0
                             ELSE LET x == CHOOSE x \in s : TRUE
                                  IN  f[x] + h[s \ {x}]]
           iter == CHOOSE h : Iter(h)
<1>1. PICK h : SumsUp(h, f, S)
  BY SumsUpExists
<1>2. Iter(h)
  BY <1>1 DEF SumsUp, Pick
<1>3. Iter(iter)
  BY <1>2
<1>4. Total(f) = iter[S]
  BY DEF Total, FoldFunction, FoldFunctionOnSet, MapThenFoldSet
<1> HIDE DEF iter
<1>5. \A s \in SUBSET S : iter[s] = IF s = {} THEN 0 ELSE f[Pick(s)] + iter[s \ {Pick(s)}]
  BY <1>3 DEF Pick
<1>6. \A s \in SUBSET S : iter[s] \in Int
  <2> DEFINE G == {s \in SUBSET S : iter[s] \in Int}
  <2>1. ASSUME NEW s \in SUBSET S, \A x \in s : s \ {x} \in G PROVE s \in G
    <3>1. CASE s = {}  BY <1>5, <3>1
    <3>2. CASE s # {}
      <4>1. Pick(s) \in s  BY <3>2, PickIn
      <4>2. iter[s \ {Pick(s)}] \in Int /\ f[Pick(s)] \in Int  BY <2>1, <4>1
      <4>3. iter[s] = f[Pick(s)] + iter[s \ {Pick(s)}]  BY <1>5, <3>2
      <4> QED  BY <4>2, <4>3
    <3> QED  BY <3>1, <3>2
  <2>2. \A s \in SUBSET S : (\A x \in s : s \ {x} \in G) => s \in G
    BY <2>1
  <2>3. \A s \in SUBSET S : s \in G
    <3> HIDE DEF G
    <3> QED  BY <2>2, SubsetInduction
  <2> QED  BY <2>3
<1>7. iter \in [SUBSET S -> Int]
  BY <1>3, <1>6
<1>8. SumsUp(iter, f, S)
  BY <1>5, <1>7 DEF SumsUp
<1> QED  BY <1>4, <1>8

\* The sum of a function of integers is an integer, and 0 if all of them are.
LEMMA TotalType ==
  ASSUME NEW f, IsFiniteSet(DOMAIN f), \A x \in DOMAIN f : f[x] \in Int
  PROVE  Total(f) \in Int
<1>1. PICK h : SumsUp(h, f, DOMAIN f) /\ Total(f) = h[DOMAIN f]
  BY TotalSumsUp
<1> QED  BY <1>1 DEF SumsUp

LEMMA TotalOfZeros ==
  ASSUME NEW f, IsFiniteSet(DOMAIN f), \A x \in DOMAIN f : f[x] = 0
  PROVE  Total(f) = 0
<1>1. PICK h : SumsUp(h, f, DOMAIN f) /\ Total(f) = h[DOMAIN f]
  BY TotalSumsUp
<1> DEFINE G == {s \in SUBSET DOMAIN f : h[s] = 0}
<1>2. ASSUME NEW s \in SUBSET DOMAIN f, \A x \in s : s \ {x} \in G PROVE s \in G
  <2>1. CASE s = {}  BY <1>1, <2>1 DEF SumsUp
  <2>2. CASE s # {}
    <3>1. Pick(s) \in s /\ h[s] = f[Pick(s)] + h[s \ {Pick(s)}]
      BY <1>1, <2>2, PickIn DEF SumsUp
    <3> QED  BY <1>2, <3>1
  <2> QED  BY <2>1, <2>2
<1>3. \A s \in SUBSET DOMAIN f : (\A x \in s : s \ {x} \in G) => s \in G
  BY <1>2
<1>4. DOMAIN f \in G
  <2> HIDE DEF G
  <2>1. \A s \in SUBSET DOMAIN f : s \in G
    BY <1>3, SubsetInduction
  <2> QED  BY <2>1
<1> QED  BY <1>1, <1>4

\* Two functions that differ at one key only, or in that one of them lacks it:
\* so do their sums.
LEMMA TotalChange ==
  ASSUME NEW f, IsFiniteSet(DOMAIN f), \A x \in DOMAIN f : f[x] \in Int,
         NEW g, NEW k, DOMAIN g = DOMAIN f \union {k}, g[k] \in Int,
         \A x \in DOMAIN f : x # k => g[x] = f[x]
  PROVE  Total(g) =
           Total(f) + g[k] - (IF k \in DOMAIN f THEN f[k] ELSE 0)
<1>1. IsFiniteSet(DOMAIN g) /\ \A x \in DOMAIN g : g[x] \in Int
  BY FS_AddElement
<1>2. PICK h : SumsUp(h, f, DOMAIN f) /\ Total(f) = h[DOMAIN f]
  BY TotalSumsUp
<1>3. PICK j : SumsUp(j, g, DOMAIN g) /\ Total(g) = j[DOMAIN g]
  BY <1>1, TotalSumsUp
<1> DEFINE U == DOMAIN f \ {k}
<1>4. U \subseteq DOMAIN f /\ U = DOMAIN g \ {k} /\ U \subseteq DOMAIN g
      /\ \A x \in U : f[x] = g[x]
  OBVIOUS
<1>5. IsFiniteSet(U)
  BY FS_RemoveElement
<1>6. h[U] = j[U]
  <2> HIDE DEF U
  <2> QED  BY <1>2, <1>3, <1>4, <1>5, SumsUpAgree
<1>7. j[DOMAIN g] = g[k] + j[U]
  <2>1. k \in DOMAIN g  OBVIOUS
  <2>2. j[DOMAIN g] = g[k] + j[DOMAIN g \ {k}]
    BY <1>1, <1>3, <2>1, SumsUpRemove
  <2> QED  BY <1>4, <2>2
<1>8. h[DOMAIN f] = (IF k \in DOMAIN f THEN f[k] ELSE 0) + h[U]
  <2>1. CASE k \in DOMAIN f
    <3>1. h[DOMAIN f] = f[k] + h[DOMAIN f \ {k}]
      BY <1>2, <2>1, SumsUpRemove
    <3> QED  BY <2>1, <3>1
  <2>2. CASE k \notin DOMAIN f
    <3>1. U = DOMAIN f  BY <2>2
    <3>2. h[U] \in Int  BY <1>2 DEF SumsUp
    <3> QED  BY <2>2, <3>1, <3>2
  <2> QED  BY <2>1, <2>2
<1>9. h[U] \in Int /\ (IF k \in DOMAIN f THEN f[k] ELSE 0) \in Int
  <2>1. U \in SUBSET DOMAIN f  OBVIOUS
  <2> HIDE DEF U
  <2> QED  BY <1>2, <2>1 DEF SumsUp
<1> HIDE DEF U
<1> QED  BY <1>2, <1>3, <1>6, <1>7, <1>8, <1>9
-----------------------------------------------------------------------------
(* Folds over a sequence.                                                  *)

\* The greatest of some indices, which a fold to the left takes last.
LEMMA MaxOfIndices ==
  ASSUME NEW n \in Nat, NEW s \in SUBSET (1 .. n), s # {}
  PROVE  Max(s) \in s /\ \A k \in s : k <= Max(s)
<1> DEFINE T == {j \in Nat : n - j \in s}
<1>1. T # {} /\ T \subseteq Nat
  <2>1. PICK k \in s : TRUE  OBVIOUS
  <2>2. k \in Int /\ n - k \in T  BY <2>1
  <2> QED  BY <2>2
<1>2. PICK m \in T : \A j \in T : m <= j
  <2> HIDE DEF T
  <2> QED  BY <1>1, NatMinimum
<1>3. n - m \in s /\ \A k \in s : n - m >= k
  <2> SUFFICES ASSUME NEW k \in s PROVE n - m >= k
    BY <1>2
  <2>1. k \in Int /\ n - k \in T  OBVIOUS
  <2>2. m <= n - k /\ m \in Nat  BY <1>2, <2>1
  <2> HIDE DEF T
  <2> QED  BY <2>1, <2>2
<1>4. Max(s) \in s /\ \A k \in s : Max(s) >= k
  BY <1>3 DEF Max
<1>5. \A k \in s : k \in Int
  OBVIOUS
<1> QED  BY <1>4, <1>5

LEMMA MaxOfFirst ==
  ASSUME NEW n \in Nat, NEW k \in 1 .. n
  PROVE  Max(1 .. k) = k /\ (1 .. k) \ {k} = 1 .. k - 1
<1>1. 1 .. k \in SUBSET (1 .. n) /\ 1 .. k # {} /\ k \in 1 .. k
  OBVIOUS
<1>2. Max(1 .. k) \in 1 .. k /\ k <= Max(1 .. k)
  BY <1>1, MaxOfIndices
<1> QED  BY <1>2

(***************************************************************************)
(* The values a fold of g to the left goes through, from b on.             *)
(***************************************************************************)
Trace(acc, g, b, C, n) ==
  /\ acc \in [0 .. n -> C]
  /\ acc[0] = b
  /\ \A k \in 1 .. n : acc[k] = g[<<acc[k - 1], k>>]

\* The values a fold of g to the left takes on sets of indices, the greatest of
\* which is folded last.
FoldsUp(it, g, b, C, n) ==
  /\ it[{}] = b
  /\ \A s \in SUBSET (1 .. n) :
       s # {} /\ it[s \ {Max(s)}] \in C => it[s] = g[<<it[s \ {Max(s)}], Max(s)>>]

ChosenFold(f, g, b, C, n) ==
  /\ f \in [SUBSET (1 .. n) -> C]
  /\ \A s \in SUBSET (1 .. n) : f[s] = IF s = {} THEN b ELSE g[<<f[s \ {Max(s)}], Max(s)>>]

Traces(acc, it, g, b, C, n) == Trace(acc, g, b, C, n) /\ it[1 .. n] = acc[n]

\* The values for 1 .. k are a trace.
LEMMA FoldSteps ==
  ASSUME NEW n \in Nat, NEW C, NEW b \in C, NEW g \in [C \X (1 .. n) -> C],
         NEW it, FoldsUp(it, g, b, C, n)
  PROVE  \E acc : Traces(acc, it, g, b, C, n)
<1> USE DEF FoldsUp, Traces
<1> DEFINE acc == [k \in 0 .. n |-> it[1 .. k]]
           T   == {k \in 0 .. n : it[1 .. k] \in C}
<1>1. ASSUME NEW k \in 1 .. n, it[1 .. k - 1] \in C
      PROVE  it[1 .. k] = g[<<it[1 .. k - 1], k>>] /\ it[1 .. k] \in C
  <2>1. 1 .. k \in SUBSET (1 .. n) /\ 1 .. k # {}
    OBVIOUS
  <2>2. it[1 .. k] = g[<<it[1 .. k - 1], k>>]
    BY <1>1, <2>1, MaxOfFirst
  <2>3. g[<<it[1 .. k - 1], k>>] \in C
    BY <1>1
  <2> QED  BY <2>2, <2>3
<1>2. 0 \in T
  <2>1. 1 .. 0 = {}  OBVIOUS
  <2> QED  BY <2>1
<1>3. ASSUME NEW j \in 0 .. n, \A i \in 0 .. j - 1 : i \in T => i + 1 \in T
      PROVE  j \in T
  <2> HIDE DEF T
  <2>1. j \in Nat  OBVIOUS
  <2> QED  BY <1>2, <1>3, <2>1, InductionTo
<1>4. \A i \in 0 .. n - 1 : i \in T => i + 1 \in T
  <2> SUFFICES ASSUME NEW i \in 0 .. n - 1, i \in T PROVE i + 1 \in T
    OBVIOUS
  <2>1. i + 1 \in 1 .. n /\ (i + 1) - 1 = i /\ i + 1 \in 0 .. n  OBVIOUS
  <2>2. it[1 .. i] \in C  OBVIOUS
  <2>3. it[1 .. i + 1] \in C  BY <1>1, <2>1, <2>2
  <2> QED  BY <2>1, <2>3
<1>5. \A k \in 0 .. n : it[1 .. k] \in C
  <2> SUFFICES ASSUME NEW k \in 0 .. n PROVE k \in T
    OBVIOUS
  <2>1. \A i \in 0 .. k - 1 : i \in 0 .. n - 1  OBVIOUS
  <2> HIDE DEF T
  <2> QED  BY <1>3, <1>4, <2>1
<1>6. acc \in [0 .. n -> C] /\ acc[0] = b
  <2>1. 1 .. 0 = {}  OBVIOUS
  <2> QED  BY <1>5, <2>1
<1>7. \A k \in 1 .. n : acc[k] = g[<<acc[k - 1], k>>]
  <2> SUFFICES ASSUME NEW k \in 1 .. n PROVE acc[k] = g[<<acc[k - 1], k>>]
    OBVIOUS
  <2>1. k - 1 \in 0 .. n /\ k \in 0 .. n  OBVIOUS
  <2>2. it[1 .. k] = g[<<it[1 .. k - 1], k>>]  BY <1>1, <1>5, <2>1
  <2> QED  BY <2>1, <2>2
<1>8. it[1 .. n] = acc[n]
  OBVIOUS
<1> QED  BY <1>6, <1>7, <1>8 DEF Trace

\* Such values exist.
LEMMA ChosenFoldExists ==
  ASSUME NEW n \in Nat, NEW C, NEW b \in C, NEW g \in [C \X (1 .. n) -> C]
  PROVE  \E f : ChosenFold(f, g, b, C, n)
<1> DEFINE S    == 1 .. n
           pick == [s \in (SUBSET S) \ {{}} |-> Max(s)]
<1>1. IsFiniteSet(S)
  BY FS_Interval
<1>2. \A s \in (SUBSET S) \ {{}} : Max(s) \in s /\ Max(s) \in S
  <2> TAKE s \in (SUBSET S) \ {{}}
  <2>1. s \in SUBSET (1 .. n) /\ s # {}  OBVIOUS
  <2>2. Max(s) \in s  BY <2>1, MaxOfIndices
  <2> QED  BY <2>2
<1>3. pick \in [(SUBSET S) \ {{}} -> S] /\ \A s \in (SUBSET S) \ {{}} : pick[s] \in s
  <2> HIDE DEF S
  <2> QED  BY <1>2
<1> HIDE DEF S, pick
<1>4. CanFold(g, pick, b, C, S)
  BY <1>1, <1>3 DEF CanFold, S
<1>5. PICK f : FoldsSubsets(f, g, pick, b, C, S)
  BY <1>4, FoldExists
<1>6. \A s \in SUBSET S : f[s] = IF s = {} THEN b ELSE g[<<f[s \ {Max(s)}], Max(s)>>]
  <2> TAKE s \in SUBSET S
  <2>1. CASE s = {}  BY <1>5, <2>1 DEF FoldsSubsets
  <2>2. CASE s # {}
    <3>1. pick[s] = Max(s)  BY <2>2 DEF pick
    <3> QED  BY <1>5, <2>2, <3>1 DEF FoldsSubsets
  <2> QED  BY <2>1, <2>2
<1>7. f \in [SUBSET S -> C]
  BY <1>5 DEF FoldsSubsets
<1> QED  BY <1>6, <1>7 DEF S, ChosenFold

\* There is only one.
LEMMA OneTrace ==
  ASSUME NEW n \in Nat, NEW C, NEW b, NEW g, NEW a, NEW c,
         Trace(a, g, b, C, n), Trace(c, g, b, C, n)
  PROVE  a = c
<1> DEFINE T == {k \in 0 .. n : a[k] = c[k]}
<1>1. 0 \in T
  BY DEF Trace
<1>2. \A i \in 0 .. n - 1 : i \in T => i + 1 \in T
  <2> SUFFICES ASSUME NEW i \in 0 .. n - 1, i \in T PROVE i + 1 \in T
    OBVIOUS
  <2>1. i + 1 \in 1 .. n /\ (i + 1) - 1 = i  OBVIOUS
  <2>2. a[i + 1] = g[<<a[i], i + 1>>] /\ c[i + 1] = g[<<c[i], i + 1>>]
    BY <2>1 DEF Trace
  <2> QED  BY <2>2
<1>3. ASSUME NEW k \in 0 .. n PROVE a[k] = c[k]
  <2>1. k \in Nat /\ \A i \in 0 .. k - 1 : i \in 0 .. n - 1  OBVIOUS
  <2>2. k \in T
    <3> HIDE DEF T
    <3> QED  BY <1>1, <1>2, <2>1, InductionTo
  <2> QED  BY <2>2
<1> QED  BY <1>3 DEF Trace

\* How far a block's ADD_PTR nodes move the pointer is an integer.
LEMMA PointerDeltaType ==
  ASSUME NEW block \in Seq(Node)
  PROVE  PointerDelta(block) \in Int
<1> DEFINE S == DOMAIN block
           Moved(n, sum) == IF n.kind = "ADD_PTR" THEN sum + n.arg ELSE sum
           Iter(h) == h = [s \in SUBSET S |->
                             IF s = {} THEN 0 ELSE Moved(block[Pick(s)], h[s \ {Pick(s)}])]
           iter == CHOOSE h : Iter(h)
           g    == [p \in Int \X S |-> Moved(block[p[2]], p[1])]
           pick == [s \in (SUBSET S) \ {{}} |-> Pick(s)]
<1>1. IsFiniteSet(S)
  <2>1. S = 1 .. Len(block) /\ Len(block) \in Nat  OBVIOUS
  <2> QED  BY <2>1, FS_Interval
<1>2. ASSUME NEW x \in S, NEW sum \in Int PROVE Moved(block[x], sum) \in Int
  <2>1. block[x] \in Node  OBVIOUS
  <2> QED  BY <2>1, NodeAssumption
<1>3. g \in [Int \X S -> Int]
  <2> HIDE DEF Moved, S
  <2> QED  BY <1>2
<1>4. pick \in [(SUBSET S) \ {{}} -> S] /\ \A s \in (SUBSET S) \ {{}} : pick[s] \in s
  <2> HIDE DEF S
  <2> QED  BY PickIn
<1>5. PICK f : FoldsSubsets(f, g, pick, 0, Int, S)
  <2> HIDE DEF S, g, pick
  <2>1. CanFold(g, pick, 0, Int, S)  BY <1>1, <1>3, <1>4 DEF CanFold
  <2> QED  BY <2>1, FoldExists
<1>6. \A s \in SUBSET S : f[s] = IF s = {} THEN 0 ELSE Moved(block[Pick(s)], f[s \ {Pick(s)}])
  <2> SUFFICES ASSUME NEW s \in SUBSET S, s # {}
               PROVE  f[s] = Moved(block[Pick(s)], f[s \ {Pick(s)}])
    <3> HIDE DEF g, pick, S, Moved
    <3> QED  BY <1>5 DEF FoldsSubsets
  <2>1. Pick(s) \in S /\ f[s \ {Pick(s)}] \in Int /\ pick[s] = Pick(s)
    <3> HIDE DEF S, g
    <3> QED  BY <1>5, PickIn DEF FoldsSubsets
  <2>2. f[s] = g[<<f[s \ {Pick(s)}], Pick(s)>>]
    <3> HIDE DEF g, pick, S
    <3> QED  BY <1>5, <2>1 DEF FoldsSubsets
  <2> HIDE DEF S, Moved
  <2> QED  BY <2>1, <2>2
<1>7. Iter(f)
  <2> HIDE DEF S, Moved, g, pick
  <2> QED  BY <1>5, <1>6 DEF FoldsSubsets
<1>8. Iter(iter)
  <2> HIDE DEF Iter
  <2> QED  BY <1>7
<1>9. PointerDelta(block) = iter[S]
  BY DEF PointerDelta, FoldSeq, FoldFunction, FoldFunctionOnSet, MapThenFoldSet, Pick
<1> HIDE DEF iter
<1>10. \A s \in SUBSET S :
         iter[s] = IF s = {} THEN 0 ELSE Moved(block[Pick(s)], iter[s \ {Pick(s)}])
  <2> HIDE DEF S, Moved
  <2> QED  BY <1>8
<1> DEFINE G == {s \in SUBSET S : iter[s] \in Int}
<1>11. ASSUME NEW s \in SUBSET S, \A x \in s : s \ {x} \in G PROVE s \in G
  <2> HIDE DEF Moved, S
  <2>1. CASE s = {}
    <3>1. iter[s] = 0  BY <1>10, <2>1
    <3> QED  BY <3>1
  <2>2. CASE s # {}
    <3>1. Pick(s) \in s /\ Pick(s) \in S  BY <2>2, PickIn
    <3>2. iter[s \ {Pick(s)}] \in Int  BY <1>11, <3>1
    <3>3. iter[s] = Moved(block[Pick(s)], iter[s \ {Pick(s)}])  BY <1>10, <2>2
    <3> QED  BY <1>2, <3>1, <3>2, <3>3
  <2> QED  BY <2>1, <2>2
<1>12. S \in G
  <2> HIDE DEF G, S
  <2>1. \A s \in SUBSET S : (\A x \in s : s \ {x} \in G) => s \in G  BY <1>11
  <2>2. \A s \in SUBSET S : s \in G  BY <1>1, <2>1, SubsetInduction
  <2> QED  BY <2>2
<1> QED  BY <1>9, <1>12
-----------------------------------------------------------------------------
(* Cells, and the extremes of sets of integers.                            *)

LEMMA ByteIsCell ==
  ASSUME NEW v \in Int
  PROVE  Byte(v) \in Cell
  BY CellCountAssumption DEF Byte, Cell

LEMMA LeastOfBounded ==
  ASSUME NEW S, S \subseteq Int, S # {}, NEW b \in Int, \A x \in S : b <= x
  PROVE  Least(S) \in S /\ \A y \in S : Least(S) <= y
<1> DEFINE T == {n \in Nat : n + b \in S}
<1>1. T \subseteq Nat /\ T # {}
  <2>1. PICK x \in S : TRUE  OBVIOUS
  <2>2. x - b \in T  BY <2>1
  <2> QED  BY <2>2
<1>2. PICK m \in T : \A n \in T : m <= n
  BY <1>1, NatMinimum
<1>3. \A y \in S : m + b <= y
  <2> TAKE y \in S
  <2>1. y - b \in T  OBVIOUS
  <2> QED  BY <1>2, <2>1
<1>4. m + b \in S  OBVIOUS
<1> QED  BY <1>3, <1>4 DEF Least

LEMMA GreatestOfBounded ==
  ASSUME NEW S, S \subseteq Int, S # {}, NEW b \in Int, \A x \in S : x <= b
  PROVE  Greatest(S) \in S /\ \A y \in S : y <= Greatest(S)
<1> DEFINE T == {n \in Nat : b - n \in S}
<1>1. T \subseteq Nat /\ T # {}
  <2>1. PICK x \in S : TRUE  OBVIOUS
  <2>2. b - x \in T  BY <2>1
  <2> QED  BY <2>2
<1>2. PICK m \in T : \A n \in T : m <= n
  BY <1>1, NatMinimum
<1>3. \A y \in S : y <= b - m
  <2> TAKE y \in S
  <2>1. y \in Int /\ b - y \in T  OBVIOUS
  <2>2. m <= b - y /\ m \in Nat  BY <1>2, <2>1
  <2> HIDE DEF T
  <2> QED  BY <2>1, <2>2
<1>4. b - m \in S  OBVIOUS
<1> QED  BY <1>3, <1>4 DEF Greatest

\* The integers in a sequence have a lower and an upper bound.
LEMMA BoundsOfSequence ==
  ASSUME NEW s \in Seq(Int)
  PROVE  \E b \in Nat : \A i \in 1 .. Len(s) : -b <= s[i] /\ s[i] <= b
<1> DEFINE G == {n \in 0 .. Len(s) :
                   \E b \in Nat : \A i \in 1 .. n : -b <= s[i] /\ s[i] <= b}
<1>1. 0 \in G
  <2>1. 0 \in Nat /\ \A i \in 1 .. 0 : -0 <= s[i] /\ s[i] <= 0  OBVIOUS
  <2> QED  BY <2>1
<1>2. ASSUME NEW n \in 0 .. Len(s) - 1, n \in G
      PROVE  n + 1 \in G
  <2>1. PICK b \in Nat : \A i \in 1 .. n : -b <= s[i] /\ s[i] <= b
    BY <1>2
  <2>2. s[n + 1] \in Int  OBVIOUS
  <2>3. PICK c \in Nat : b <= c /\ -c <= s[n + 1] /\ s[n + 1] <= c
    <3>1. CASE s[n + 1] >= 0
      <4>1. b + s[n + 1] \in Nat  BY <2>2, <3>1
      <4> QED  BY <2>2, <3>1, <4>1
    <3>2. CASE s[n + 1] < 0
      <4>1. b - s[n + 1] \in Nat  BY <2>2, <3>2
      <4> QED  BY <2>2, <3>2, <4>1
    <3> QED  BY <2>2, <3>1, <3>2
  <2>4. \A i \in 1 .. n + 1 : -c <= s[i] /\ s[i] <= c
    <3> TAKE i \in 1 .. n + 1
    <3>1. CASE i = n + 1  BY <2>3, <3>1
    <3>2. CASE i \in 1 .. n
      <4>1. s[i] \in Int  OBVIOUS
      <4>2. -b <= s[i] /\ s[i] <= b  BY <2>1, <3>2
      <4> QED  BY <2>3, <4>1, <4>2
    <3> QED  BY <3>1, <3>2
  <2> QED  BY <2>4
<1>3. Len(s) \in G
  <2>1. Len(s) \in Nat  OBVIOUS
  <2> HIDE DEF G
  <2> QED  BY <1>1, <1>2, <2>1, InductionTo
<1> QED  BY <1>3

\* A node's offsets are integers, between two bounds.
LEMMA TermOffsetsBounded ==
  ASSUME NEW n \in Node
  PROVE  /\ TermOffsets(n) \subseteq Int
         /\ \A i \in DOMAIN n.terms : n.terms[i].factor \in Int
         /\ \E b \in Nat : \A d \in TermOffsets(n) : -b <= d /\ d <= b
<1> DEFINE s == [i \in 1 .. Len(n.terms) |-> n.terms[i].offset]
<1>1. n.terms \in Seq(Terms)
  BY NodeAssumption
<1>2. \A i \in 1 .. Len(n.terms) : n.terms[i].offset \in Int /\ n.terms[i].factor \in Int
  <2> TAKE i \in 1 .. Len(n.terms)
  <2>1. n.terms[i] \in Terms  BY <1>1
  <2> QED  BY <2>1 DEF Terms
<1>3. s \in Seq(Int) /\ Len(s) = Len(n.terms)
  BY <1>1, <1>2
<1>4. PICK b \in Nat : \A i \in 1 .. Len(s) : -b <= s[i] /\ s[i] <= b
  <2> HIDE DEF s
  <2> QED  BY <1>3, BoundsOfSequence
<1>5. \A d \in TermOffsets(n) : -b <= d /\ d <= b
  <2> TAKE d \in TermOffsets(n)
  <2>1. PICK i \in 1 .. Len(n.terms) : d = n.terms[i].offset
    BY <1>1 DEF TermOffsets
  <2>2. d = s[i]  BY <2>1
  <2> QED  BY <1>3, <1>4, <2>1, <2>2
<1>6. TermOffsets(n) \subseteq Int
  BY <1>1, <1>2 DEF TermOffsets
<1> QED  BY <1>1, <1>2, <1>5, <1>6
-----------------------------------------------------------------------------
(* Sequences.                                                              *)

\* What the elements of a concatenation are.
LEMMA Concatenation ==
  ASSUME NEW T, NEW a \in Seq(T), NEW b \in Seq(T)
  PROVE  /\ a \o b \in Seq(T) /\ Len(a \o b) = Len(a) + Len(b)
         /\ Len(a) \in Nat /\ Len(b) \in Nat
         /\ \A j \in 1 .. Len(a) : (a \o b)[j] = a[j]
         /\ \A j \in 1 .. Len(b) : (a \o b)[j + Len(a)] = b[j]
  OBVIOUS

LEMMA Associative ==
  ASSUME NEW T, NEW a \in Seq(T), NEW b \in Seq(T), NEW c \in Seq(T)
  PROVE  (a \o b) \o c = a \o (b \o c)
  OBVIOUS

\* Sequences with the same elements are the same.
LEMMA SameSequence ==
  ASSUME NEW T, NEW s \in Seq(T), NEW t \in Seq(T), Len(s) = Len(t),
         \A k \in 1 .. Len(s) : s[k] = t[k]
  PROVE  s = t
  OBVIOUS

LEMMA Tuples ==
  ASSUME NEW T, NEW a \in T, NEW b \in T
  PROVE  /\ <<a, b>> = <<a>> \o <<b>>
         /\ \A c \in T : <<a, b, c>> = (<<a>> \o <<b>>) \o <<c>>
<1>1. <<a>> \in Seq(T) /\ <<b>> \in Seq(T) /\ Len(<<a>>) = 1 /\ Len(<<b>>) = 1
      /\ <<a>>[1] = a /\ <<b>>[1] = b
  OBVIOUS
<1> DEFINE s == <<a>> \o <<b>>
<1>2. /\ s \in Seq(T) /\ Len(s) = 2
      /\ s[1] = a /\ s[2] = b
  <2>1. 1 \in 1 .. 1 /\ 1 + 1 = 2  OBVIOUS
  <2> QED  BY <1>1, <2>1, Concatenation
<1> HIDE DEF s
<1>3. <<a, b>> = s
  <2>1. <<a, b>> \in Seq(T) /\ Len(<<a, b>>) = 2 /\ <<a, b>>[1] = a /\ <<a, b>>[2] = b
    OBVIOUS
  <2>2. \A k \in 1 .. 2 : k = 1 \/ k = 2  OBVIOUS
  <2> DEFINE t == <<a, b>>
  <2> HIDE DEF t
  <2>3. t \in Seq(T) /\ Len(t) = 2 /\ t[1] = a /\ t[2] = b  BY <2>1 DEF t
  <2>4. t = s
    BY <1>2, <2>2, <2>3, SameSequence
  <2> QED  BY <2>4 DEF t
<1>4. ASSUME NEW c \in T PROVE <<a, b, c>> = s \o <<c>>
  <2> DEFINE t == <<a, b, c>>
             u == s \o <<c>>
  <2>1. t \in Seq(T) /\ Len(t) = 3 /\ t[1] = a /\ t[2] = b /\ t[3] = c
    OBVIOUS
  <2>2. \A k \in 1 .. 3 : k = 1 \/ k = 2 \/ k = 3  OBVIOUS
  <2>3. u \in Seq(T) /\ Len(u) = 3 /\ u[1] = a /\ u[2] = b /\ u[3] = c
    <3>1. <<c>> \in Seq(T) /\ Len(<<c>>) = 1 /\ <<c>>[1] = c  OBVIOUS
    <3>2. 1 \in 1 .. 1 /\ 1 + 2 = 3 /\ 2 + 1 = 3 /\ 1 \in 1 .. 2 /\ 2 \in 1 .. 2  OBVIOUS
    <3>3. u \in Seq(T) /\ Len(u) = Len(s) + 1 /\ u[1 + Len(s)] = c
      <4> DEFINE r == <<c>>
      <4>1. r \in Seq(T) /\ Len(r) = 1 /\ r[1] = c
        BY <3>1
      <4>2. u = s \o r
        OBVIOUS
      <4> HIDE DEF r, u
      <4>3. /\ s \o r \in Seq(T) /\ Len(s \o r) = Len(s) + Len(r)
            /\ \A j \in 1 .. Len(r) : (s \o r)[j + Len(s)] = r[j]
        BY <1>2, <4>1, Concatenation
      <4>4. (s \o r)[1 + Len(s)] = r[1]
        <5>1. 1 \in 1 .. Len(r)  BY <4>1
        <5> QED  BY <4>3, <5>1
      <4> QED  BY <4>1, <4>2, <4>3, <4>4
    <3>4. \A j \in 1 .. Len(s) : u[j] = s[j]
      BY <1>2, <3>1, Concatenation
    <3> HIDE DEF u
    <3> QED  BY <1>2, <3>2, <3>3, <3>4
  <2> HIDE DEF t, u
  <2>4. t = u
    BY <2>1, <2>2, <2>3, SameSequence
  <2> QED  BY <2>4 DEF t, u
<1> QED  BY <1>3, <1>4 DEF s

LEMMA AppendIsMore ==
  ASSUME NEW T, NEW s \in Seq(T), NEW e \in T
  PROVE  Append(s, e) \in Seq(T) /\ Append(s, e) # <<>>
<1>1. Len(Append(s, e)) = Len(s) + 1 /\ Len(s) \in Nat
  OBVIOUS
<1> QED  BY <1>1

LEMMA FiveTuple ==
  ASSUME NEW T, NEW i \in T, NEW a \in T, NEW b \in T, NEW k \in T, NEW e \in T
  PROVE  (<<i>> \o <<a, b>>) \o <<k, e>> = <<i, a, b, k, e>>
<1> DEFINE x == <<i>>
           y == <<a, b>>
           z == <<k, e>>
           u == <<i, a, b, k, e>>
           v == x \o y
           w == v \o z
<1>1. /\ x \in Seq(T) /\ Len(x) = 1 /\ x[1] = i
      /\ y \in Seq(T) /\ Len(y) = 2 /\ y[1] = a /\ y[2] = b
      /\ z \in Seq(T) /\ Len(z) = 2 /\ z[1] = k /\ z[2] = e
  OBVIOUS
<1>2. /\ u \in Seq(T) /\ Len(u) = 5
      /\ u[1] = i /\ u[2] = a /\ u[3] = b /\ u[4] = k /\ u[5] = e
  OBVIOUS
<1> HIDE DEF x, y, z, u
<1>3. v \in Seq(T) /\ Len(v) = 3 /\ v[1] = i /\ v[2] = a /\ v[3] = b
  <2>0. x \in Seq(T) /\ y \in Seq(T)
    BY <1>1
  <2>1. v \in Seq(T) /\ Len(v) = Len(x) + Len(y) /\ \A j \in 1 .. Len(x) : v[j] = x[j]
    BY <2>0, Concatenation
  <2>2. \A j \in 1 .. Len(y) : v[j + Len(x)] = y[j]
    BY <2>0, Concatenation
  <2> HIDE DEF v
  <2>3. 1 \in 1 .. Len(x) /\ 1 \in 1 .. Len(y) /\ 2 \in 1 .. Len(y)
    BY <1>1
  <2>4. v[1] = x[1] /\ v[1 + Len(x)] = y[1] /\ v[2 + Len(x)] = y[2]
    BY <2>1, <2>2, <2>3
  <2> QED  BY <1>1, <2>1, <2>4
<1> HIDE DEF v
<1>4. /\ w \in Seq(T) /\ Len(w) = 5
      /\ w[1] = i /\ w[2] = a /\ w[3] = b /\ w[4] = k /\ w[5] = e
  <2>0. v \in Seq(T) /\ z \in Seq(T)
    BY <1>1, <1>3
  <2>1. w \in Seq(T) /\ Len(w) = Len(v) + Len(z) /\ \A j \in 1 .. Len(v) : w[j] = v[j]
    BY <2>0, Concatenation
  <2>2. \A j \in 1 .. Len(z) : w[j + Len(v)] = z[j]
    BY <2>0, Concatenation
  <2> HIDE DEF w
  <2>3. /\ 1 \in 1 .. Len(v) /\ 2 \in 1 .. Len(v) /\ 3 \in 1 .. Len(v)
        /\ 1 \in 1 .. Len(z) /\ 2 \in 1 .. Len(z)
    BY <1>1, <1>3
  <2>4. /\ w[1] = v[1] /\ w[2] = v[2] /\ w[3] = v[3]
        /\ w[1 + Len(v)] = z[1] /\ w[2 + Len(v)] = z[2]
    BY <2>1, <2>2, <2>3
  <2> QED  BY <1>1, <1>3, <2>1, <2>4
<1> HIDE DEF w
<1>5. w = u
  <2>1. \A j \in 1 .. 5 : j = 1 \/ j = 2 \/ j = 3 \/ j = 4 \/ j = 5  OBVIOUS
  <2>2. \A j \in 1 .. Len(w) : w[j] = u[j]  BY <1>2, <1>4, <2>1
  <2> QED  BY <1>2, <1>4, <2>2, SameSequence
<1> QED  BY <1>5 DEF x, y, z, u, v, w

LEMMA FourTuple ==
  ASSUME NEW T, NEW a \in T, NEW b \in T, NEW c \in T, NEW d \in T
  PROVE  ((<<a>> \o <<b>>) \o <<c>>) \o <<d>> = <<a, b, c, d>>
<1> DEFINE x == <<a, b, c>>
           y == <<d>>
           u == <<a, b, c, d>>
           v == x \o y
<1>1. /\ x \in Seq(T) /\ Len(x) = 3 /\ x[1] = a /\ x[2] = b /\ x[3] = c
      /\ y \in Seq(T) /\ Len(y) = 1 /\ y[1] = d
      /\ u \in Seq(T) /\ Len(u) = 4 /\ u[1] = a /\ u[2] = b /\ u[3] = c /\ u[4] = d
  OBVIOUS
<1>2. (<<a>> \o <<b>>) \o <<c>> = x
  BY Tuples
<1> HIDE DEF x, y, u
<1>3. /\ v \in Seq(T) /\ Len(v) = 4
      /\ v[1] = a /\ v[2] = b /\ v[3] = c /\ v[4] = d
  <2>0. x \in Seq(T) /\ y \in Seq(T)
    BY <1>1
  <2>1. /\ v \in Seq(T) /\ Len(v) = Len(x) + Len(y)
        /\ \A j \in 1 .. Len(x) : v[j] = x[j]
        /\ \A j \in 1 .. Len(y) : v[j + Len(x)] = y[j]
    BY <2>0, Concatenation
  <2> HIDE DEF v
  <2>2. 1 \in 1 .. Len(x) /\ 2 \in 1 .. Len(x) /\ 3 \in 1 .. Len(x) /\ 1 \in 1 .. Len(y)
    BY <1>1
  <2>3. v[1] = x[1] /\ v[2] = x[2] /\ v[3] = x[3] /\ v[1 + Len(x)] = y[1]
    BY <2>1, <2>2
  <2> QED  BY <1>1, <2>1, <2>3
<1> HIDE DEF v
<1>4. v = u
  <2>1. \A j \in 1 .. 4 : j = 1 \/ j = 2 \/ j = 3 \/ j = 4  OBVIOUS
  <2>2. \A j \in 1 .. Len(v) : v[j] = u[j]  BY <1>1, <1>3, <2>1
  <2> QED  BY <1>1, <1>3, <2>2, SameSequence
<1> QED  BY <1>2, <1>4 DEF x, y, u, v

LEMMA SevenTuple ==
  ASSUME NEW T, NEW g \in T, NEW i \in T, NEW a \in T, NEW b \in T, NEW h \in T, NEW k \in T,
         NEW e \in T
  PROVE  (<<g, i>> \o <<a, b>>) \o <<h, k, e>> = <<g, i, a, b, h, k, e>>
<1> DEFINE x == <<g, i>>
           y == <<a, b>>
           z == <<h, k, e>>
           u == <<g, i, a, b, h, k, e>>
           v == x \o y
           w == v \o z
<1>1. /\ x \in Seq(T) /\ Len(x) = 2 /\ x[1] = g /\ x[2] = i
      /\ y \in Seq(T) /\ Len(y) = 2 /\ y[1] = a /\ y[2] = b
      /\ z \in Seq(T) /\ Len(z) = 3 /\ z[1] = h /\ z[2] = k /\ z[3] = e
  OBVIOUS
<1>2. /\ u \in Seq(T) /\ Len(u) = 7
      /\ u[1] = g /\ u[2] = i /\ u[3] = a /\ u[4] = b /\ u[5] = h /\ u[6] = k /\ u[7] = e
  OBVIOUS
<1> HIDE DEF x, y, z, u
<1>3. v \in Seq(T) /\ Len(v) = 4 /\ v[1] = g /\ v[2] = i /\ v[3] = a /\ v[4] = b
  <2>0. x \in Seq(T) /\ y \in Seq(T)
    BY <1>1
  <2>1. /\ v \in Seq(T) /\ Len(v) = Len(x) + Len(y)
        /\ \A j \in 1 .. Len(x) : v[j] = x[j]
        /\ \A j \in 1 .. Len(y) : v[j + Len(x)] = y[j]
    BY <2>0, Concatenation
  <2> HIDE DEF v
  <2>2. 1 \in 1 .. Len(x) /\ 2 \in 1 .. Len(x) /\ 1 \in 1 .. Len(y) /\ 2 \in 1 .. Len(y)
    BY <1>1
  <2>3. v[1] = x[1] /\ v[2] = x[2] /\ v[1 + Len(x)] = y[1] /\ v[2 + Len(x)] = y[2]
    BY <2>1, <2>2
  <2> QED  BY <1>1, <2>1, <2>3
<1> HIDE DEF v
<1>4. /\ w \in Seq(T) /\ Len(w) = 7
      /\ w[1] = g /\ w[2] = i /\ w[3] = a /\ w[4] = b /\ w[5] = h /\ w[6] = k /\ w[7] = e
  <2>0. v \in Seq(T) /\ z \in Seq(T)
    BY <1>1, <1>3
  <2>1. /\ w \in Seq(T) /\ Len(w) = Len(v) + Len(z)
        /\ \A j \in 1 .. Len(v) : w[j] = v[j]
        /\ \A j \in 1 .. Len(z) : w[j + Len(v)] = z[j]
    BY <2>0, Concatenation
  <2> HIDE DEF w
  <2>2. /\ 1 \in 1 .. Len(v) /\ 2 \in 1 .. Len(v) /\ 3 \in 1 .. Len(v) /\ 4 \in 1 .. Len(v)
        /\ 1 \in 1 .. Len(z) /\ 2 \in 1 .. Len(z) /\ 3 \in 1 .. Len(z)
    BY <1>1, <1>3
  <2>3. /\ w[1] = v[1] /\ w[2] = v[2] /\ w[3] = v[3] /\ w[4] = v[4]
        /\ w[1 + Len(v)] = z[1] /\ w[2 + Len(v)] = z[2] /\ w[3 + Len(v)] = z[3]
    BY <2>1, <2>2
  <2> QED  BY <1>1, <1>3, <2>1, <2>3
<1> HIDE DEF w
<1>5. w = u
  <2>1. \A j \in 1 .. 7 : j = 1 \/ j = 2 \/ j = 3 \/ j = 4 \/ j = 5 \/ j = 6 \/ j = 7
    OBVIOUS
  <2>2. \A j \in 1 .. Len(w) : w[j] = u[j]  BY <1>2, <1>4, <2>1
  <2> QED  BY <1>2, <1>4, <2>2, SameSequence
<1> QED  BY <1>5 DEF x, y, z, u, v, w

\* A concatenation of any number of sequences, one after the other.
Flattens(f, seqs, T) ==
  /\ f \in [1 .. Len(seqs) -> Seq(T)]
  /\ f[1] = seqs[1]
  /\ \A k \in 2 .. Len(seqs) : f[k] = f[k - 1] \o seqs[k]

LEMMA FlattenSteps ==
  ASSUME NEW T, NEW seqs \in Seq(Seq(T)), seqs # <<>>
  PROVE  \E f : Flattens(f, seqs, T) /\ FlattenSeq(seqs) = f[Len(seqs)]
<1> DEFINE D == 1 .. Len(seqs)
           V == Seq(T)
           h == [i \in D |-> i]
           G == [f \in [D -> V] |->
                   [i \in D |-> IF i = 1 THEN seqs[i] ELSE f[i - 1] \o seqs[i]]]
           F == CHOOSE f : f = [i \in 1 .. Len(seqs) |->
                                  IF i = 1 THEN seqs[i] ELSE f[i - 1] \o seqs[i]]
<1>1. Len(seqs) \in Nat /\ Len(seqs) # 0 /\ \A i \in D : seqs[i] \in V
  OBVIOUS
<1>2. h \in [D -> Nat]
  BY <1>1
<1>3. G \in [[D -> V] -> [D -> V]]
  <2> SUFFICES ASSUME NEW f \in [D -> V], NEW i \in D, i # 1 PROVE f[i - 1] \o seqs[i] \in V
    BY <1>1
  <2>1. i - 1 \in D  BY <1>1
  <2>2. f[i - 1] \in Seq(T) /\ seqs[i] \in Seq(T)  BY <1>1, <2>1
  <2> QED  BY <2>2, Concatenation
<1>4. [i \in D |-> <<>>] \in [D -> V]
  OBVIOUS
<1>5. ASSUME NEW f \in [D -> V], NEW g \in [D -> V], NEW i \in D,
             \A j \in D : h[j] < h[i] => f[j] = g[j]
      PROVE  G[f][i] = G[g][i]
  <2>1. CASE i = 1  BY <2>1
  <2>2. CASE i # 1
    <3>1. i - 1 \in D /\ i \in Int  BY <1>1, <2>2
    <3>2. h[i - 1] < h[i]  BY <3>1
    <3>3. f[i - 1] = g[i - 1]
      <4> HIDE DEF h, D
      <4> QED  BY <1>5, <3>1, <3>2
    <3> QED  BY <2>2, <3>3
  <2> QED  BY <2>1, <2>2
<1>6. Descends(G, h, D, V)
  <2> HIDE DEF D, V, h, G
  <2>1. [D -> V] # {}  BY <1>4
  <2> QED  BY <1>2, <1>3, <1>5, <2>1 DEF Descends
<1>7. PICK f : IsFixpoint(f, G, D, V)
  <2> HIDE DEF D, V, h, G
  <2> QED  BY <1>6, RecursionByHeight
<1>8. f \in [D -> V] /\ G[f] = f
  BY <1>7 DEF IsFixpoint
<1>9. f = [i \in 1 .. Len(seqs) |-> IF i = 1 THEN seqs[i] ELSE f[i - 1] \o seqs[i]]
  BY <1>8
<1>10. F = [i \in 1 .. Len(seqs) |-> IF i = 1 THEN seqs[i] ELSE F[i - 1] \o seqs[i]]
  <2> HIDE DEF G, h
  <2> QED  BY <1>9, Zenon
<1>11. FlattenSeq(seqs) = F[Len(seqs)]
  <2> HIDE DEF G, h
  <2> QED  BY <1>1, Zenon DEF FlattenSeq
<1> HIDE DEF F, G, h
<1>12. F[1] = seqs[1] /\ \A k \in 2 .. Len(seqs) : F[k] = F[k - 1] \o seqs[k]
  <2>1. ASSUME NEW k \in 1 .. Len(seqs)
        PROVE  F[k] = IF k = 1 THEN seqs[k] ELSE F[k - 1] \o seqs[k]
    BY <1>10, Zenon
  <2>2. 1 \in 1 .. Len(seqs)  BY <1>1
  <2>3. \A k \in 2 .. Len(seqs) : k \in 1 .. Len(seqs) /\ k # 1  BY <1>1
  <2> QED  BY <2>1, <2>2, <2>3, Zenon
<1>13. \A n \in 1 .. Len(seqs) : F[n] \in Seq(T)
  <2> DEFINE E == {n \in Nat : n \in 1 .. Len(seqs) => F[n] \in Seq(T)}
  <2>1. \A n \in Nat : n \in E
    <3> TAKE N \in Nat
    <3>1. 0 \in E  OBVIOUS
    <3>2. ASSUME NEW n \in 0 .. N - 1, n \in E PROVE n + 1 \in E
      <4> SUFFICES ASSUME n + 1 \in 1 .. Len(seqs) PROVE F[n + 1] \in Seq(T)
        OBVIOUS
      <4>1. seqs[n + 1] \in Seq(T)  BY <1>1
      <4>2. CASE n = 0  BY <1>12, <4>1, <4>2
      <4>3. CASE n # 0
        <5>1. n \in 1 .. Len(seqs) /\ n + 1 \in 2 .. Len(seqs) /\ (n + 1) - 1 = n
          BY <1>1, <4>3
        <5>2. F[n + 1] = F[n] \o seqs[n + 1]
          BY <1>12, <5>1
        <5>3. F[n] \in Seq(T)  BY <3>2, <5>1
        <5> QED  BY <4>1, <5>2, <5>3, Concatenation
      <4> QED  BY <4>2, <4>3
    <3> HIDE DEF E
    <3> QED  BY <3>1, <3>2, InductionTo
  <2> QED  BY <1>1, <2>1
<1>14. F = [i \in 1 .. Len(seqs) |-> F[i]]
  <2>1. DOMAIN F = 1 .. Len(seqs)  BY <1>10
  <2>2. F = [i \in DOMAIN F |-> F[i]]  BY <1>10
  <2> QED  BY <2>1, <2>2
<1>15. Flattens(F, seqs, T)
  BY <1>12, <1>13, <1>14 DEF Flattens
<1> QED  BY <1>11, <1>15
-----------------------------------------------------------------------------
(* What is known of the origin.                                            *)

OriginStates == {"unknown", "zero", "given_up"}

LEMMA KnownAfterIsKnown ==
  ASSUME NEW known \in OriginStates, NEW n, NEW at
  PROVE  KnownAfter(known, n, at) \in OriginStates
  BY DEF KnownAfter, OriginStates

\* The function exists: one that is right up to a node gives one that is right
\* up to the next.
LEMMA OriginKnownSteps ==
  ASSUME NEW T, NEW body \in Seq(T)
  PROVE  LET known == OriginKnown(body)
         IN  /\ known[0] = "unknown"
             /\ \A i \in 0 .. Len(body) : known[i] \in OriginStates
             /\ \A i \in 1 .. Len(body) :
                  known[i] = KnownAfter(known[i - 1], body[i], OffsetAt(body, i))
<1> DEFINE N == Len(body)
           after(k, i) == KnownAfter(k, body[i], OffsetAt(body, i))
           Right(h, n) == /\ h \in [0 .. n -> OriginStates]
                          /\ \A i \in 0 .. n :
                               h[i] = IF i = 0 THEN "unknown" ELSE after(h[i - 1], i)
           G == {n \in 0 .. N : \E h : Right(h, n)}
           Is(h) == h = [i \in 0 .. N |-> IF i = 0 THEN "unknown" ELSE after(h[i - 1], i)]
<1>0. N \in Nat /\ "unknown" \in OriginStates /\ \A k \in OriginStates : \A i : after(k, i) \in OriginStates
  <2>1. ASSUME NEW k \in OriginStates, NEW i PROVE after(k, i) \in OriginStates
    BY KnownAfterIsKnown
  <2>2. N \in Nat /\ "unknown" \in OriginStates
    BY DEF OriginStates
  <2> HIDE DEF after, N
  <2> QED  BY <2>1, <2>2
<1> HIDE DEF after
<1>1. 0 \in G
  <2>1. Right([i \in 0 .. 0 |-> "unknown"], 0)
    BY <1>0
  <2>2. 0 \in 0 .. N  BY <1>0
  <2> HIDE DEF Right, N
  <2> QED  BY <2>1, <2>2
<1>2. ASSUME NEW n \in 0 .. N - 1, n \in G PROVE n + 1 \in G
  <2>1. PICK h : Right(h, n)
    BY <1>2
  <2> DEFINE g == [i \in 0 .. n + 1 |-> IF i = n + 1 THEN after(h[n], i) ELSE h[i]]
  <2>2. g \in [0 .. n + 1 -> OriginStates]
    <3>1. n \in 0 .. n /\ h[n] \in OriginStates  BY <2>1
    <3>2. after(h[n], n + 1) \in OriginStates  BY <1>0, <3>1
    <3> QED  BY <2>1, <3>2
  <2>3. ASSUME NEW i \in 0 .. n + 1
        PROVE  g[i] = IF i = 0 THEN "unknown" ELSE after(g[i - 1], i)
    <3>1. CASE i = n + 1
      <4>1. i # 0 /\ i - 1 = n /\ i - 1 \in 0 .. n + 1 /\ i - 1 # n + 1  BY <3>1
      <4>2. g[i - 1] = h[n]  BY <4>1
      <4> QED  BY <3>1, <4>1, <4>2
    <3>2. CASE i \in 0 .. n
      <4>1. g[i] = h[i]  BY <3>2
      <4>2. CASE i = 0  BY <2>1, <4>1, <4>2
      <4>3. CASE i # 0
        <5>1. i - 1 \in 0 .. n /\ i - 1 # n + 1  BY <3>2, <4>3
        <5>2. g[i - 1] = h[i - 1]  BY <5>1
        <5> QED  BY <2>1, <3>2, <4>1, <4>3, <5>2
      <4> QED  BY <4>2, <4>3
    <3> QED  BY <3>1, <3>2
  <2> HIDE DEF g
  <2>4. Right(g, n + 1)  BY <2>2, <2>3
  <2> QED  BY <1>0, <2>4
<1>3. PICK h : Right(h, N)
  <2>1. N \in G
    <3> HIDE DEF G, N
    <3> QED  BY <1>0, <1>1, <1>2, InductionTo
  <2> QED  BY <2>1
<1>4. Is(h)
  <2>1. /\ h \in [0 .. N -> OriginStates]
        /\ \A i \in 0 .. N : h[i] = IF i = 0 THEN "unknown" ELSE after(h[i - 1], i)
    BY <1>3
  <2> HIDE DEF N
  <2> QED  BY <2>1
<1> DEFINE known == CHOOSE k : Is(k)
<1>5. Is(known)
  <2> HIDE DEF Is
  <2> QED  BY <1>4
<1>6. OriginKnown(body) = known
  BY DEF OriginKnown, after
<1> HIDE DEF known
<1>7. known[0] = "unknown" /\ \A i \in 1 .. N : known[i] = after(known[i - 1], i)
  <2> HIDE DEF N
  <2>1. \A i \in 0 .. N : known[i] = IF i = 0 THEN "unknown" ELSE after(known[i - 1], i)
    BY <1>5
  <2> QED  BY <1>0, <2>1
<1> DEFINE H == {n \in 0 .. N : known[n] \in OriginStates}
<1>8. 0 \in H /\ \A n \in 0 .. N - 1 : n \in H => n + 1 \in H
  <2>1. 0 \in H  BY <1>0, <1>7
  <2>2. ASSUME NEW n \in 0 .. N - 1, n \in H PROVE n + 1 \in H
    <3>1. n + 1 \in 1 .. N /\ n + 1 - 1 = n  BY <1>0
    <3>2. known[n + 1] = after(known[n], n + 1)  BY <1>7, <3>1
    <3>3. known[n + 1] \in OriginStates  BY <1>0, <2>2, <3>2
    <3> QED  BY <3>1, <3>3
  <2> QED  BY <2>1, <2>2
<1>9. \A i \in 0 .. N : known[i] \in OriginStates
  <2> TAKE i \in 0 .. N
  <2>1. i \in Nat /\ \A n \in 0 .. i - 1 : n \in H => n + 1 \in H
    BY <1>0, <1>8
  <2>2. i \in H
    <3> HIDE DEF H, N
    <3> QED  BY <1>8, <2>1, InductionTo
  <2> QED  BY <2>2
<1> QED  BY <1>6, <1>7, <1>9 DEF after
-----------------------------------------------------------------------------
\* Nodes are trees: blocks have a finite height.
Heights(height) ==
  /\ height \in [Seq(Node) -> Nat]
  /\ \A block \in Seq(Node) : \A i \in DOMAIN block : height[block[i].body] < height[block]

FinitelyNested == \E height : Heights(height)
=============================================================================
