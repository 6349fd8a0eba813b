--------------------------- MODULE BFEmitter_proofs --------------------------
(***************************************************************************)
(* Proofs about the driver both code generators share (BFEmitter): what a  *)
(* backend shows of the code of its callbacks holds of the code of every   *)
(* block and program.                                                      *)
(*                                                                         *)
(* A piece of code is said to fit between two sets of states of the        *)
(* machine when its instructions can be annotated with the states they may *)
(* be reached in.  What the machine is and what an instruction does to a   *)
(* state (Keeps) are the backend's: the constants below.                   *)
(***************************************************************************)
EXTENDS BFEmitter, BFLoops, BFFolds_proofs

CONSTANTS
  AnyInstruction,     \* the backend's instructions
  Machine,            \* the states of its machine
  Keeps(_, _, _, _),  \* an instruction leads from one set of states to a second one,
                      \* at the next instruction, or to a third, where it jumps
  Nonzero(_)          \* the states in which the cell at an offset is not 0

\* All that is asked of Keeps.
KeepsIsMonotone ==
  /\ \A i \in AnyInstruction : i.to \in Int
  /\ \A i, next, there : Keeps(i, {}, next, there)
  /\ \A i, here, next, there, less, more, else :
       /\ Keeps(i, here, next, there)
       /\ less \subseteq here /\ next \subseteq more /\ there \subseteq else
       => Keeps(i, less, more, else)
-----------------------------------------------------------------------------
(* Pieces of code.                                                         *)

Valid(c, known) ==
  /\ c \in Seq(AnyInstruction)
  /\ known \in [Int -> SUBSET Machine]
  /\ \A j \in Int : j \notin 1 .. Len(c) + 1 => known[j] = {}
  /\ \A k \in 1 .. Len(c) : Keeps(c[k], known[k], known[k + 1], known[k + c[k].to])

\* Entered at its start in a state of P, the code c is left at its end in a state
\* of Q, or for an error block.
Fits(c, P, Q) ==
  /\ c \in Seq(AnyInstruction)
  /\ \E known : Valid(c, known) /\ P \subseteq known[1] /\ known[Len(c) + 1] \subseteq Q

LEMMA KeepsMonotone ==
  ASSUME KeepsIsMonotone,
         NEW i, NEW here, NEW next, NEW there, Keeps(i, here, next, there),
         NEW less, less \subseteq here, NEW more, next \subseteq more,
         NEW else, there \subseteq else
  PROVE  Keeps(i, less, more, else)
  BY DEF KeepsIsMonotone

\* A piece of code keeps its annotation when it becomes part of more code: C has c
\* after the first s instructions.
LEMMA PartOfMore ==
  ASSUME KeepsIsMonotone, NEW c, NEW known, Valid(c, known),
         NEW C, NEW all, NEW s \in Nat,
         \A j \in 1 .. Len(c) : C[j + s] = c[j] /\ all[j + s] \subseteq known[j],
         \A j \in Int : known[j] \subseteq all[j + s]
  PROVE  \A j \in 1 .. Len(c) :
           Keeps(C[j + s], all[j + s], all[j + s + 1], all[j + s + C[j + s].to])
<1> SUFFICES ASSUME NEW j \in 1 .. Len(c)
             PROVE  Keeps(C[j + s], all[j + s], all[j + s + 1], all[j + s + C[j + s].to])
  OBVIOUS
<1>1. c \in Seq(AnyInstruction) /\ c[j] \in AnyInstruction
  BY DEF Valid
<1>2. c[j].to \in Int
  BY <1>1 DEF KeepsIsMonotone
<1>3. Keeps(c[j], known[j], known[j + 1], known[j + c[j].to])
  BY DEF Valid
<1>4. known[j + 1] \subseteq all[j + s + 1]
  <2>1. j + 1 \in Int /\ (j + 1) + s = j + s + 1  OBVIOUS
  <2> QED  BY <2>1
<1>5. known[j + c[j].to] \subseteq all[j + s + c[j].to]
  <2>1. j + c[j].to \in Int /\ (j + c[j].to) + s = j + s + c[j].to  BY <1>2
  <2> QED  BY <2>1
<1>6. C[j + s] = c[j] /\ all[j + s] \subseteq known[j]
  OBVIOUS
<1> QED  BY <1>3, <1>4, <1>5, <1>6, KeepsMonotone

LEMMA FitsWeaker ==
  ASSUME NEW c, NEW P, NEW Q, Fits(c, P, Q), NEW R, R \subseteq P, NEW S, Q \subseteq S
  PROVE  Fits(c, R, S)
  BY DEF Fits

LEMMA FitsNothing ==
  ASSUME NEW P, P \subseteq Machine
  PROVE  Fits(<<>>, P, P)
<1> DEFINE known == [j \in Int |-> IF j = 1 THEN P ELSE {}]
<1>1. Valid(<<>>, known)
  BY DEF Valid
<1>2. known[1] = P
  OBVIOUS
<1> QED  BY <1>1, <1>2 DEF Fits

LEMMA FitsOne ==
  ASSUME KeepsIsMonotone, NEW i \in AnyInstruction, NEW P, P \subseteq Machine,
         NEW Q, Q \subseteq Machine,
         Keeps(i, P, Q, {})
  PROVE  Fits(<<i>>, P, Q)
<1> DEFINE known == [j \in Int |-> IF j = 1 THEN P ELSE IF j = 2 THEN Q ELSE {}]
<1>1. known \in [Int -> SUBSET Machine] /\ known[1] = P /\ known[2] = Q
  OBVIOUS
<1> HIDE DEF known
<1>2. known[1 + i.to] \in SUBSET Machine
  <2>1. i.to \in Int  BY DEF KeepsIsMonotone
  <2>2. 1 + i.to \in Int  BY <2>1
  <2> QED  BY <1>1, <2>2
<1>3. Keeps(i, known[1], known[2], known[1 + i.to])
  BY <1>1, <1>2, KeepsMonotone
<1>4. \A j \in Int : j \notin 1 .. 2 => known[j] = {}
  BY DEF known
<1>5. <<i>> \in Seq(AnyInstruction) /\ Len(<<i>>) = 1 /\ <<i>>[1] = i
  OBVIOUS
<1>6. ASSUME NEW k \in 1 .. Len(<<i>>)
      PROVE  Keeps(<<i>>[k], known[k], known[k + 1], known[k + <<i>>[k].to])
  <2>1. k = 1 /\ k + 1 = 2  BY <1>5
  <2> QED  BY <1>3, <1>5, <2>1
<1>7. Valid(<<i>>, known)
  BY <1>1, <1>4, <1>5, <1>6 DEF Valid
<1> QED  BY <1>1, <1>5, <1>7 DEF Fits

LEMMA FitsThen ==
  ASSUME KeepsIsMonotone, NEW c, NEW P, NEW Q, Fits(c, P, Q), NEW d,
         NEW R, Fits(d, Q, R)
  PROVE  Fits(c \o d, P, R)
<1>1. PICK kc : Valid(c, kc) /\ P \subseteq kc[1] /\ kc[Len(c) + 1] \subseteq Q
  BY DEF Fits
<1>2. PICK kd : Valid(d, kd) /\ Q \subseteq kd[1] /\ kd[Len(d) + 1] \subseteq R
  BY DEF Fits
<1> DEFINE n   == Len(c)
           m   == Len(d)
           C   == c \o d
           all == [j \in Int |-> IF j <= n THEN kc[j] ELSE kd[j - n]]
<1>3. /\ c \in Seq(AnyInstruction) /\ d \in Seq(AnyInstruction)
      /\ kc \in [Int -> SUBSET Machine] /\ kd \in [Int -> SUBSET Machine]
      /\ \A j \in Int : j \notin 1 .. n + 1 => kc[j] = {}
      /\ \A j \in Int : j \notin 1 .. m + 1 => kd[j] = {}
  BY <1>1, <1>2 DEF Valid
<1>4. /\ n \in Nat /\ m \in Nat /\ C \in Seq(AnyInstruction) /\ Len(C) = n + m
      /\ \A j \in 1 .. n : C[j] = c[j]
      /\ \A j \in 1 .. m : C[j + n] = d[j]
  BY <1>3, Concatenation
<1>5. all \in [Int -> SUBSET Machine]
  <2> SUFFICES ASSUME NEW j \in Int PROVE kc[j] \subseteq Machine /\ kd[j - n] \subseteq Machine
    OBVIOUS
  <2>1. j - n \in Int  BY <1>4
  <2> QED  BY <1>3, <2>1
<1>6. \A j \in Int : kc[j] \subseteq all[j]
  <2> TAKE j \in Int
  <2>1. CASE j <= n  BY <2>1
  <2>2. CASE j = n + 1
    <3>1. all[j] = kd[1] /\ kc[n + 1] \subseteq kd[1]  BY <1>1, <1>2, <1>4, <2>2
    <3> QED  BY <2>2, <3>1
  <2>3. CASE j > n + 1
    <3>1. j \notin 1 .. n + 1  BY <1>4, <2>3
    <3> QED  BY <1>3, <3>1
  <2> QED  BY <1>4, <2>1, <2>2, <2>3
<1>7. \A j \in Int : kd[j] \subseteq all[j + n]
  <2> TAKE j \in Int
  <2>1. j + n \in Int /\ (j + n) - n = j  BY <1>4
  <2>2. CASE j <= 0
    <3>1. j \notin 1 .. m + 1  BY <1>4, <2>2
    <3> QED  BY <1>3, <3>1
  <2>3. CASE j > 0
    <3>1. ~(j + n <= n)  BY <1>4, <2>3
    <3> QED  BY <2>1, <3>1
  <2> QED  BY <2>2, <2>3
<1>8. (\A j \in 1 .. n : all[j] = kc[j]) /\ \A j \in 1 .. m + 1 : all[j + n] = kd[j]
  <2>1. ASSUME NEW j \in 1 .. n PROVE all[j] = kc[j]
    <3>1. j \in Int /\ j <= n  BY <1>4
    <3> QED  BY <3>1
  <2>2. ASSUME NEW j \in 1 .. m + 1 PROVE all[j + n] = kd[j]
    <3>1. j + n \in Int /\ (j + n) - n = j /\ ~(j + n <= n)  BY <1>4
    <3> QED  BY <3>1
  <2> QED  BY <2>1, <2>2
<1> HIDE DEF all, C, n, m
<1>9. \A j \in 1 .. n : Keeps(C[j], all[j], all[j + 1], all[j + C[j].to])
  <2>1. \A j \in 1 .. Len(c) : C[j + 0] = c[j] /\ all[j + 0] \subseteq kc[j]
    <3> SUFFICES ASSUME NEW j \in 1 .. n PROVE C[j + 0] = c[j] /\ all[j + 0] \subseteq kc[j]
      BY DEF n
    <3>1. j + 0 = j  BY <1>4
    <3> QED  BY <1>4, <1>8, <3>1
  <2>2. \A j \in Int : kc[j] \subseteq all[j + 0]
    <3> TAKE j \in Int
    <3>1. j + 0 = j  OBVIOUS
    <3> QED  BY <1>6, <3>1
  <2>3. \A j \in 1 .. Len(c) :
          Keeps(C[j + 0], all[j + 0], all[j + 0 + 1], all[j + 0 + C[j + 0].to])
    BY <1>1, <2>1, <2>2, PartOfMore
  <2> TAKE j \in 1 .. n
  <2>4. j + 0 = j  BY <1>4
  <2>5. j \in 1 .. Len(c)  BY DEF n
  <2> QED  BY <2>3, <2>4, <2>5
<1>10. \A j \in 1 .. m : Keeps(C[j + n], all[j + n], all[j + n + 1], all[j + n + C[j + n].to])
  <2>1. \A j \in 1 .. m : C[j + n] = d[j] /\ all[j + n] \subseteq kd[j]
    <3> TAKE j \in 1 .. m
    <3>1. j \in 1 .. m + 1  BY <1>4
    <3> QED  BY <1>4, <1>8, <3>1
  <2> QED  BY <1>2, <1>4, <1>7, <2>1, PartOfMore DEF m
<1>11. \A k \in 1 .. n + m : Keeps(C[k], all[k], all[k + 1], all[k + C[k].to])
  <2> TAKE k \in 1 .. n + m
  <2>1. CASE k \in 1 .. n  BY <1>9, <2>1
  <2>2. CASE k - n \in 1 .. m
    <3>1. k = (k - n) + n  BY <1>4
    <3> QED  BY <1>10, <2>2, <3>1
  <2> QED  BY <1>4, <2>1, <2>2
<1>12. \A j \in Int : j \notin 1 .. Len(C) + 1 => all[j] = {}
  <2> SUFFICES ASSUME NEW j \in Int, j \notin 1 .. n + m + 1 PROVE all[j] = {}
    BY <1>4
  <2>1. CASE j <= n
    <3>1. j \notin 1 .. n + 1  BY <1>4, <2>1
    <3>2. all[j] = kc[j]  BY <2>1 DEF all
    <3> QED  BY <1>3, <3>1, <3>2
  <2>2. CASE ~(j <= n)
    <3>1. j - n \in Int /\ j - n \notin 1 .. m + 1  BY <1>4, <2>2
    <3>2. all[j] = kd[j - n]  BY <2>2 DEF all
    <3> QED  BY <1>3, <3>1, <3>2
  <2> QED  BY <2>1, <2>2
<1>13. Valid(C, all)
  BY <1>4, <1>5, <1>11, <1>12 DEF Valid
<1>14. P \subseteq all[1]
  <2>1. 1 \in Int  OBVIOUS
  <2>2. kc[1] \subseteq all[1]  BY <1>6, <2>1
  <2> QED  BY <1>1, <2>2
<1>15. all[Len(C) + 1] \subseteq R
  <2>1. m + 1 \in 1 .. m + 1 /\ Len(C) + 1 = (m + 1) + n  BY <1>4
  <2>2. all[Len(C) + 1] = kd[m + 1]  BY <1>8, <2>1
  <2> QED  BY <1>2, <2>2 DEF m
<1> QED  BY <1>4, <1>13, <1>14, <1>15 DEF Fits, C

\* A jump over a piece of code.
LEMMA FitsBehindJump ==
  ASSUME KeepsIsMonotone, NEW i \in AnyInstruction, NEW c, NEW P, P \subseteq Machine,
         NEW Q,
         NEW R, R \subseteq Machine,
         Fits(c, Q, R), i.to = Len(c) + 1, Keeps(i, P, Q, R)
  PROVE  Fits(<<i>> \o c, P, R)
<1>1. PICK kc : Valid(c, kc) /\ Q \subseteq kc[1] /\ kc[Len(c) + 1] \subseteq R
  BY DEF Fits
<1> DEFINE n   == Len(c)
           C   == <<i>> \o c
           all == [j \in Int |-> IF j = 1 THEN P ELSE IF j = n + 2 THEN R ELSE kc[j - 1]]
<1>2. /\ c \in Seq(AnyInstruction) /\ kc \in [Int -> SUBSET Machine]
      /\ \A j \in Int : j \notin 1 .. n + 1 => kc[j] = {}
  BY <1>1 DEF Valid
<1>3. /\ n \in Nat /\ C \in Seq(AnyInstruction) /\ Len(C) = n + 1 /\ C[1] = i
      /\ \A j \in 1 .. n : C[j + 1] = c[j]
  <2>1. <<i>> \in Seq(AnyInstruction) /\ Len(<<i>>) = 1 /\ <<i>>[1] = i  OBVIOUS
  <2>2. 1 \in 1 .. Len(<<i>>)  BY <2>1
  <2> QED  BY <1>2, <2>1, <2>2, Concatenation
<1>4. /\ all \in [Int -> SUBSET Machine] /\ all[1] = P /\ all[n + 2] = R
      /\ \A j \in Int : j # 1 /\ j # n + 2 => all[j] = kc[j - 1]
  <2>1. ASSUME NEW j \in Int PROVE kc[j - 1] \subseteq Machine
    <3>1. j - 1 \in Int  OBVIOUS
    <3> QED  BY <1>2, <3>1
  <2>2. n + 2 \in Int /\ n + 2 # 1  BY <1>3
  <2> QED  BY <2>1, <2>2
<1> HIDE DEF all, C, n
<1>5. \A j \in Int : kc[j] \subseteq all[j + 1]
  <2> TAKE j \in Int
  <2>1. j + 1 \in Int /\ (j + 1) - 1 = j  OBVIOUS
  <2>2. CASE j = 0
    <3>1. j \notin 1 .. n + 1  BY <2>2
    <3> QED  BY <1>2, <3>1
  <2>3. CASE j = n + 1
    <3>1. all[j + 1] = R /\ kc[n + 1] \subseteq R  BY <1>1, <1>3, <1>4, <2>3 DEF n
    <3> QED  BY <2>3, <3>1
  <2>4. CASE j # 0 /\ j # n + 1
    <3>1. j + 1 # 1 /\ j + 1 # n + 2  BY <1>3, <2>4
    <3> QED  BY <1>4, <2>1, <3>1
  <2> QED  BY <2>2, <2>3, <2>4
<1>6. \A j \in 1 .. n : all[j + 1] = kc[j]
  <2> TAKE j \in 1 .. n
  <2>1. j + 1 \in Int /\ (j + 1) - 1 = j /\ j + 1 # 1 /\ j + 1 # n + 2  BY <1>3
  <2> QED  BY <1>4, <2>1
<1>7. \A j \in 1 .. n : Keeps(C[j + 1], all[j + 1], all[j + 1 + 1], all[j + 1 + C[j + 1].to])
  <2>1. 1 \in Nat /\ \A j \in 1 .. n : C[j + 1] = c[j] /\ all[j + 1] \subseteq kc[j]
    BY <1>3, <1>6
  <2> QED  BY <1>1, <1>5, <2>1, PartOfMore DEF n
<1>8. Keeps(C[1], all[1], all[1 + 1], all[1 + C[1].to])
  <2>1. Q \subseteq all[2]
    <3>1. 1 \in Int /\ 1 + 1 = 2  OBVIOUS
    <3>2. kc[1] \subseteq all[2]  BY <1>5, <3>1
    <3> QED  BY <1>1, <3>2
  <2>2. all[1 + C[1].to] = R
    <3>1. 1 + C[1].to = n + 2  BY <1>3 DEF n
    <3> QED  BY <1>4, <3>1
  <2>3. 1 + 1 = 2  OBVIOUS
  <2> QED  BY <1>3, <1>4, <2>1, <2>2, <2>3, KeepsMonotone
<1>9. \A k \in 1 .. n + 1 : Keeps(C[k], all[k], all[k + 1], all[k + C[k].to])
  <2> TAKE k \in 1 .. n + 1
  <2>1. CASE k = 1  BY <1>8, <2>1
  <2>2. CASE k - 1 \in 1 .. n
    <3>1. k = (k - 1) + 1  BY <1>3
    <3> QED  BY <1>7, <2>2, <3>1
  <2> QED  BY <1>3, <2>1, <2>2
<1>10. \A j \in Int : j \notin 1 .. Len(C) + 1 => all[j] = {}
  <2> SUFFICES ASSUME NEW j \in Int, j \notin 1 .. n + 2 PROVE all[j] = {}
    BY <1>3
  <2>1. j # 1 /\ j # n + 2 /\ j - 1 \in Int /\ j - 1 \notin 1 .. n + 1  BY <1>3
  <2> QED  BY <1>2, <1>4, <2>1
<1>11. Valid(C, all)
  BY <1>3, <1>4, <1>9, <1>10 DEF Valid
<1>12. P \subseteq all[1] /\ all[Len(C) + 1] \subseteq R
  <2>1. Len(C) + 1 = n + 2  BY <1>3
  <2> QED  BY <1>4, <2>1
<1> QED  BY <1>3, <1>11, <1>12 DEF Fits, C

(***************************************************************************)
(* A loop: a test t before the body, the body, and the test again, from    *)
(* which the code goes on with the body (i is the jump out of the loop, k  *)
(* the jump back to its start).                                            *)
(***************************************************************************)
LEMMA FitsLoop ==
  ASSUME KeepsIsMonotone, NEW t, NEW c, NEW i \in AnyInstruction,
         NEW k \in AnyInstruction,
         NEW P, P \subseteq Machine, NEW R, R \subseteq Machine, NEW Q,
         NEW S, S \subseteq Machine,
         Fits(t, P, R), Fits(c, Q, P),
         i.to = Len(t) + Len(c) + 2, k.to = -(Len(t) + Len(c) + Len(t) + 1),
         Keeps(i, R, Q, S), Keeps(k, R, S, P)
  PROVE  Fits(((t \o <<i>>) \o c) \o t \o <<k>>, P, S)
<1>1. PICK kt : Valid(t, kt) /\ P \subseteq kt[1] /\ kt[Len(t) + 1] \subseteq R
  BY DEF Fits
<1>2. PICK kc : Valid(c, kc) /\ Q \subseteq kc[1] /\ kc[Len(c) + 1] \subseteq P
  BY DEF Fits
<1> DEFINE n == Len(t)
           m == Len(c)
           A == t \o <<i>>
           B == A \o c
           D == B \o t
           C == D \o <<k>>
           all == [j \in Int |->
                     IF j <= n THEN kt[j]
                     ELSE IF j = n + 1 THEN R
                     ELSE IF j <= n + m + 1 THEN kc[j - (n + 1)]
                     ELSE IF j <= n + m + n + 1 THEN kt[j - (n + m + 1)]
                     ELSE IF j = n + m + n + 2 THEN R
                     ELSE IF j = n + m + n + 3 THEN S ELSE {}]
<1>3. /\ t \in Seq(AnyInstruction) /\ c \in Seq(AnyInstruction)
      /\ kt \in [Int -> SUBSET Machine] /\ kc \in [Int -> SUBSET Machine]
      /\ \A j \in Int : j \notin 1 .. n + 1 => kt[j] = {}
      /\ \A j \in Int : j \notin 1 .. m + 1 => kc[j] = {}
      /\ n \in Nat /\ m \in Nat
  BY <1>1, <1>2 DEF Valid
<1>4. /\ <<i>> \in Seq(AnyInstruction) /\ Len(<<i>>) = 1 /\ <<i>>[1] = i
      /\ <<k>> \in Seq(AnyInstruction) /\ Len(<<k>>) = 1 /\ <<k>>[1] = k
      /\ 1 \in 1 .. 1
  OBVIOUS
<1>5. /\ A \in Seq(AnyInstruction) /\ Len(A) = n + 1
      /\ \A j \in 1 .. n : A[j] = t[j]
      /\ A[n + 1] = i
  <2>1. A \in Seq(AnyInstruction) /\ Len(A) = n + 1 /\ A[1 + n] = i
    BY <1>3, <1>4, Concatenation
  <2>2. \A j \in 1 .. n : A[j] = t[j]
    BY <1>3, <1>4, Concatenation
  <2>3. 1 + n = n + 1  BY <1>3
  <2> QED  BY <2>1, <2>2, <2>3
<1> HIDE DEF A
<1>6. /\ B \in Seq(AnyInstruction) /\ Len(B) = n + m + 1
      /\ \A j \in 1 .. n + 1 : B[j] = A[j]
      /\ \A j \in 1 .. m : B[j + (n + 1)] = c[j]
  <2>0. B \in Seq(AnyInstruction) /\ Len(B) = Len(A) + Len(c)
    <3>1. A \in Seq(AnyInstruction) /\ c \in Seq(AnyInstruction)  BY <1>3, <1>5
    <3> QED  BY ONLY <3>1, Concatenation
  <2>1. B \in Seq(AnyInstruction) /\ Len(B) = (n + 1) + m
    BY <1>5, <2>0
  <2>2. /\ \A j \in 1 .. n + 1 : B[j] = A[j]
        /\ \A j \in 1 .. m : B[j + (n + 1)] = c[j]
    BY <1>3, <1>5, Concatenation
  <2>3. (n + 1) + m = n + m + 1  BY <1>3
  <2> QED  BY <2>1, <2>2, <2>3
<1> HIDE DEF B
<1>7. /\ D \in Seq(AnyInstruction) /\ Len(D) = n + m + n + 1
      /\ \A j \in 1 .. n + m + 1 : D[j] = B[j]
      /\ \A j \in 1 .. n : D[j + (n + m + 1)] = t[j]
  <2>0. D \in Seq(AnyInstruction) /\ Len(D) = Len(B) + Len(t)
    <3>1. B \in Seq(AnyInstruction) /\ t \in Seq(AnyInstruction)  BY <1>3, <1>6
    <3> QED  BY ONLY <3>1, Concatenation
  <2>1. D \in Seq(AnyInstruction) /\ Len(D) = (n + m + 1) + n
    BY <1>6, <2>0
  <2>2. /\ \A j \in 1 .. n + m + 1 : D[j] = B[j]
        /\ \A j \in 1 .. n : D[j + (n + m + 1)] = t[j]
    BY <1>3, <1>6, Concatenation
  <2>3. (n + m + 1) + n = n + m + n + 1  BY <1>3
  <2> QED  BY <2>1, <2>2, <2>3
<1> HIDE DEF D
<1>8. /\ C \in Seq(AnyInstruction) /\ Len(C) = n + m + n + 2
      /\ \A j \in 1 .. n + m + n + 1 : C[j] = D[j]
      /\ C[n + m + n + 2] = k
  <2>0. /\ C \in Seq(AnyInstruction) /\ Len(C) = Len(D) + 1
        /\ C[1 + Len(D)] = k
    <3> HIDE DEF n, m
    <3> QED  BY <1>4, <1>7, Concatenation
  <2>1. C \in Seq(AnyInstruction) /\ Len(C) = (n + m + n + 1) + 1
        /\ C[1 + (n + m + n + 1)] = k
    BY <1>7, <2>0
  <2>2. \A j \in 1 .. n + m + n + 1 : C[j] = D[j]
    BY <1>4, <1>7, Concatenation
  <2>3. 1 + (n + m + n + 1) = n + m + n + 2 /\ (n + m + n + 1) + 1 = n + m + n + 2
    BY <1>3
  <2> QED  BY <2>1, <2>2, <2>3
<1> HIDE DEF C
\* What is at each place of the whole.
<1>9. /\ \A j \in 1 .. n : C[j] = t[j]
      /\ C[n + 1] = i
      /\ \A j \in 1 .. m : C[j + (n + 1)] = c[j]
      /\ \A j \in 1 .. n : C[j + (n + m + 1)] = t[j]
  <2>1. ASSUME NEW j \in 1 .. n PROVE C[j] = t[j]
    <3>1. j \in 1 .. n + 1 /\ j \in 1 .. n + m + 1 /\ j \in 1 .. n + m + n + 1  BY <1>3
    <3> QED  BY <1>5, <1>6, <1>7, <1>8, <3>1
  <2>2. C[n + 1] = i
    <3>1. n + 1 \in 1 .. n + 1 /\ n + 1 \in 1 .. n + m + 1 /\ n + 1 \in 1 .. n + m + n + 1
      BY <1>3
    <3> QED  BY <1>5, <1>6, <1>7, <1>8, <3>1
  <2>3. ASSUME NEW j \in 1 .. m PROVE C[j + (n + 1)] = c[j]
    <3>1. j + (n + 1) \in 1 .. n + m + 1 /\ j + (n + 1) \in 1 .. n + m + n + 1  BY <1>3
    <3> QED  BY <1>6, <1>7, <1>8, <3>1
  <2>4. ASSUME NEW j \in 1 .. n PROVE C[j + (n + m + 1)] = t[j]
    <3>1. j + (n + m + 1) \in 1 .. n + m + n + 1  BY <1>3
    <3> QED  BY <1>7, <1>8, <3>1
  <2> QED  BY <2>1, <2>2, <2>3, <2>4
\* What is known there.
<1>10. ASSUME NEW j \in Int
       PROVE  /\ j <= n => all[j] = kt[j]
              /\ j = n + 1 => all[j] = R
              /\ n + 1 < j /\ j <= n + m + 1 => all[j] = kc[j - (n + 1)]
              /\ n + m + 1 < j /\ j <= n + m + n + 1 => all[j] = kt[j - (n + m + 1)]
              /\ j = n + m + n + 2 => all[j] = R
              /\ j = n + m + n + 3 => all[j] = S
              /\ j > n + m + n + 3 => all[j] = {}
  BY <1>3
<1>11. all \in [Int -> SUBSET Machine]
  <2>1. ASSUME NEW j \in Int
        PROVE  /\ kt[j] \subseteq Machine /\ kc[j - (n + 1)] \subseteq Machine
               /\ kt[j - (n + m + 1)] \subseteq Machine
    <3>1. j - (n + 1) \in Int /\ j - (n + m + 1) \in Int  BY <1>3
    <3> QED  BY <1>3, <3>1
  <2> HIDE DEF n, m
  <2> QED  BY <2>1
<1> HIDE DEF all
<1>12. \A j \in Int : kt[j] \subseteq all[j + 0]
  <2> TAKE j \in Int
  <2>0. j + 0 = j  OBVIOUS
  <2>1. CASE j <= n  BY <1>10, <2>0, <2>1
  <2>2. CASE j = n + 1
    <3>1. all[j] = R /\ kt[j] \subseteq R  BY <1>1, <1>10, <2>2
    <3> QED  BY <2>0, <3>1
  <2>3. CASE j > n + 1
    <3>1. j \notin 1 .. n + 1  BY <1>3, <2>3
    <3> QED  BY <1>3, <3>1
  <2> HIDE DEF n, m
  <2> QED  BY <1>3, <2>1, <2>2, <2>3
<1>13. \A j \in Int : kt[j] \subseteq all[j + (n + m + 1)]
  <2> TAKE j \in Int
  <2>0. j + (n + m + 1) \in Int /\ (j + (n + m + 1)) - (n + m + 1) = j  BY <1>3
  <2>1. CASE j <= 0
    <3>1. j \notin 1 .. n + 1  BY <1>3, <2>1
    <3> QED  BY <1>3, <3>1
  <2>2. CASE 0 < j /\ j <= n
    <3>1. n + m + 1 < j + (n + m + 1) /\ j + (n + m + 1) <= n + m + n + 1  BY <1>3, <2>2
    <3>2. all[j + (n + m + 1)] = kt[j]  BY <1>10, <2>0, <3>1
    <3> QED  BY <3>2
  <2>3. CASE j = n + 1
    <3>1. j + (n + m + 1) = n + m + n + 2  BY <1>3, <2>3
    <3>2. all[j + (n + m + 1)] = R /\ kt[j] \subseteq R  BY <1>1, <1>10, <2>0, <2>3, <3>1
    <3> QED  BY <3>2
  <2>4. CASE j > n + 1
    <3>1. j \notin 1 .. n + 1  BY <1>3, <2>4
    <3> QED  BY <1>3, <3>1
  <2> HIDE DEF n, m
  <2> QED  BY <1>3, <2>1, <2>2, <2>3, <2>4
<1>14. P \subseteq all[n + m + 2]
  <2>1. CASE n = 0
    <3>1. n + m + 2 \in Int /\ n + m + 2 = n + m + n + 2  BY <1>3, <2>1
    <3>2. all[n + m + 2] = R  BY <1>10, <3>1
    <3>3. kt[1] \subseteq R  BY <1>1, <2>1
    <3> QED  BY <1>1, <3>2, <3>3
  <2>2. CASE n > 0
    <3>1. 1 \in Int /\ 1 + (n + m + 1) = n + m + 2  BY <1>3
    <3>2. kt[1] \subseteq all[n + m + 2]  BY <1>13, <3>1
    <3> QED  BY <1>1, <3>2
  <2> HIDE DEF n, m
  <2> QED  BY <1>3, <2>1, <2>2
<1>15. \A j \in Int : kc[j] \subseteq all[j + (n + 1)]
  <2> TAKE j \in Int
  <2>0. j + (n + 1) \in Int /\ (j + (n + 1)) - (n + 1) = j  BY <1>3
  <2>1. CASE j <= 0 \/ j > m + 1
    <3>1. j \notin 1 .. m + 1  BY <1>3, <2>1
    <3> QED  BY <1>3, <3>1
  <2>2. CASE 0 < j /\ j <= m
    <3>1. n + 1 < j + (n + 1) /\ j + (n + 1) <= n + m + 1  BY <1>3, <2>2
    <3>2. all[j + (n + 1)] = kc[j]  BY <1>10, <2>0, <3>1
    <3> QED  BY <3>2
  <2>3. CASE j = m + 1
    <3>1. j + (n + 1) = n + m + 2  BY <1>3, <2>3
    <3>2. kc[j] \subseteq P  BY <1>2, <2>3
    <3> QED  BY <1>14, <3>1, <3>2
  <2> HIDE DEF n, m
  <2> QED  BY <1>3, <2>1, <2>2, <2>3
<1>16. /\ \A j \in 1 .. n : all[j + 0] = kt[j]
       /\ \A j \in 1 .. m : all[j + (n + 1)] = kc[j]
       /\ \A j \in 1 .. n : all[j + (n + m + 1)] = kt[j]
       /\ all[n + 1] = R /\ all[n + m + n + 2] = R /\ all[n + m + n + 3] = S
  <2>1. ASSUME NEW j \in 1 .. n PROVE all[j + 0] = kt[j]
    <3>1. j + 0 = j /\ j \in Int /\ j <= n  BY <1>3
    <3> QED  BY <1>10, <3>1
  <2>2. ASSUME NEW j \in 1 .. m PROVE all[j + (n + 1)] = kc[j]
    <3>1. /\ j + (n + 1) \in Int /\ (j + (n + 1)) - (n + 1) = j
          /\ n + 1 < j + (n + 1) /\ j + (n + 1) <= n + m + 1
      BY <1>3
    <3> QED  BY <1>10, <3>1
  <2>3. ASSUME NEW j \in 1 .. n PROVE all[j + (n + m + 1)] = kt[j]
    <3>1. /\ j + (n + m + 1) \in Int /\ (j + (n + m + 1)) - (n + m + 1) = j
          /\ n + m + 1 < j + (n + m + 1) /\ j + (n + m + 1) <= n + m + n + 1
      BY <1>3
    <3> QED  BY <1>10, <3>1
  <2>4. n + 1 \in Int /\ n + m + n + 2 \in Int /\ n + m + n + 3 \in Int  BY <1>3
  <2> QED  BY <1>10, <2>1, <2>2, <2>3, <2>4
\* So each instruction keeps to it.
<1>17. \A j \in 1 .. n : Keeps(C[j], all[j], all[j + 1], all[j + C[j].to])
  <2>1. \A j \in 1 .. Len(t) : C[j + 0] = t[j] /\ all[j + 0] \subseteq kt[j]
    <3> SUFFICES ASSUME NEW j \in 1 .. n PROVE C[j + 0] = t[j] /\ all[j + 0] = kt[j]
      OBVIOUS
    <3>1. j + 0 = j  BY <1>3
    <3> QED  BY <1>9, <1>16, <3>1
  <2>2. \A j \in 1 .. Len(t) :
          Keeps(C[j + 0], all[j + 0], all[j + 0 + 1], all[j + 0 + C[j + 0].to])
    BY <1>1, <1>12, <2>1, PartOfMore
  <2> TAKE j \in 1 .. n
  <2>3. j + 0 = j /\ j \in 1 .. Len(t)  BY <1>3
  <2> HIDE DEF n
  <2> QED  BY <2>2, <2>3
<1>18. \A j \in 1 .. m :
         Keeps(C[j + (n + 1)], all[j + (n + 1)], all[j + (n + 1) + 1],
               all[j + (n + 1) + C[j + (n + 1)].to])
  <2>1. \A j \in 1 .. m : C[j + (n + 1)] = c[j] /\ all[j + (n + 1)] \subseteq kc[j]
    BY <1>9, <1>16
  <2>2. n + 1 \in Nat  BY <1>3
  <2> HIDE DEF n
  <2> QED  BY <1>2, <1>15, <2>1, <2>2, PartOfMore DEF m
<1>19. \A j \in 1 .. n :
         Keeps(C[j + (n + m + 1)], all[j + (n + m + 1)], all[j + (n + m + 1) + 1],
               all[j + (n + m + 1) + C[j + (n + m + 1)].to])
  <2>1. \A j \in 1 .. n : C[j + (n + m + 1)] = t[j] /\ all[j + (n + m + 1)] \subseteq kt[j]
    BY <1>9, <1>16
  <2> DEFINE s == n + m + 1
  <2>2. s \in Nat  BY <1>3
  <2>3. \A j \in 1 .. Len(t) : C[j + s] = t[j] /\ all[j + s] \subseteq kt[j]
    BY <2>1
  <2>4. \A j \in Int : kt[j] \subseteq all[j + s]
    BY <1>13
  <2> HIDE DEF s
  <2>5. \A j \in 1 .. Len(t) : Keeps(C[j + s], all[j + s], all[j + s + 1], all[j + s + C[j + s].to])
    BY <1>1, <2>2, <2>3, <2>4, PartOfMore
  <2> QED  BY <2>5 DEF s
<1>20. Keeps(C[n + 1], all[n + 1], all[(n + 1) + 1], all[(n + 1) + C[n + 1].to])
  <2>1. Q \subseteq all[(n + 1) + 1]
    <3>1. 1 \in Int /\ 1 + (n + 1) = (n + 1) + 1  BY <1>3
    <3>2. kc[1] \subseteq all[1 + (n + 1)]  BY <1>15, <3>1
    <3> QED  BY <1>2, <3>1, <3>2
  <2>2. all[(n + 1) + C[n + 1].to] = S
    <3>1. (n + 1) + C[n + 1].to = n + m + n + 3  BY <1>3, <1>9
    <3> QED  BY <1>16, <3>1
  <2> QED  BY <1>9, <1>16, <2>1, <2>2, KeepsMonotone
<1> DEFINE e == n + m + n + 2
<1>21. Keeps(C[e], all[e], all[e + 1], all[e + C[e].to])
  <2>1. all[e + 1] = S
    <3>1. e + 1 = n + m + n + 3  BY <1>3
    <3> QED  BY <1>16, <3>1
  <2>2. P \subseteq all[e + C[e].to]
    <3>1. e + C[e].to = 1  BY <1>3, <1>8
    <3>2. 1 \in Int /\ 1 + 0 = 1  OBVIOUS
    <3>3. kt[1] \subseteq all[1]  BY <1>12, <3>2
    <3> QED  BY <1>1, <3>1, <3>3
  <2>3. C[e] = k /\ all[e] = R
    BY <1>8, <1>16
  <2> QED  BY <2>1, <2>2, <2>3, KeepsMonotone
<1>22. \A j \in 1 .. Len(C) : Keeps(C[j], all[j], all[j + 1], all[j + C[j].to])
  <2> SUFFICES ASSUME NEW j \in 1 .. n + m + n + 2
               PROVE  Keeps(C[j], all[j], all[j + 1], all[j + C[j].to])
    BY <1>8
  <2>1. CASE j \in 1 .. n  BY <1>17, <2>1
  <2>2. CASE j = n + 1  BY <1>20, <2>2
  <2>3. CASE j - (n + 1) \in 1 .. m
    <3>1. j = (j - (n + 1)) + (n + 1)  BY <1>3
    <3> QED  BY <1>18, <2>3, <3>1
  <2>4. CASE j - (n + m + 1) \in 1 .. n
    <3>1. j = (j - (n + m + 1)) + (n + m + 1)  BY <1>3
    <3> QED  BY <1>19, <2>4, <3>1
  <2>5. CASE j = e  BY <1>21, <2>5
  <2>6. \/ j \in 1 .. n \/ j = n + 1 \/ j - (n + 1) \in 1 .. m
        \/ j - (n + m + 1) \in 1 .. n \/ j = e
    <3>1. n \in Nat /\ m \in Nat  BY <1>3
    <3> HIDE DEF n, m
    <3> QED  BY <3>1
  <2> QED  BY <2>1, <2>2, <2>3, <2>4, <2>5, <2>6
<1>23. \A j \in Int : j \notin 1 .. Len(C) + 1 => all[j] = {}
  <2> SUFFICES ASSUME NEW j \in Int, j \notin 1 .. n + m + n + 3 PROVE all[j] = {}
    BY <1>3, <1>8
  <2>1. CASE j <= 0
    <3>1. j <= n /\ j \notin 1 .. n + 1  BY <1>3, <2>1
    <3>2. all[j] = kt[j]  BY <1>10, <3>1
    <3> QED  BY <1>3, <3>1, <3>2
  <2>2. CASE j > n + m + n + 3  BY <1>10, <2>2
  <2> HIDE DEF n, m
  <2> QED  BY <1>3, <2>1, <2>2
<1>24. Valid(C, all)
  BY <1>8, <1>11, <1>22, <1>23 DEF Valid
<1>25. P \subseteq all[1] /\ all[Len(C) + 1] \subseteq S
  <2>1. 1 \in Int /\ 1 + 0 = 1 /\ Len(C) + 1 = n + m + n + 3  BY <1>3, <1>8
  <2>2. kt[1] \subseteq all[1]  BY <1>12, <2>1
  <2> QED  BY <1>1, <1>16, <2>1, <2>2
<1>26. Fits(C, P, S)
  BY <1>8, <1>24, <1>25 DEF Fits
<1>27. C = ((t \o <<i>>) \o c) \o t \o <<k>>
  BY DEF C, D, B, A
<1> QED  BY <1>26, <1>27

\* A row of instructions of which each keeps what is known.
LEMMA FitsRow ==
  ASSUME KeepsIsMonotone, NEW P, P \subseteq Machine, NEW c \in Seq(AnyInstruction),
         \A k \in 1 .. Len(c) : Keeps(c[k], P, P, {})
  PROVE  Fits(c, P, P)
<1> DEFINE n == Len(c)
           known == [j \in Int |-> IF j \in 1 .. n + 1 THEN P ELSE {}]
<1>1. n \in Nat
  OBVIOUS
<1>2. /\ known \in [Int -> SUBSET Machine]
      /\ \A j \in 1 .. n + 1 : known[j] = P
      /\ \A j \in Int : j \notin 1 .. n + 1 => known[j] = {}
  OBVIOUS
<1> HIDE DEF known
<1>3. ASSUME NEW k \in 1 .. n PROVE Keeps(c[k], known[k], known[k + 1], known[k + c[k].to])
  <2>1. known[k] = P /\ known[k + 1] = P
    <3>1. k \in 1 .. n + 1 /\ k + 1 \in 1 .. n + 1  BY <1>1
    <3> QED  BY <1>2, <3>1
  <2> QED  BY <2>1, KeepsMonotone
<1>4. Valid(c, known)
  BY <1>2, <1>3 DEF Valid
<1>5. P \subseteq known[1] /\ known[n + 1] \subseteq P
  <2>1. 1 \in 1 .. n + 1 /\ n + 1 \in 1 .. n + 1  BY <1>1
  <2> QED  BY <1>2, <2>1
<1> QED  BY <1>4, <1>5 DEF Fits
LEMMA FitsSame ==
  ASSUME NEW P, NEW Q, NEW c, Fits(c, P, Q), NEW d, c = d
  PROVE  Fits(d, P, Q)
  OBVIOUS

LEMMA FitsIsCode ==
  ASSUME NEW P, NEW Q, NEW c, Fits(c, P, Q)
  PROVE  c \in Seq(AnyInstruction)
  BY DEF Fits
-----------------------------------------------------------------------------
(* Runs of simple nodes.                                                   *)

\* Where a run ends.
LEMMA RunEndType ==
  ASSUME NEW block \in Seq(Node), NEW i \in 1 .. Len(block)
  PROVE  /\ RunEnd(block, i) \in i .. Len(block) + 1
         /\ IsSimple(block[i]) => RunEnd(block, i) # i
<1> DEFINE S == {k \in i .. Len(block) + 1 :
                  k > Len(block) \/ ~(IsSimple(block[k]) \/ block[k].kind = "ADD_PTR")}
<1>1. Len(block) \in Nat /\ Len(block) + 1 \in S
  OBVIOUS
<1>2. S \subseteq Int /\ S # {} /\ \A x \in S : i <= x
  BY <1>1
<1>3. Least(S) \in S
  <2>1. i \in Int  OBVIOUS
  <2> HIDE DEF S
  <2> QED  BY <1>2, <2>1, LeastOfBounded
<1>4. RunEnd(block, i) = Least(S)
  BY DEF RunEnd
<1> HIDE DEF RunEnd
<1> QED  BY <1>3, <1>4

\* What a run of simple nodes does: a change of each of the cells at the offsets S.
Effects(S) == [off : S, kind : {"add", "set", "none"}, value : Cell]

LEMMA EffectsType ==
  ASSUME NEW block \in Seq(Node), NEW i \in 1 .. Len(block), RunEnd(block, i) # i,
         NEW pending \in Int
  PROVE  /\ EffectsOf(block, i, pending) \in Seq(Effects(Int))
         /\ IsSimple(block[i]) => EffectsOf(block, i, pending) # <<>>
<1> DEFINE run    == SubSeq(block, i, RunEnd(block, i) - 1)
           n      == Len(run)
           off(k) == pending + PointerDelta(SubSeq(run, 1, k))
           C      == Seq(Effects(Int))
           dom    == [k \in DOMAIN run |-> k]
           Turn(seq, k) == IF IsSimple(run[k]) THEN Append(seq, Effect(run[k], off(k))) ELSE seq
           g      == [p \in C \X (1 .. n) |-> Turn(p[1], p[2])]
           Iter(h) == h = [s \in SUBSET DOMAIN dom |->
                             IF s = {} THEN <<>> ELSE Turn(h[s \ {Max(s)}], dom[Max(s)])]
           iter   == CHOOSE h : Iter(h)
<1>1. run \in Seq(Node) /\ n \in Nat /\ n >= 1 /\ run[1] = block[i]
      /\ DOMAIN dom = 1 .. n /\ (\A k \in 1 .. n : dom[k] = k)
  <2>1. RunEnd(block, i) \in i + 1 .. Len(block) + 1
    BY RunEndType
  <2> DEFINE e == RunEnd(block, i)
  <2> HIDE DEF e
  <2>2. SubSeq(block, i, e - 1) \in Seq(Node) /\ Len(SubSeq(block, i, e - 1)) = e - i
        /\ SubSeq(block, i, e - 1)[1] = block[i]
    BY <2>1 DEF e
  <2> QED  BY <2>1, <2>2 DEF e
<1> HIDE DEF run, dom
<1>2. ASSUME NEW k \in 1 .. n PROVE run[k] \in Node /\ off(k) \in Int
  <2>1. SubSeq(run, 1, k) \in Seq(Node)  BY <1>1
  <2>2. PointerDelta(SubSeq(run, 1, k)) \in Int  BY <2>1, PointerDeltaType
  <2> QED  BY <1>1, <2>2
<1> HIDE DEF off
<1>3. ASSUME NEW k \in 1 .. n PROVE Effect(run[k], off(k)) \in Effects(Int)
  <2>1. run[k].arg \in Int /\ off(k) \in Int  BY <1>2, NodeAssumption
  <2>2. Byte(run[k].arg) \in Cell
    BY <2>1, ByteIsCell
  <2>3. 0 \in Cell
    BY CellCountAssumption DEF Cell
  <2> QED  BY <2>1, <2>2, <2>3 DEF Effect, Effects
<1>4. ASSUME NEW seq \in C, NEW k \in 1 .. n PROVE Turn(seq, k) \in C
  BY <1>3
<1>5. g \in [C \X (1 .. n) -> C] /\ \A seq \in C, k \in 1 .. n : g[<<seq, k>>] = Turn(seq, k)
  <2> HIDE DEF C, Turn, n
  <2> QED  BY <1>4
<1>6. <<>> \in C
  OBVIOUS
<1> HIDE DEF g, C, Turn, n
<1>7. PICK f : ChosenFold(f, g, <<>>, C, n)
  BY <1>1, <1>5, <1>6, ChosenFoldExists
<1>8. Iter(f)
  <2>1. ASSUME NEW s \in SUBSET (1 .. n), s # {}
        PROVE  f[s] = Turn(f[s \ {Max(s)}], Max(s))
    <3>1. Max(s) \in 1 .. n  BY <1>1, <2>1, MaxOfIndices
    <3>2. f[s \ {Max(s)}] \in C  BY <1>7 DEF ChosenFold
    <3>3. f[s] = g[<<f[s \ {Max(s)}], Max(s)>>]  BY <1>7, <2>1 DEF ChosenFold
    <3> QED  BY <1>5, <3>1, <3>2, <3>3
  <2>2. f[{}] = <<>>  BY <1>7 DEF ChosenFold
  <2>3. DOMAIN f = SUBSET (1 .. n) /\ f = [s \in SUBSET (1 .. n) |-> f[s]]
    BY <1>7 DEF ChosenFold
  <2>4. \A s \in SUBSET (1 .. n) : s # {} => dom[Max(s)] = Max(s)
    BY <1>1, MaxOfIndices
  <2> QED  BY <1>1, <2>1, <2>2, <2>3, <2>4
<1>9. Iter(iter)
  <2> HIDE DEF Iter
  <2> QED  BY <1>8
<1> HIDE DEF iter
<1>10. FoldsUp(iter, g, <<>>, C, n)
  <2>1. iter[{}] = <<>>  BY <1>1, <1>9
  <2>2. ASSUME NEW s \in SUBSET (1 .. n), s # {}, iter[s \ {Max(s)}] \in C
        PROVE  iter[s] = g[<<iter[s \ {Max(s)}], Max(s)>>]
    <3>1. Max(s) \in 1 .. n  BY <1>1, <2>2, MaxOfIndices
    <3>2. iter[s] = Turn(iter[s \ {Max(s)}], Max(s))  BY <1>1, <1>9, <2>2, <3>1
    <3> QED  BY <1>5, <2>2, <3>1, <3>2
  <2> QED  BY <2>1, <2>2 DEF FoldsUp
<1>11. PICK acc : Traces(acc, iter, g, <<>>, C, n)
  <2> HIDE DEF Iter
  <2> QED  BY <1>1, <1>5, <1>6, <1>10, FoldSteps
<1>12. EffectsOf(block, i, pending) = iter[1 .. n]
  <2>1. EffectsOf(block, i, pending) = iter[DOMAIN dom]
    BY DEF EffectsOf, FoldLeftDomain, FoldLeft, MapThenFoldSet, iter, Turn, off, run, dom
  <2> QED  BY <1>1, <2>1
<1>13. acc[n] \in C
  BY <1>1, <1>11 DEF Traces, Trace
<1>14. ASSUME IsSimple(block[i]) PROVE acc[n] # <<>>
  <2> DEFINE T == {k \in 0 .. n : k = 0 \/ acc[k] # <<>>}
  <2>1. 0 \in T  BY <1>1
  <2>2. ASSUME NEW k \in 0 .. n - 1, k \in T PROVE k + 1 \in T
    <3>1. k + 1 \in 1 .. n /\ k + 1 - 1 = k /\ k + 1 \in 0 .. n /\ k \in 0 .. n
      BY <1>1
    <3>2. acc[k] \in C /\ acc[k + 1] = g[<<acc[k], k + 1>>]
      BY <1>11, <3>1 DEF Traces, Trace
    <3>3. acc[k + 1] = Turn(acc[k], k + 1)
      BY <1>5, <3>1, <3>2
    <3>4. /\ acc[k] \in Seq(Effects(Int))
          /\ k = 0 => IsSimple(run[k + 1])
          /\ k = 0 \/ acc[k] # <<>>
      BY <1>1, <1>14, <2>2, <3>2 DEF C
    <3>5. acc[k + 1] # <<>>
      <4> DEFINE e == Effect(run[k + 1], off(k + 1))
                 q == acc[k]
      <4>1. Append(q, e) # <<>>
        <5>1. e \in Effects(Int)  BY <1>3, <3>1
        <5>2. q \in Seq(Effects(Int))  BY <3>4
        <5> HIDE DEF q, e
        <5> QED  BY <5>1, <5>2, AppendIsMore
      <4> QED  BY <3>3, <3>4, <4>1 DEF Turn
    <3> QED  BY <3>1, <3>5
  <2>3. n \in T
    <3> HIDE DEF T
    <3> QED  BY <1>1, <2>1, <2>2, InductionTo
  <2> QED  BY <1>1, <2>3
<1> QED  BY <1>11, <1>12, <1>13, <1>14 DEF C, Traces

LEMMA MergedType ==
  ASSUME NEW S, NEW old \in Effects(S), NEW new \in Effects(S)
  PROVE  Merged(old, new) \in Effects(S)
<1>1. /\ old.off \in S /\ old.kind \in {"add", "set", "none"} /\ old.value \in Cell
      /\ new.off \in S /\ new.kind \in {"add", "set", "none"} /\ new.value \in Cell
  BY DEF Effects
<1> DEFINE v    == Byte(old.value + new.value)
           both == IF new.kind = "add" THEN [old EXCEPT !.value = Byte(@ + new.value)] ELSE new
<1>2. v \in Cell
  <2>1. old.value \in Int /\ new.value \in Int  BY <1>1, CellCountAssumption DEF Cell
  <2>2. old.value + new.value \in Int  BY <2>1
  <2> QED  BY <2>2, ByteIsCell
<1> HIDE DEF v
<1>3. both \in Effects(S)
  BY <1>1, <1>2 DEF Effects, v
<1>4. Merged(old, new) = IF both.kind = "add" /\ both.value = 0
                         THEN [both EXCEPT !.kind = "none"] ELSE both
  BY DEF Merged
<1> HIDE DEF both
<1> QED  BY <1>3, <1>4 DEF Effects

\* Neighbouring effects merged are effects on the same cells.
LEMMA CollapseType ==
  ASSUME NEW S, NEW effects \in Seq(Effects(S))
  PROVE  Collapse(effects) \in Seq(Effects(S))
<1> DEFINE n == Len(effects)
           C == Seq(Effects(S))
           Add(seq, e) ==
             LET first == Merged([e EXCEPT !.kind = "add", !.value = 0], e)
             IN  IF seq = <<>> THEN <<first>>
                 ELSE IF Last(seq).kind = "none" THEN Append(Front(seq), first)
                 ELSE IF Last(seq).off # e.off THEN Append(seq, first)
                 ELSE Append(Front(seq), Merged(Last(seq), e))
           g    == [p \in C \X (1 .. n) |-> Add(p[1], effects[p[2]])]
           Iter(h) == h = [s \in SUBSET DOMAIN effects |->
                             IF s = {} THEN <<>> ELSE Add(h[s \ {Max(s)}], effects[Max(s)])]
           iter == CHOOSE h : Iter(h)
           all  == iter[DOMAIN effects]
<1>1. n \in Nat /\ DOMAIN effects = 1 .. n /\ \A k \in 1 .. n : effects[k] \in Effects(S)
  OBVIOUS
<1>2. ASSUME NEW seq \in C, seq # <<>>
      PROVE  Front(seq) \in C /\ Last(seq) \in Effects(S)
  BY <1>2 DEF Front, Last
<1>3. ASSUME NEW seq \in C, NEW e \in Effects(S) PROVE Add(seq, e) \in C
  <2> DEFINE fresh == [e EXCEPT !.kind = "add", !.value = 0]
             first == Merged(fresh, e)
  <2>1. fresh \in Effects(S)
    <3> DEFINE added == [e EXCEPT !.kind = "add"]
    <3>1. added \in Effects(S)  BY DEF Effects
    <3>2. 0 \in Cell  BY CellCountAssumption DEF Cell
    <3>3. fresh = [added EXCEPT !.value = 0]  OBVIOUS
    <3> HIDE DEF added, fresh
    <3> QED  BY <3>1, <3>2, <3>3 DEF Effects
  <2>2. first \in Effects(S)
    <3> HIDE DEF fresh
    <3> QED  BY <2>1, MergedType
  <2>3. Add(seq, e) = IF seq = <<>> THEN <<first>>
                 ELSE IF Last(seq).kind = "none" THEN Append(Front(seq), first)
                 ELSE IF Last(seq).off # e.off THEN Append(seq, first)
                 ELSE Append(Front(seq), Merged(Last(seq), e))
    OBVIOUS
  <2> HIDE DEF Add, first
  <2>4. CASE seq = <<>>
    <3>1. <<first>> \in C  BY <2>2
    <3> QED  BY <2>3, <2>4, <3>1
  <2>5. CASE seq # <<>>
    <3>1. Front(seq) \in C /\ Last(seq) \in Effects(S)  BY <1>2, <2>5
    <3>2. Merged(Last(seq), e) \in Effects(S)  BY <3>1, MergedType
    <3>3. /\ Append(Front(seq), first) \in C /\ Append(seq, first) \in C
          /\ Append(Front(seq), Merged(Last(seq), e)) \in C
      BY <2>2, <3>1, <3>2
    <3> HIDE DEF C
    <3> QED  BY <2>3, <2>5, <3>3
  <2> QED  BY <2>4, <2>5
<1>4. <<>> \in C
  OBVIOUS
<1> HIDE DEF Add
<1>5. ASSUME NEW seq \in C, NEW k \in 1 .. n PROVE Add(seq, effects[k]) \in C
  BY <1>1, <1>3
<1>6. /\ g \in [C \X (1 .. n) -> C]
      /\ \A seq \in C, k \in 1 .. n : g[<<seq, k>>] = Add(seq, effects[k])
  <2> HIDE DEF C, n
  <2> QED  BY <1>5
<1> HIDE DEF g, C, n
<1>7. PICK f : ChosenFold(f, g, <<>>, C, n)
  BY <1>1, <1>4, <1>6, ChosenFoldExists
<1>8. Iter(f)
  <2>1. ASSUME NEW s \in SUBSET (1 .. n), s # {}
        PROVE  f[s] = Add(f[s \ {Max(s)}], effects[Max(s)])
    <3>1. Max(s) \in 1 .. n  BY <1>1, <2>1, MaxOfIndices
    <3>2. f[s \ {Max(s)}] \in C  BY <1>7 DEF ChosenFold
    <3>3. f[s] = g[<<f[s \ {Max(s)}], Max(s)>>]  BY <1>7, <2>1 DEF ChosenFold
    <3> QED  BY <1>6, <3>1, <3>2, <3>3
  <2>2. f[{}] = <<>>  BY <1>7 DEF ChosenFold
  <2>3. DOMAIN f = SUBSET (1 .. n) /\ f = [s \in SUBSET (1 .. n) |-> f[s]]
    BY <1>7 DEF ChosenFold
  <2> QED  BY <1>1, <2>1, <2>2, <2>3
<1>9. Iter(iter)
  <2> HIDE DEF Iter
  <2> QED  BY <1>8
<1>10. Collapse(effects) = IF all # <<>> /\ Last(all).kind = "none" THEN Front(all) ELSE all
  BY DEF Collapse, FoldLeft, MapThenFoldSet, iter, Add
<1> HIDE DEF iter
<1>11. FoldsUp(iter, g, <<>>, C, n)
  <2>1. iter[{}] = <<>>  BY <1>1, <1>9
  <2>2. ASSUME NEW s \in SUBSET (1 .. n), s # {}, iter[s \ {Max(s)}] \in C
        PROVE  iter[s] = g[<<iter[s \ {Max(s)}], Max(s)>>]
    <3>1. Max(s) \in 1 .. n  BY <1>1, <2>2, MaxOfIndices
    <3>2. iter[s] = Add(iter[s \ {Max(s)}], effects[Max(s)])  BY <1>1, <1>9, <2>2, <3>1
    <3> QED  BY <1>6, <2>2, <3>1, <3>2
  <2> QED  BY <2>1, <2>2 DEF FoldsUp
<1>12. PICK acc : Traces(acc, iter, g, <<>>, C, n)
  <2> HIDE DEF Iter
  <2> QED  BY <1>1, <1>4, <1>6, <1>11, FoldSteps
<1>13. all \in C
  BY <1>1, <1>12 DEF Traces, Trace
<1> HIDE DEF all
<1> QED  BY <1>2, <1>10, <1>13 DEF C

-----------------------------------------------------------------------------
(***************************************************************************)
(* What the backend shows of its callbacks.  The code for a node may be    *)
(* entered in every state, and left in every state: whatever is needed of  *)
(* the registers it loads, and it guards the cells it uses.  But for a     *)
(* NONNULL_MULTIPLY_LOOP, which relies on the test of the if around it.    *)
(***************************************************************************)
NodesFit ==
  /\ \A delta \in Int : Fits(<<MovePtr(delta)>>, Machine, Machine)
  /\ \A step \in Int, off \in Int : Fits(ScanCode(step, off), Machine, Machine)
  /\ \A scope \in Scopes :
       /\ \A effects \in Seq(Effects(Int)) :
            effects # <<>> => Fits(RunCode(effects, scope), Machine, Machine)
       /\ \A off \in Int : /\ Fits(InputCode(off, scope), Machine, Machine)
                           /\ Fits(OutputCode(off, scope), Machine, Machine)
       /\ \A n \in Node : Fits(MultiZeroCode(n, scope), Machine, Machine)
       /\ \A n \in Node, off \in Int :
            Fits(MultiplyCode(n, off, scope),
                 IF n.kind = "NONNULL_MULTIPLY_LOOP" THEN Nonzero(off) ELSE Machine, Machine)

\* The code around a body, which an if enters with a cell that is not 0.
BodiesFit ==
  /\ \A off \in Int : Nonzero(off) \subseteq Machine
  /\ \A scope \in Scopes, off \in Int :
       /\ \A body \in Seq(AnyInstruction) : /\ LoopCode(off, scope, body) \in Seq(AnyInstruction)
                                            /\ IfCode(off, scope, body) \in Seq(AnyInstruction)
       /\ \A body : Fits(body, Machine, Machine) =>
                      Fits(LoopCode(off, scope, body), Machine, Machine)
       /\ \A body : Fits(body, Nonzero(off), Machine) =>
                      Fits(IfCode(off, scope, body), Machine, Machine)
  /\ \A scope \in Scopes, n \in Node :
       HasMultiplyTail(n) => Fits(TailIfCode(n, scope), Machine, Machine)

CallbacksFit == NodesFit /\ BodiesFit

-----------------------------------------------------------------------------
(* Blocks.  Nothing is known between two nodes of a block, or else nothing *)
(* is asked but that there is code: A is Machine or empty.                 *)

Emission == [code : Seq(AnyInstruction), pending : Int, next : Int]

Middles == {{}, Machine}

\* Whatever is code can be taken for a piece that is never entered.
LEMMA CodeFits ==
  ASSUME KeepsIsMonotone, NEW c \in Seq(AnyInstruction)
  PROVE  Fits(c, {}, {})
<1> DEFINE known == [j \in Int |-> {}]
<1>1. known \in [Int -> SUBSET Machine] /\ \A j \in Int : known[j] = {}
  OBVIOUS
<1>2. Len(c) \in Nat
  OBVIOUS
<1> HIDE DEF known
<1>3. ASSUME NEW k \in 1 .. Len(c) PROVE Keeps(c[k], known[k], known[k + 1], known[k + c[k].to])
  <2>1. known[k] = {}  BY <1>1
  <2> QED  BY <2>1 DEF KeepsIsMonotone
<1>4. Valid(c, known)
  BY <1>1, <1>3 DEF Valid
<1>5. known[Len(c) + 1] = {}
  BY <1>1, <1>2
<1> QED  BY <1>4, <1>5 DEF Fits

LEMMA BetweenFits ==
  ASSUME KeepsIsMonotone, NEW A \in Middles, NEW c, Fits(c, Machine, Machine)
  PROVE  Fits(c, A, A)
<1>1. CASE A = Machine  BY <1>1
<1>2. CASE A = {}
  <2>1. c \in Seq(AnyInstruction)  BY FitsIsCode
  <2> QED  BY <1>2, <2>1, CodeFits
<1> QED  BY <1>1, <1>2 DEF Middles

\* The move that is pending, made.
LEMMA FlushedFits ==
  ASSUME KeepsIsMonotone, CallbacksFit, NEW A \in Middles, NEW E, NEW X \in SUBSET A,
         NEW acc \in Emission, Fits(acc.code, E, X)
  PROVE  Fits(Flushed(acc), E, A)
<1> DEFINE move == When(acc.pending # 0, <<MovePtr(acc.pending)>>)
<1>1. acc.pending \in Int
  BY DEF Emission
<1>2. Fits(move, Machine, Machine)
  <2>1. CASE acc.pending # 0
    <3>1. move = <<MovePtr(acc.pending)>>  BY <2>1 DEF When
    <3>2. Fits(<<MovePtr(acc.pending)>>, Machine, Machine)  BY <1>1 DEF CallbacksFit, NodesFit
    <3> QED  BY <3>1, <3>2
  <2>2. CASE acc.pending = 0
    <3>1. move = <<>>  BY <2>2 DEF When
    <3>2. Machine \subseteq Machine  OBVIOUS
    <3> HIDE DEF move
    <3> QED  BY <3>1, <3>2, FitsNothing
  <2> QED  BY <2>1, <2>2
<1>3. Flushed(acc) = acc.code \o move
  BY DEF Flushed
<1> HIDE DEF move
<1>4. Fits(move, A, A)
  BY <1>2, BetweenFits
<1>5. Fits(acc.code, E, A)
  <2>1. E \subseteq E /\ X \subseteq A  OBVIOUS
  <2> QED  BY <2>1, FitsWeaker
<1> QED  BY <1>3, <1>4, <1>5, FitsThen

LEMMA SettledFits ==
  ASSUME KeepsIsMonotone, CallbacksFit, NEW A \in Middles, NEW E, NEW X \in SUBSET A,
         NEW acc \in Emission, Fits(acc.code, E, X)
  PROVE  /\ Settled(acc) \in Emission
         /\ Fits(Settled(acc).code, E, A)
         /\ Settled(acc).pending = 0 /\ Settled(acc).next = acc.next
<1> DEFINE c == Flushed(acc)
           b == [acc EXCEPT !.code = c]
           s == Settled(acc)
<1>1. Fits(c, E, A)
  BY FlushedFits
<1>2. s = [b EXCEPT !.pending = 0]
  BY DEF Settled
<1> HIDE DEF c, s
<1>3. c \in Seq(AnyInstruction)
  BY <1>1, FitsIsCode
<1>4. b \in Emission /\ b.code = c /\ b.next = acc.next
  BY <1>3 DEF Emission
<1> HIDE DEF b
<1>5. s \in Emission /\ s.code = c /\ s.next = acc.next /\ s.pending = 0
  BY <1>2, <1>4 DEF Emission
<1> QED  BY <1>1, <1>5 DEF s

\* More code behind what has been emitted.
LEMMA AlsoFits ==
  ASSUME KeepsIsMonotone, NEW A \in Middles, NEW E, NEW X,
         NEW acc \in Emission, Fits(acc.code, E, X),
         NEW c, Fits(c, X, A)
  PROVE  /\ Also(acc, c) \in Emission
         /\ Fits(Also(acc, c).code, E, A)
         /\ Also(acc, c).pending = acc.pending
         /\ Also(acc, c).next = acc.next
<1> DEFINE d == acc.code \o c
           s == Also(acc, c)
<1>1. Fits(d, E, A)
  BY FitsThen
<1>2. s = [acc EXCEPT !.code = d]
  BY DEF Also
<1> HIDE DEF d, s
<1>3. d \in Seq(AnyInstruction)
  BY <1>1, FitsIsCode
<1>4. s \in Emission /\ s.code = d /\ s.next = acc.next /\ s.pending = acc.pending
  BY <1>2, <1>3 DEF Emission
<1> QED  BY <1>1, <1>4 DEF s

\* to it: E is where the block was entered, X where it has been left.
Asks(f, acc, block, i, scope, A, X) ==
  /\ X \subseteq A
  /\ i < acc.next => X = A
  /\ block[i].kind = "NONNULL_MULTIPLY_LOOP" => X \subseteq Nonzero(acc.pending)
  /\ block[i].kind \in ControlKinds =>
       \A off \in Int : Fits(ControlCode(f, block[i], off, scope), A, A)

LEMMA EmitControlFits ==
  ASSUME KeepsIsMonotone, CallbacksFit, NEW f, NEW n \in Node, NEW scope \in Scopes,
         NEW A \in Middles, NEW E, NEW X \in SUBSET A,
         NEW acc \in Emission, Fits(acc.code, E, X),
         \A off \in Int : Fits(ControlCode(f, n, off, scope), A, A)
  PROVE  /\ EmitControl(f, acc, n, scope) \in Emission
         /\ Fits(EmitControl(f, acc, n, scope).code, E, A)
<1> DEFINE s  == Settled(acc)
           at == IF ControlAtOffset(n, acc.pending) THEN acc ELSE s
           c  == ControlCode(f, n, at.pending, scope)
<1>1. s \in Emission /\ Fits(s.code, E, A)
  BY SettledFits
<1>2. Fits(acc.code, E, A)
  <2>1. E \subseteq E /\ X \subseteq A  OBVIOUS
  <2> QED  BY <2>1, FitsWeaker
<1>3. EmitControl(f, acc, n, scope) = Also(at, c)
  BY DEF EmitControl
<1> HIDE DEF s
<1>4. at \in Emission /\ Fits(at.code, E, A)
  <2>1. CASE ControlAtOffset(n, acc.pending)  BY <1>2, <2>1
  <2>2. CASE ~ControlAtOffset(n, acc.pending)  BY <1>1, <2>2
  <2> QED  BY <2>1, <2>2
<1> HIDE DEF at
<1>5. at.pending \in Int
  BY <1>4 DEF Emission
<1>6. Fits(c, A, A)
  BY <1>5
<1> HIDE DEF c
<1>7. Also(at, c) \in Emission /\ Fits(Also(at, c).code, E, A)
  BY <1>4, <1>6, AlsoFits
<1> QED  BY <1>3, <1>7

LEMMA EmitScanFits ==
  ASSUME KeepsIsMonotone, CallbacksFit, NEW n \in Node, NEW A \in Middles, NEW E,
         NEW X \in SUBSET A,
         NEW acc \in Emission, Fits(acc.code, E, X)
  PROVE  /\ EmitScan(acc, n) \in Emission
         /\ Fits(EmitScan(acc, n).code, E, A)
<1> DEFINE s  == Settled(acc)
           at == IF ScansAtOffset(n) THEN acc ELSE s
           c  == ScanCode(n.arg, at.pending)
           r  == Also(at, c)
<1>1. s \in Emission /\ Fits(s.code, E, A)
  BY SettledFits
<1>2. Fits(acc.code, E, A)
  <2>1. E \subseteq E /\ X \subseteq A  OBVIOUS
  <2> QED  BY <2>1, FitsWeaker
<1>3. EmitScan(acc, n) = [r EXCEPT !.pending = 0]
  BY DEF EmitScan
<1> HIDE DEF s
<1>4. at \in Emission /\ Fits(at.code, E, A)
  <2>1. CASE ScansAtOffset(n)  BY <1>2, <2>1
  <2>2. CASE ~ScansAtOffset(n)  BY <1>1, <2>2
  <2> QED  BY <2>1, <2>2
<1> HIDE DEF at
<1>5. at.pending \in Int /\ n.arg \in Int
  BY <1>4, NodeAssumption DEF Emission
<1>6. Fits(c, A, A)
  <2>1. Fits(ScanCode(n.arg, at.pending), Machine, Machine)
    BY <1>5 DEF CallbacksFit, NodesFit
  <2> QED  BY <2>1, BetweenFits
<1> HIDE DEF c
<1>7. r \in Emission /\ Fits(r.code, E, A)
  BY <1>4, <1>6, AlsoFits
<1> HIDE DEF r
<1>8. [r EXCEPT !.pending = 0] \in Emission /\ [r EXCEPT !.pending = 0].code = r.code
  BY <1>7 DEF Emission
<1> QED  BY <1>3, <1>7, <1>8

LEMMA EmitSimpleRunFits ==
  ASSUME KeepsIsMonotone, CallbacksFit, NEW block \in Seq(Node),
         NEW i \in 1 .. Len(block), IsSimple(block[i]),
         NEW scope \in Scopes, NEW A \in Middles, NEW E, NEW X \in SUBSET A,
         NEW acc \in Emission, Fits(acc.code, E, X)
  PROVE  /\ EmitSimpleRun(acc, block, i, scope) \in Emission
         /\ Fits(EmitSimpleRun(acc, block, i, scope).code, E, A)
<1> DEFINE end   == RunEnd(block, i)
           c     == RunCode(EffectsOf(block, i, acc.pending), scope)
           delta == PointerDelta(SubSeq(block, i, end - 1))
           r     == Also(acc, c)
           r2    == [r EXCEPT !.pending = @ + delta]
           r3    == [r2 EXCEPT !.next = end]
<1>1. acc.pending \in Int
  BY DEF Emission
<1>2. end \in Int
  BY RunEndType
<1>3. delta \in Int
  <2>1. SubSeq(block, i, end - 1) \in Seq(Node)
    <3>1. end \in i .. Len(block) + 1  BY RunEndType
    <3> HIDE DEF end
    <3> QED  BY <3>1
  <2> HIDE DEF end
  <2> QED  BY <2>1, PointerDeltaType
<1>4. Fits(acc.code, E, A)
  <2>1. E \subseteq E /\ X \subseteq A  OBVIOUS
  <2> QED  BY <2>1, FitsWeaker
<1>5. Fits(c, A, A)
  <2> DEFINE e == EffectsOf(block, i, acc.pending)
  <2>1. e \in Seq(Effects(Int)) /\ e # <<>>
    BY <1>1, RunEndType, EffectsType
  <2> HIDE DEF e
  <2>2. Fits(RunCode(e, scope), Machine, Machine)
    BY <2>1 DEF CallbacksFit, NodesFit
  <2>3. Fits(RunCode(e, scope), A, A)
    BY <2>2, BetweenFits
  <2> QED  BY <2>3 DEF e
<1>6. EmitSimpleRun(acc, block, i, scope) = r3
  BY DEF EmitSimpleRun
<1> HIDE DEF c, end, delta
<1>7. r \in Emission /\ Fits(r.code, E, A)
  BY <1>4, <1>5, AlsoFits
<1> HIDE DEF r
<1>8. r2 \in Emission /\ r2.code = r.code
  <2> DEFINE v == r.pending + delta
  <2>1. r \in Emission  BY <1>7
  <2>2. v \in Int  BY <1>3, <2>1 DEF Emission
  <2>3. r2 = [r EXCEPT !.pending = v]  OBVIOUS
  <2> HIDE DEF v, r2
  <2> QED  BY <2>1, <2>2, <2>3 DEF Emission
<1> HIDE DEF r2
<1>9. r3 \in Emission /\ r3.code = r2.code
  BY <1>2, <1>8 DEF Emission
<1> QED  BY <1>6, <1>7, <1>8, <1>9

LEMMA CodeAtOffsetFits ==
  ASSUME KeepsIsMonotone, CallbacksFit, NEW n \in Node, NEW off \in Int,
         NEW scope \in Scopes,
         NEW A \in Middles, NEW X \in SUBSET A,
         n.kind = "NONNULL_MULTIPLY_LOOP" => X \subseteq Nonzero(off)
  PROVE  Fits(CodeAtOffset(n, off, scope), X, A)
<1> DEFINE c == CodeAtOffset(n, off, scope)
           P == IF n.kind = "NONNULL_MULTIPLY_LOOP" THEN Nonzero(off) ELSE Machine
<1>1. Fits(c, P, Machine)
  <2> DEFINE m == MultiplyCode(n, off, scope)
  <2>1. Fits(InputCode(off, scope), Machine, Machine)  BY DEF CallbacksFit, NodesFit
  <2>2. Fits(OutputCode(off, scope), Machine, Machine)  BY DEF CallbacksFit, NodesFit
  <2>3. Fits(m, P, Machine)
    BY DEF CallbacksFit, NodesFit
  <2>4. c = IF n.kind = "INPUT" THEN InputCode(off, scope)
            ELSE IF n.kind = "OUTPUT" THEN OutputCode(off, scope) ELSE m
    BY DEF CodeAtOffset
  <2> HIDE DEF c, m
  <2>5. CASE n.kind = "INPUT"
    <3>1. P = Machine  BY <2>5
    <3> QED  BY <2>1, <2>4, <2>5, <3>1
  <2>6. CASE n.kind = "OUTPUT"
    <3>1. P = Machine  BY <2>6
    <3> QED  BY <2>2, <2>4, <2>6, <3>1
  <2>7. CASE n.kind \notin {"INPUT", "OUTPUT"}
    BY <2>3, <2>4, <2>7
  <2> QED  BY <2>5, <2>6, <2>7
<1> HIDE DEF c
<1>2. CASE A = {}
  <2>1. c \in Seq(AnyInstruction)  BY <1>1, FitsIsCode
  <2>2. X = {}  BY <1>2
  <2>3. Fits(c, {}, {})  BY <2>1, CodeFits
  <2> QED  BY <1>2, <2>2, <2>3 DEF c
<1>3. CASE A = Machine
  <2>1. X \subseteq P /\ Machine \subseteq Machine  BY <1>3
  <2> HIDE DEF P
  <2>2. Fits(c, X, Machine)  BY <1>1, <2>1, FitsWeaker
  <2> QED  BY <1>3, <2>2 DEF c
<1> QED  BY <1>2, <1>3 DEF Middles

LEMMA EmitNodeFits ==
  ASSUME KeepsIsMonotone, CallbacksFit, NEW f, NEW n \in Node, NEW scope \in Scopes,
         NEW A \in Middles, NEW E, NEW X \in SUBSET A,
         NEW acc \in Emission, Fits(acc.code, E, X),
         n.kind = "NONNULL_MULTIPLY_LOOP" => X \subseteq Nonzero(acc.pending),
         n.kind \in ControlKinds =>
           \A off \in Int : Fits(ControlCode(f, n, off, scope), A, A)
  PROVE  /\ EmitNode(f, acc, n, scope) \in Emission
         /\ Fits(EmitNode(f, acc, n, scope).code, E, A)
<1> DEFINE r  == EmitNode(f, acc, n, scope)
           s  == Settled(acc)
           c  == CodeAtOffset(n, acc.pending, scope)
           z  == MultiZeroCode(n, scope)
<1>1. /\ n.kind = "ADD_PTR" => r = [acc EXCEPT !.pending = @ + n.arg]
      /\ n.kind \in ControlKinds => r = EmitControl(f, acc, n, scope)
      /\ n.kind = "SCAN" => r = EmitScan(acc, n)
      /\ n.kind = "MULTI_ZERO" => r = Also(s, z)
      /\ n.kind \notin {"ADD_PTR", "SCAN", "MULTI_ZERO"} \union ControlKinds
           => r = Also(acc, c)
  BY DEF EmitNode, ControlKinds
<1> HIDE DEF r
<1>2. CASE n.kind = "ADD_PTR"
  <2> DEFINE v == acc.pending + n.arg
  <2>1. v \in Int  BY NodeAssumption DEF Emission
  <2>2. r = [acc EXCEPT !.pending = v]  BY <1>1, <1>2
  <2> HIDE DEF v
  <2>3. r \in Emission /\ r.code = acc.code  BY <2>1, <2>2 DEF Emission
  <2>4. E \subseteq E /\ X \subseteq A  OBVIOUS
  <2>5. Fits(acc.code, E, A)  BY <2>4, FitsWeaker
  <2> QED  BY <2>3, <2>5 DEF r
<1>3. CASE n.kind \in ControlKinds
  <2>1. \A off \in Int : Fits(ControlCode(f, n, off, scope), A, A)
    BY <1>3
  <2>2. /\ EmitControl(f, acc, n, scope) \in Emission
        /\ Fits(EmitControl(f, acc, n, scope).code, E, A)
    BY <2>1, EmitControlFits
  <2> QED  BY <1>1, <1>3, <2>2 DEF r
<1>4. CASE n.kind = "SCAN"
  <2>1. EmitScan(acc, n) \in Emission /\ Fits(EmitScan(acc, n).code, E, A)
    BY EmitScanFits
  <2> QED  BY <1>1, <1>4, <2>1 DEF r
<1>5. CASE n.kind = "MULTI_ZERO"
  <2>1. s \in Emission /\ Fits(s.code, E, A)  BY SettledFits
  <2>2. Fits(z, Machine, Machine)  BY DEF CallbacksFit, NodesFit
  <2> HIDE DEF s, z
  <2>3. Fits(z, A, A)  BY <2>2, BetweenFits
  <2>4. Also(s, z) \in Emission /\ Fits(Also(s, z).code, E, A)
    BY <2>1, <2>3, AlsoFits
  <2> QED  BY <1>1, <1>5, <2>4 DEF r
<1>6. CASE n.kind \notin {"ADD_PTR", "SCAN", "MULTI_ZERO"} \union ControlKinds
  <2>1. acc.pending \in Int  BY DEF Emission
  <2>2. Fits(c, X, A)  BY <2>1, CodeAtOffsetFits
  <2> HIDE DEF c
  <2>3. Also(acc, c) \in Emission /\ Fits(Also(acc, c).code, E, A)
    BY <2>2, AlsoFits
  <2>4. r = Also(acc, c)  BY <1>1, <1>6
  <2> QED  BY <2>3, <2>4 DEF r
<1> QED  BY <1>2, <1>3, <1>4, <1>5, <1>6

LEMMA EmitAtFits ==
  ASSUME KeepsIsMonotone, CallbacksFit, NEW f, NEW block \in Seq(Node),
         NEW i \in 1 .. Len(block), NEW scope \in Scopes,
         NEW A \in Middles, NEW E, NEW X,
         NEW acc \in Emission, Fits(acc.code, E, X), Asks(f, acc, block, i, scope, A, X)
  PROVE  /\ EmitAt(f, acc, block, i, scope) \in Emission
         /\ Fits(EmitAt(f, acc, block, i, scope).code, E, A)
<1> DEFINE r == EmitAt(f, acc, block, i, scope)
           n == block[i]
<1>1. /\ i < acc.next => r = acc
      /\ ~(i < acc.next) /\ IsSimple(n) => r = EmitSimpleRun(acc, block, i, scope)
      /\ ~(i < acc.next) /\ ~IsSimple(n) => r = EmitNode(f, acc, n, scope)
  BY DEF EmitAt
<1>2. n \in Node /\ X \in SUBSET A
  BY DEF Asks
<1> HIDE DEF r
<1>3. CASE i < acc.next
  <2>1. X = A  BY <1>3 DEF Asks
  <2> QED  BY <1>1, <1>3, <2>1 DEF r
<1>4. CASE ~(i < acc.next) /\ IsSimple(n)
  <2>1. /\ EmitSimpleRun(acc, block, i, scope) \in Emission
        /\ Fits(EmitSimpleRun(acc, block, i, scope).code, E, A)
    BY <1>2, <1>4, EmitSimpleRunFits
  <2> QED  BY <1>1, <1>4, <2>1 DEF r
<1>5. CASE ~(i < acc.next) /\ ~IsSimple(n)
  <2>1. /\ n.kind = "NONNULL_MULTIPLY_LOOP" => X \subseteq Nonzero(acc.pending)
        /\ n.kind \in ControlKinds =>
             \A off \in Int : Fits(ControlCode(f, n, off, scope), A, A)
    BY DEF Asks
  <2> HIDE DEF n
  <2>2. /\ EmitNode(f, acc, n, scope) \in Emission
        /\ Fits(EmitNode(f, acc, n, scope).code, E, A)
    BY <1>2, <2>1, EmitNodeFits
  <2> QED  BY <1>1, <1>5, <2>2 DEF r
<1> QED  BY <1>3, <1>4, <1>5

\* NONNULL_MULTIPLY_LOOP only with a cell that is not 0.
Entry(block, start) ==
  IF block # <<>> /\ block[1].kind = "NONNULL_MULTIPLY_LOOP" THEN Nonzero(start) ELSE Machine

LEMMA BodyFits ==
  ASSUME KeepsIsMonotone, CallbacksFit, NEW f \in [Pieces -> Emission], NEW n \in Node,
         NEW off \in Int, NEW scope \in Scopes,
         NEW A \in Middles, NEW E, Fits(f[Piece(n.body, off, scope)].code, E, A)
  PROVE  Fits(BodyCode(f, n, off, scope), E, A)
<1> DEFINE p == Piece(n.body, off, scope)
           inner == f[p]
<1>1. p \in Pieces
  BY NodeAssumption DEF Piece, Pieces
<1>2. BodyCode(f, n, off, scope) = IF off = 0 THEN Flushed(inner) ELSE inner.code
  BY DEF BodyCode
<1> HIDE DEF p
<1>3. inner \in Emission
  BY <1>1
<1>4. Fits(inner.code, E, A)
  BY DEF p
<1> HIDE DEF inner
<1>5. A \in SUBSET A
  OBVIOUS
<1>6. Fits(Flushed(inner), E, A)
  BY <1>3, <1>4, <1>5, FlushedFits
<1> QED  BY <1>2, <1>4, <1>6

LEMMA ControlIsCode ==
  ASSUME KeepsIsMonotone, CallbacksFit, NEW f \in [Pieces -> Emission],
         NEW n \in Node, n.kind \in ControlKinds,
         NEW off \in Int, NEW scope \in Scopes
  PROVE  ControlCode(f, n, off, scope) \in Seq(AnyInstruction)
<1> DEFINE p == Piece(n.body, off, scope)
           body == BodyCode(f, n, off, scope)
<1>1. p \in Pieces
  BY NodeAssumption DEF Piece, Pieces
<1>2. f[p].code \in Seq(AnyInstruction)
  <2> HIDE DEF p
  <2>1. f[p] \in Emission  BY <1>1
  <2> QED  BY <2>1 DEF Emission
<1>3. Fits(f[p].code, {}, {})
  BY <1>2, CodeFits
<1>4. Fits(body, {}, {})
  <2>1. {} \in Middles  BY DEF Middles
  <2> QED  BY <1>3, <2>1, BodyFits
<1>5. body \in Seq(AnyInstruction)
  BY <1>4, FitsIsCode
<1> HIDE DEF body
<1>6. LoopCode(off, scope, body) \in Seq(AnyInstruction)
  BY <1>5 DEF CallbacksFit, BodiesFit
<1>7. IfCode(off, scope, body) \in Seq(AnyInstruction)
  BY <1>5 DEF CallbacksFit, BodiesFit
<1>8. HasMultiplyTail(n) => TailIfCode(n, scope) \in Seq(AnyInstruction)
  BY FitsIsCode DEF CallbacksFit, BodiesFit
<1> QED  BY <1>6, <1>7, <1>8 DEF ControlCode, body

LEMMA ControlFits ==
  ASSUME KeepsIsMonotone, CallbacksFit, NEW f \in [Pieces -> Emission],
         NEW n \in Node, n.kind \in ControlKinds,
         NonnullIsFirst(n),
         NEW off \in Int, NEW scope \in Scopes,
         Fits(f[Piece(n.body, off, scope)].code, Entry(n.body, off), Machine)
  PROVE  Fits(ControlCode(f, n, off, scope), Machine, Machine)
<1> DEFINE body == BodyCode(f, n, off, scope)
           E == Entry(n.body, off)
<1>1. Fits(body, E, Machine)
  <2>1. Machine \in Middles  BY DEF Middles
  <2> HIDE DEF E
  <2> QED  BY <2>1, BodyFits DEF E
<1>2. n.body \in Seq(Node)
  BY NodeAssumption
<1>3. ASSUME n.kind = "LOOP" PROVE E = Machine
  <2>1. n.body # <<>> => 1 \in DOMAIN n.body
    BY <1>2
  <2> QED  BY <1>3, <2>1 DEF Entry, NonnullIsFirst
<1>4. Nonzero(off) \subseteq E /\ Machine \subseteq Machine
  BY DEF Entry, CallbacksFit, BodiesFit
<1> HIDE DEF body, E
<1>5. n.kind = "LOOP" => Fits(LoopCode(off, scope, body), Machine, Machine)
  BY <1>1, <1>3 DEF CallbacksFit, BodiesFit
<1>6. Fits(IfCode(off, scope, body), Machine, Machine)
  <2>1. Fits(body, Nonzero(off), Machine)
    BY <1>1, <1>4, FitsWeaker
  <2> QED  BY <2>1 DEF CallbacksFit, BodiesFit
<1>7. HasMultiplyTail(n) => Fits(TailIfCode(n, scope), Machine, Machine)
  BY DEF CallbacksFit, BodiesFit
<1> QED  BY <1>5, <1>6, <1>7 DEF ControlCode, body
-----------------------------------------------------------------------------
(* EmitBlock.  Its values are folds of EmitAt over the block, with f for   *)
(* what it emits of the bodies.                                            *)

Blank(start) == [code |-> <<>>, pending |-> start, next |-> 1]

Folded(f, p) ==
  FoldLeftDomain(LAMBDA acc, i : EmitAt(f, acc, p.block, i, p.scope),
                 Blank(p.start), p.block)

Stepped(f, p) ==
  [q \in Emission \X (1 .. Len(p.block)) |-> EmitAt(f, q[1], p.block, q[2], p.scope)]

LEMMA PieceFields ==
  ASSUME NEW p \in Pieces
  PROVE  /\ p.block \in Seq(Node) /\ p.start \in Int /\ p.scope \in Scopes
         /\ Len(p.block) \in Nat /\ DOMAIN p.block = 1 .. Len(p.block)
  BY DEF Pieces

LEMMA BlankType ==
  ASSUME NEW start \in Int
  PROVE  Blank(start) \in Emission
  BY DEF Blank, Emission

LEMMA SteppedType ==
  ASSUME KeepsIsMonotone, CallbacksFit, NEW f \in [Pieces -> Emission], NEW p \in Pieces
  PROVE  /\ Stepped(f, p) \in [Emission \X (1 .. Len(p.block)) -> Emission]
         /\ \A acc \in Emission, i \in 1 .. Len(p.block) :
              Stepped(f, p)[<<acc, i>>] = EmitAt(f, acc, p.block, i, p.scope)
<1> DEFINE block == p.block
           scope == p.scope
<1>1. block \in Seq(Node) /\ scope \in Scopes
  BY PieceFields
<1> HIDE DEF block, scope
<1>3. ASSUME NEW acc \in Emission, NEW i \in 1 .. Len(block)
      PROVE  EmitAt(f, acc, block, i, scope) \in Emission
  <2> DEFINE n == block[i]
  <2>1. n \in Node
    BY <1>1
  <2>2. Fits(acc.code, {}, {})
    <3>1. acc.code \in Seq(AnyInstruction)  BY DEF Emission
    <3> QED  BY <3>1, CodeFits
  <2>3. ASSUME n.kind \in ControlKinds, NEW off \in Int
        PROVE  Fits(ControlCode(f, n, off, scope), {}, {})
    <3> HIDE DEF n
    <3>1. ControlCode(f, n, off, scope) \in Seq(AnyInstruction)
      BY <1>1, <2>1, <2>3, ControlIsCode
    <3> QED  BY <3>1, CodeFits
  <2>4. Asks(f, acc, block, i, scope, {}, {})
    BY <2>3 DEF Asks
  <2>5. {} \in Middles
    BY DEF Middles
  <2> QED  BY <1>1, <2>2, <2>4, <2>5, EmitAtFits
<1>4. Stepped(f, p) = [q \in Emission \X (1 .. Len(block)) |->
                         EmitAt(f, q[1], block, q[2], scope)]
  BY DEF Stepped, block, scope
<1> QED  BY <1>3, <1>4 DEF block, scope

\* F and f are the same on the bodies of p's nodes, which is all of them that is
\* looked at where p is emitted.
SameBodies(F, f, p) ==
  \A i \in DOMAIN p.block, off \in Int :
    F[Piece(p.block[i].body, off, p.scope)]
      = f[Piece(p.block[i].body, off, p.scope)]

LEMMA SameEmission ==
  ASSUME NEW F, NEW f, NEW p \in Pieces, SameBodies(F, f, p),
         NEW acc \in Emission, NEW i \in 1 .. Len(p.block)
  PROVE  EmitAt(F, acc, p.block, i, p.scope) = EmitAt(f, acc, p.block, i, p.scope)
<1> DEFINE n     == p.block[i]
           scope == p.scope
<1>1. acc.pending \in Int
  BY DEF Emission
<1>2. \A off \in Int : F[Piece(n.body, off, scope)] = f[Piece(n.body, off, scope)]
  BY PieceFields DEF SameBodies
<1>3. ASSUME NEW off \in Int
      PROVE  ControlCode(F, n, off, scope) = ControlCode(f, n, off, scope)
  <2>1. BodyCode(F, n, off, scope) = BodyCode(f, n, off, scope)
    <3> HIDE DEF n, scope
    <3> QED  BY <1>2 DEF BodyCode
  <2> QED  BY <2>1 DEF ControlCode
<1> HIDE DEF n, scope
<1>4. EmitControl(F, acc, n, scope) = EmitControl(f, acc, n, scope)
  <2> DEFINE at == IF ControlAtOffset(n, acc.pending) THEN acc ELSE Settled(acc)
  <2>1. at.pending \in Int
    <3>1. Settled(acc).pending = 0
      BY DEF Settled, Emission
    <3> QED  BY <1>1, <3>1
  <2>2. \A g : EmitControl(g, acc, n, scope)
                = Also(at, ControlCode(g, n, at.pending, scope))
    BY DEF EmitControl
  <2> HIDE DEF at
  <2> QED  BY <1>3, <2>1, <2>2
<1>5. EmitNode(F, acc, n, scope) = EmitNode(f, acc, n, scope)
  BY <1>4 DEF EmitNode
<1> QED  BY <1>5 DEF EmitAt, n, scope

LEMMA FoldedTrace ==
  ASSUME KeepsIsMonotone, CallbacksFit, NEW f \in [Pieces -> Emission],
         NEW p \in Pieces, NEW F, SameBodies(F, f, p)
  PROVE  \E acc : /\ Trace(acc, Stepped(f, p), Blank(p.start), Emission, Len(p.block))
                  /\ Folded(F, p) = acc[Len(p.block)]
<1> DEFINE n   == Len(p.block)
           b   == Blank(p.start)
           g   == Stepped(f, p)
           dom == [k \in DOMAIN p.block |-> k]
           Turn(acc, i) == EmitAt(F, acc, p.block, i, p.scope)
           Iter(h) == h = [s \in SUBSET DOMAIN dom |->
                             IF s = {} THEN b ELSE Turn(h[s \ {Max(s)}], dom[Max(s)])]
           iter == CHOOSE h : Iter(h)
<1>1. /\ n \in Nat /\ b \in Emission
      /\ DOMAIN dom = 1 .. n /\ \A k \in 1 .. n : dom[k] = k
  BY PieceFields, BlankType
<1>2. /\ g \in [Emission \X (1 .. n) -> Emission]
      /\ \A acc \in Emission, i \in 1 .. n : g[<<acc, i>>] = Turn(acc, i)
  <2>1. /\ g \in [Emission \X (1 .. n) -> Emission]
        /\ \A acc \in Emission, i \in 1 .. n :
             g[<<acc, i>>] = EmitAt(f, acc, p.block, i, p.scope)
    BY SteppedType
  <2>2. \A acc \in Emission, i \in 1 .. n :
          EmitAt(F, acc, p.block, i, p.scope) = EmitAt(f, acc, p.block, i, p.scope)
    BY SameEmission
  <2> HIDE DEF g, n
  <2> QED  BY <2>1, <2>2
<1>3. Folded(F, p) = iter[DOMAIN dom]
  BY DEF Folded, FoldLeftDomain, FoldLeft, MapThenFoldSet
<1> HIDE DEF n, b, g, dom, Turn
<1>4. PICK c : ChosenFold(c, g, b, Emission, n)
  BY <1>1, <1>2, ChosenFoldExists
<1>5. Iter(c)
  <2>1. ASSUME NEW s \in SUBSET (1 .. n), s # {}
        PROVE  c[s] = Turn(c[s \ {Max(s)}], Max(s))
    <3>1. Max(s) \in 1 .. n  BY <1>1, <2>1, MaxOfIndices
    <3>2. c[s \ {Max(s)}] \in Emission  BY <1>4 DEF ChosenFold
    <3>3. c[s] = g[<<c[s \ {Max(s)}], Max(s)>>]  BY <1>4, <2>1 DEF ChosenFold
    <3> QED  BY <1>2, <3>1, <3>2, <3>3
  <2>2. c[{}] = b  BY <1>4 DEF ChosenFold
  <2>3. DOMAIN c = SUBSET (1 .. n) /\ c = [s \in SUBSET (1 .. n) |-> c[s]]
    BY <1>4 DEF ChosenFold
  <2>4. \A s \in SUBSET (1 .. n) : s # {} => dom[Max(s)] = Max(s)
    BY <1>1, MaxOfIndices
  <2> QED  BY <1>1, <2>1, <2>2, <2>3, <2>4
<1>6. Iter(iter)
  <2> HIDE DEF Iter
  <2> QED  BY <1>5
<1> HIDE DEF iter
<1>7. FoldsUp(iter, g, b, Emission, n)
  <2>1. iter[{}] = b  BY <1>1, <1>6
  <2>2. ASSUME NEW s \in SUBSET (1 .. n), s # {}, iter[s \ {Max(s)}] \in Emission
        PROVE  iter[s] = g[<<iter[s \ {Max(s)}], Max(s)>>]
    <3>1. Max(s) \in 1 .. n  BY <1>1, <2>2, MaxOfIndices
    <3>2. iter[s] = Turn(iter[s \ {Max(s)}], Max(s))  BY <1>1, <1>6, <2>2, <3>1
    <3> QED  BY <1>2, <2>2, <3>1, <3>2
  <2> QED  BY <2>1, <2>2 DEF FoldsUp
<1>8. PICK acc : Traces(acc, iter, g, b, Emission, n)
  <2> HIDE DEF Iter
  <2> QED  BY <1>1, <1>2, <1>7, FoldSteps
<1>9. Trace(acc, g, b, Emission, n) /\ iter[1 .. n] = acc[n]
  BY <1>8 DEF Traces
<1>10. Folded(F, p) = acc[n]
  BY <1>1, <1>3, <1>9
<1> QED  BY <1>9, <1>10 DEF n, b, g

\* So what is emitted of a piece is settled by what is emitted of the bodies in it.
LEMMA FoldedAgree ==
  ASSUME KeepsIsMonotone, CallbacksFit, NEW f \in [Pieces -> Emission],
         NEW p \in Pieces, NEW F, SameBodies(F, f, p)
  PROVE  Folded(F, p) = Folded(f, p) /\ Folded(f, p) \in Emission
<1> DEFINE n == Len(p.block)
           g == Stepped(f, p)
           b == Blank(p.start)
<1>1. SameBodies(f, f, p)
  BY DEF SameBodies
<1>2. PICK acc : Trace(acc, g, b, Emission, n) /\ Folded(F, p) = acc[n]
  BY FoldedTrace
<1>3. PICK acc2 : Trace(acc2, g, b, Emission, n) /\ Folded(f, p) = acc2[n]
  BY <1>1, FoldedTrace
<1>4. n \in Nat
  BY PieceFields
<1> HIDE DEF n, g, b
<1>5. acc = acc2
  BY <1>2, <1>3, <1>4, OneTrace
<1>6. acc2[n] \in Emission
  BY <1>3, <1>4 DEF Trace
<1> QED  BY <1>2, <1>3, <1>5, <1>6

\* A piece's height is its block's.
LEMMA BodiesAreLower ==
  ASSUME NEW height, Heights(height), NEW p \in Pieces, NEW i \in DOMAIN p.block,
         NEW off \in Int
  PROVE  LET q == Piece(p.block[i].body, off, p.scope)
         IN  /\ q \in Pieces
             /\ height[q.block] \in Nat /\ height[p.block] \in Nat
             /\ height[q.block] < height[p.block]
<1> DEFINE q == Piece(p.block[i].body, off, p.scope)
<1>1. p.block \in Seq(Node) /\ p.scope \in Scopes
  BY PieceFields
<1>2. p.block[i] \in Node
  BY <1>1
<1>3. p.block[i].body \in Seq(Node)
  BY <1>2, NodeAssumption
<1>4. q \in Pieces /\ q.block = p.block[i].body
  BY <1>1, <1>3 DEF Piece, Pieces
<1> QED  BY <1>1, <1>3, <1>4 DEF Heights

\* So a function that emits every piece exists, by recursion on the height.
LEMMA EmissionExists ==
  ASSUME KeepsIsMonotone, CallbacksFit, FinitelyNested
  PROVE  \E f \in [Pieces -> Emission] : f = [p \in Pieces |-> Folded(f, p)]
<1>1. PICK height : Heights(height)
  BY DEF FinitelyNested
<1> DEFINE F == [Pieces -> Emission]
           G == [f \in F |-> [p \in Pieces |-> Folded(f, p)]]
           h == [p \in Pieces |-> height[p.block]]
<1>2. F # {}
  <2>1. [p \in Pieces |-> Blank(0)] \in F
    BY BlankType
  <2> QED  BY <2>1
<1>3. h \in [Pieces -> Nat]
  BY <1>1, PieceFields DEF Heights
<1>4. G \in [F -> F]
  <2> SUFFICES ASSUME NEW f \in F, NEW p \in Pieces PROVE Folded(f, p) \in Emission
    OBVIOUS
  <2>1. SameBodies(f, f, p)
    BY DEF SameBodies
  <2> QED  BY <2>1, FoldedAgree
<1>5. ASSUME NEW f \in F, NEW g \in F, NEW p \in Pieces,
             \A q \in Pieces : h[q] < h[p] => f[q] = g[q]
      PROVE  G[f][p] = G[g][p]
  <2>1. SameBodies(f, g, p)
    <3> SUFFICES ASSUME NEW i \in DOMAIN p.block, NEW off \in Int
                 PROVE  LET q == Piece(p.block[i].body, off, p.scope) IN f[q] = g[q]
      BY DEF SameBodies
    <3> DEFINE q == Piece(p.block[i].body, off, p.scope)
    <3>1. q \in Pieces /\ height[q.block] < height[p.block]
      BY <1>1, BodiesAreLower
    <3> HIDE DEF q
    <3>2. f[q] = g[q]
      BY <1>5, <3>1
    <3> QED  BY <3>2 DEF q
  <2>2. Folded(f, p) = Folded(g, p)
    BY <2>1, FoldedAgree
  <2> QED  BY <2>2
<1> HIDE DEF G, h
<1>6. Descends(G, h, Pieces, Emission)
  BY <1>2, <1>3, <1>4, <1>5 DEF Descends
<1>7. PICK f : IsFixpoint(f, G, Pieces, Emission)
  BY <1>6, RecursionByHeight
<1>8. f \in F /\ f = [p \in Pieces |-> Folded(f, p)]
  BY <1>7 DEF IsFixpoint, G
<1> QED  BY <1>8

\* The one EmitBlock is.
LEMMA EmitBlockFolds ==
  ASSUME KeepsIsMonotone, CallbacksFit, FinitelyNested
  PROVE  /\ EmitBlock \in [Pieces -> Emission]
         /\ \A p \in Pieces : EmitBlock[p] = Folded(EmitBlock, p)
<1>1. PICK height : Heights(height)
  BY DEF FinitelyNested
<1>2. PICK f \in [Pieces -> Emission] : f = [p \in Pieces |-> Folded(f, p)]
  BY EmissionExists
<1> DEFINE Is(F) == F = [p \in Pieces |-> Folded(F, p)]
           B == CHOOSE F : Is(F)
<1>3. Is(B)
  <2>1. Is(f)  BY <1>2
  <2> HIDE DEF Is
  <2> QED  BY <2>1
<1>4. EmitBlock = B
  BY Zenon DEF EmitBlock, Folded, Blank
<1> HIDE DEF B
<1>5. ASSUME NEW p \in Pieces, \A q \in Pieces : height[q.block] < height[p.block] => B[q] = f[q]
      PROVE  B[p] = f[p]
  <2>1. SameBodies(B, f, p)
    <3> SUFFICES ASSUME NEW i \in DOMAIN p.block, NEW off \in Int
                 PROVE  LET q == Piece(p.block[i].body, off, p.scope) IN B[q] = f[q]
      BY DEF SameBodies
    <3> DEFINE q == Piece(p.block[i].body, off, p.scope)
    <3>1. q \in Pieces /\ height[q.block] < height[p.block]
      BY <1>1, BodiesAreLower
    <3> HIDE DEF q
    <3>2. B[q] = f[q]
      BY <1>5, <3>1
    <3> QED  BY <3>2 DEF q
  <2>2. Folded(B, p) = Folded(f, p)
    BY <2>1, FoldedAgree
  <2> QED  BY <1>2, <1>3, <2>2
<1>6. \A p \in Pieces : B[p] = f[p]
  <2> DEFINE Bad == {p \in Pieces : B[p] # f[p]}
             T   == {height[p.block] : p \in Bad}
  <2> SUFFICES ASSUME T # {} PROVE FALSE
    OBVIOUS
  <2>1. T \subseteq Nat
    BY <1>1, PieceFields DEF Heights
  <2> HIDE DEF T
  <2>2. PICK m \in T : \A k \in T : m <= k
    BY <2>1, NatMinimum
  <2>3. PICK p \in Bad : m = height[p.block]
    BY DEF T
  <2>4. ASSUME NEW q \in Pieces, height[q.block] < height[p.block] PROVE B[q] = f[q]
    <3>1. height[q.block] \in Nat /\ height[p.block] \in Nat
      BY <1>1, PieceFields DEF Heights
    <3>2. height[q.block] \notin T
      BY <2>2, <2>3, <2>4, <3>1
    <3> QED  BY <3>2 DEF T
  <2> QED  BY <1>5, <2>3, <2>4
<1>7. B = f
  <2>1. DOMAIN B = Pieces /\ B = [p \in Pieces |-> B[p]]
    <3> HIDE DEF Is
    <3>1. B = [p \in Pieces |-> Folded(B, p)]
      BY <1>3 DEF Is
    <3> QED  BY <3>1
  <2>2. f = [p \in Pieces |-> f[p]]
    BY <1>2
  <2> QED  BY <1>6, <2>1, <2>2
<1> QED  BY <1>2, <1>3, <1>4, <1>7

-----------------------------------------------------------------------------
(* What EmitBlock emits of a block, and of a program.                      *)

NonnullBegins(block) ==
  \A i \in DOMAIN block : block[i].kind = "NONNULL_MULTIPLY_LOOP" => i = 1

IfsBeginWithNonnull == \A n \in Node : NonnullIsFirst(n)

\* A piece fits when its nodes' bodies do.
LEMMA FoldedFits ==
  ASSUME KeepsIsMonotone, CallbacksFit, IfsBeginWithNonnull,
         NEW f \in [Pieces -> Emission],
         NEW p \in Pieces, NonnullBegins(p.block),
         \A i \in DOMAIN p.block, off \in Int :
           Fits(f[Piece(p.block[i].body, off, p.scope)].code,
                Entry(p.block[i].body, off), Machine)
  PROVE  Fits(Folded(f, p).code, Entry(p.block, p.start), Machine)
<1> DEFINE block == p.block
           start == p.start
           scope == p.scope
           n == Len(block)
           b == Blank(start)
           g == Stepped(f, p)
           E == Entry(block, start)
           Mid(k) == IF k = 0 THEN E ELSE Machine
<1>1. /\ block \in Seq(Node) /\ start \in Int /\ scope \in Scopes
      /\ n \in Nat /\ DOMAIN block = 1 .. n
  BY PieceFields
<1>2. PICK acc : Trace(acc, g, b, Emission, n) /\ Folded(f, p) = acc[n]
  <2>1. SameBodies(f, f, p)  BY DEF SameBodies
  <2> QED  BY <2>1, FoldedTrace
<1>3. ASSUME NEW a \in Emission, NEW i \in 1 .. n
      PROVE  g[<<a, i>>] = EmitAt(f, a, block, i, scope)
  BY SteppedType
<1>4. E \subseteq Machine /\ (block = <<>> => E = Machine)
  BY <1>1 DEF Entry, CallbacksFit, BodiesFit
<1>5. ASSUME NEW i \in 1 .. n, block[i].kind \in ControlKinds, NEW off \in Int
      PROVE  Fits(ControlCode(f, block[i], off, scope), Machine, Machine)
  <2> DEFINE m == block[i]
  <2>1. m \in Node /\ NonnullIsFirst(m)
    BY <1>1 DEF IfsBeginWithNonnull
  <2>2. Fits(f[Piece(m.body, off, scope)].code, Entry(m.body, off), Machine)
    BY <1>1
  <2> HIDE DEF m, scope
  <2> QED  BY <1>1, <1>5, <2>1, <2>2, ControlFits DEF m
<1>6. \A i \in 1 .. n :
        block[i].kind = "NONNULL_MULTIPLY_LOOP" => i = 1 /\ E = Nonzero(start)
  <2> TAKE i \in 1 .. n
  <2> HAVE block[i].kind = "NONNULL_MULTIPLY_LOOP"
  <2>1. i = 1 /\ block # <<>>
    BY <1>1 DEF NonnullBegins
  <2> QED  BY <2>1 DEF Entry
<1> HIDE DEF block, start, scope, n, g, E
<1> DEFINE T == {k \in 0 .. n : Fits(acc[k].code, E, Mid(k))}
<1>7. 0 \in T
  <2>1. acc[0].code = <<>>
    BY <1>2 DEF Trace, Blank
  <2>2. Fits(<<>>, E, E)
    BY <1>4, FitsNothing
  <2> QED  BY <1>1, <2>1, <2>2
<1>8. ASSUME NEW k \in 0 .. n - 1, k \in T PROVE k + 1 \in T
  <2> DEFINE i == k + 1
             a == acc[k]
             X == Mid(k)
  <2>1. i \in 1 .. n /\ i - 1 = k /\ i # 0 /\ a \in Emission
    BY <1>1, <1>2 DEF Trace
  <2>2. acc[i] = g[<<a, i>>]
    BY <1>2, <2>1 DEF Trace
  <2>3. acc[i] = EmitAt(f, a, block, i, scope)
    BY <1>3, <2>1, <2>2
  <2>4. Fits(a.code, E, X)
    BY <1>8
  <2>5. k = 0 => i = 1 /\ a.next = 1 /\ a.pending = start
    BY <1>2 DEF Trace, Blank
  <2>6. k # 0 => i # 1
    BY <1>1
  <2> HIDE DEF i, a
  <2>7. Asks(f, a, block, i, scope, Machine, X)
    <3>1. X \subseteq Machine
      BY <1>4
    <3>2. i < a.next => X = Machine
      BY <2>5
    <3>3. block[i].kind = "NONNULL_MULTIPLY_LOOP" => X \subseteq Nonzero(a.pending)
      BY <1>6, <2>1, <2>5, <2>6
    <3>4. block[i].kind \in ControlKinds =>
            \A off \in Int : Fits(ControlCode(f, block[i], off, scope), Machine, Machine)
      BY <1>5, <2>1
    <3> HIDE DEF X
    <3> QED  BY <3>1, <3>2, <3>3, <3>4 DEF Asks
  <2>8. Machine \in Middles
    BY DEF Middles
  <2> HIDE DEF X
  <2>9. i \in 1 .. Len(block)
    BY <2>1 DEF n
  <2>10. Fits(acc[i].code, E, Machine)
    BY <1>1, <2>1, <2>3, <2>4, <2>7, <2>8, <2>9, EmitAtFits
  <2>11. Fits(acc[i].code, E, Mid(i)) /\ i \in 0 .. n
    BY <1>1, <2>1, <2>10
  <2> QED  BY <2>11 DEF i
<1>9. n \in T
  <2> HIDE DEF T
  <2> QED  BY <1>1, <1>7, <1>8, InductionTo
<1>10. n = 0 => E = Machine
  BY <1>1, <1>4 DEF n
<1> QED  BY <1>2, <1>9, <1>10 DEF E, block, start

\* By induction on the height of a block: EmitBlock's pieces fit.
LEMMA BlockFits ==
  ASSUME KeepsIsMonotone, CallbacksFit, IfsBeginWithNonnull, FinitelyNested,
         NEW p \in Pieces, NonnullBegins(p.block)
  PROVE  Fits(EmitBlock[p].code, Entry(p.block, p.start), Machine)
<1>1. PICK height : Heights(height)
  BY DEF FinitelyNested
<1> DEFINE B == EmitBlock
           Good(q) == Fits(B[q].code, Entry(q.block, q.start), Machine)
<1>2. B \in [Pieces -> Emission] /\ \A q \in Pieces : B[q] = Folded(B, q)
  BY EmitBlockFolds
<1> HIDE DEF B
<1>3. ASSUME NEW q \in Pieces, NonnullBegins(q.block),
             \A r \in Pieces :
               NonnullBegins(r.block) /\ height[r.block] < height[q.block] => Good(r)
      PROVE  Good(q)
  <2>1. ASSUME NEW i \in DOMAIN q.block, NEW off \in Int
        PROVE  Fits(B[Piece(q.block[i].body, off, q.scope)].code,
                    Entry(q.block[i].body, off), Machine)
    <3> DEFINE r == Piece(q.block[i].body, off, q.scope)
    <3>1. r \in Pieces /\ height[r.block] < height[q.block]
      BY <1>1, BodiesAreLower
    <3>2. q.block[i] \in Node
      BY PieceFields
    <3>3. NonnullBegins(r.block)
      BY <3>2 DEF IfsBeginWithNonnull, NonnullIsFirst, NonnullBegins, Piece
    <3>4. r.block = q.block[i].body /\ r.start = off
      BY DEF Piece
    <3> HIDE DEF r
    <3>5. Good(r)
      BY <1>3, <3>1, <3>3
    <3> QED  BY <3>4, <3>5 DEF r
  <2>2. Fits(Folded(B, q).code, Entry(q.block, q.start), Machine)
    BY <1>2, <1>3, <2>1, FoldedFits
  <2> QED  BY <1>2, <2>2
<1> DEFINE Bad == {q \in Pieces : NonnullBegins(q.block) /\ ~Good(q)}
           T   == {height[q.block] : q \in Bad}
<1>4. T = {}
  <2> SUFFICES ASSUME T # {} PROVE FALSE
    OBVIOUS
  <2> HIDE DEF Good
  <2>1. T \subseteq Nat
    BY <1>1, PieceFields DEF Heights
  <2> HIDE DEF T
  <2>2. PICK m \in T : \A k \in T : m <= k
    BY <2>1, NatMinimum
  <2>3. PICK q \in Bad : m = height[q.block]
    BY DEF T
  <2>4. ASSUME NEW r \in Pieces, NonnullBegins(r.block), height[r.block] < height[q.block]
        PROVE  Good(r)
    <3>1. height[r.block] \in Nat /\ height[q.block] \in Nat
      BY <1>1, PieceFields DEF Heights
    <3>2. height[r.block] \notin T
      BY <2>2, <2>3, <2>4, <3>1
    <3> QED  BY <2>4, <3>2 DEF T
  <2> QED  BY <1>3, <2>3, <2>4
<1>5. Good(p)
  <2> HIDE DEF Good
  <2> QED  BY <1>4
<1> QED  BY <1>5 DEF B

\* A program may be entered in every state, and left in every state.
LEMMA EmittedFits ==
  ASSUME KeepsIsMonotone, CallbacksFit, IfsBeginWithNonnull, FinitelyNested,
         NEW program \in Seq(Node), NoNonnull(program), NEW scope \in Scopes
  PROVE  Fits(Emitted(program, scope), Machine, Machine)
<1> DEFINE p == Piece(program, 0, scope)
           e == EmitBlock[p]
<1>1. /\ p \in Pieces /\ p.block = program /\ p.start = 0
  BY DEF Piece, Pieces
<1>2. NonnullBegins(p.block)
  BY <1>1 DEF NonnullBegins, NoNonnull
<1>3. Entry(p.block, p.start) = Machine
  <2>1. program # <<>> => 1 \in DOMAIN program
    OBVIOUS
  <2> QED  BY <1>1, <2>1 DEF Entry, NoNonnull
<1>4. Emitted(program, scope) = Flushed(e)
  BY DEF Emitted
<1> HIDE DEF p
<1>5. Fits(e.code, Machine, Machine)
  BY <1>1, <1>2, <1>3, BlockFits
<1>6. e \in Emission
  BY <1>1, EmitBlockFolds
<1>7. Machine \in Middles /\ Machine \in SUBSET Machine
  BY DEF Middles
<1> HIDE DEF e
<1> QED  BY <1>4, <1>5, <1>6, <1>7, FlushedFits
-----------------------------------------------------------------------------
(* Code that ends in an instruction that may be reached in every state, as *)
(* the epilogue, to which the error blocks lead.                           *)

\* known[k] holds the states in which instruction k of the code may be reached; it
\* is empty where there is no instruction.
Annotated(c, known) ==
  /\ c \in Seq(AnyInstruction)
  /\ known \in [Int -> SUBSET Machine]
  /\ \A j \in Int : j \notin 1 .. Len(c) => known[j] = {}
  /\ known[1] = Machine /\ known[Len(c)] = Machine
  /\ \A k \in 1 .. Len(c) : Keeps(c[k], known[k], known[k + 1], known[k + c[k].to])

LEMMA FittingIsAnnotated ==
  ASSUME KeepsIsMonotone, NEW e, Fits(e, Machine, Machine),
         NEW i \in AnyInstruction, \A next, there : Keeps(i, Machine, next, there)
  PROVE  \E known : Annotated(e \o <<i>>, known)
<1> DEFINE c == e \o <<i>>
           n == Len(e)
<1>1. PICK known : Valid(e, known) /\ Machine \subseteq known[1] /\ known[n + 1] \subseteq Machine
  BY DEF Fits
<1> DEFINE all == [j \in Int |-> IF j = n + 1 THEN Machine ELSE known[j]]
<1>2. e \in Seq(AnyInstruction) /\ n \in Nat
  BY FitsIsCode
<1>3. /\ c \in Seq(AnyInstruction) /\ Len(c) = n + 1
      /\ c[n + 1] = i /\ \A k \in 1 .. n : c[k] = e[k]
  BY <1>2
<1>4. all \in [Int -> SUBSET Machine] /\ \A j \in Int : known[j] \subseteq all[j]
  BY <1>1 DEF Valid
<1>5. all[1] = Machine /\ all[n + 1] = Machine
  <2>1. known[1] = Machine
    <3>1. known \in [Int -> SUBSET Machine]  BY <1>1 DEF Valid
    <3>2. known[1] \subseteq Machine  BY <3>1
    <3> QED  BY <1>1, <3>2
  <2>2. n + 1 \in Int  BY <1>2
  <2> QED  BY <2>1, <2>2
<1>6. \A j \in Int : j \notin 1 .. n + 1 => all[j] = {}
  <2> SUFFICES ASSUME NEW j \in Int, j \notin 1 .. n + 1 PROVE all[j] = {}
    OBVIOUS
  <2>1. known[j] = {}
    BY <1>1 DEF Valid
  <2>2. j # n + 1
    BY <1>2
  <2> QED  BY <2>1, <2>2
<1>7. ASSUME NEW k \in 1 .. n
       PROVE  Keeps(c[k], all[k], all[k + 1], all[k + c[k].to])
  <2>1. Keeps(e[k], known[k], known[k + 1], known[k + e[k].to])
    BY <1>1 DEF Valid
  <2>2. e[k] \in AnyInstruction
    BY <1>2
  <2>3. /\ all[k] = known[k] /\ k \in Int /\ k + 1 \in Int
        /\ k + e[k].to \in Int
    <3>1. e[k].to \in Int  BY <2>2 DEF KeepsIsMonotone
    <3>2. k \in Int /\ k # n + 1  BY <1>2
    <3> QED  BY <3>1, <3>2
  <2> HIDE DEF all
  <2>4. all[k] \subseteq known[k] /\ known[k + 1] \subseteq all[k + 1]
        /\ known[k + e[k].to] \subseteq all[k + e[k].to]
    BY <1>4, <2>3
  <2> HIDE DEF c
  <2> QED  BY <1>3, <2>1, <2>4, KeepsMonotone
<1>8. Keeps(c[n + 1], all[n + 1], all[n + 1 + 1], all[n + 1 + c[n + 1].to])
  BY <1>3, <1>5
<1> HIDE DEF c, all
<1>9. \A k \in 1 .. n + 1 : Keeps(c[k], all[k], all[k + 1], all[k + c[k].to])
  <2> TAKE k \in 1 .. n + 1
  <2>1. k \in 1 .. n \/ k = n + 1  BY <1>2
  <2> QED  BY <1>7, <1>8, <2>1
<1>10. Annotated(c, all)
  BY <1>3, <1>4, <1>5, <1>6, <1>9 DEF Annotated
<1> QED  BY <1>10 DEF c
=============================================================================
