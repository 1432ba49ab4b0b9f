---------------------------- MODULE PaxosLogProofs ----------------------------
(***************************************************************************)
(* Proofs about the PaxosLog of one node and about the LogSyncers of a     *)
(* group of nodes, which are built from the same operators, for every set  *)
(* of entries and nodes and every number of indices: the vector of         *)
(* available indices is exact, the derived state gets the prefix without   *)
(* holes in order, the log implements AppliedLog; requests describe the    *)
(* holes of their sender and entries keep their indices.                   *)
(***************************************************************************)
EXTENDS PaxosLog, LogSyncer, SequenceTheorems, WellFoundedInduction, TLAPS

-----------------------------------------------------------------------------
(* Numbers and recursive functions.                                        *)

\* A set of numbers has a least one.
LEMMA LeastNumber ==
    ASSUME NEW T \in SUBSET Nat, T # {}
    PROVE  \E x \in T : \A y \in T : x <= y
<1> DEFINE R == {p \in Nat \X Nat : p[1] < p[2]}
<1>1. IsWellFoundedOn(R, Nat)
  BY NatLessThanWellFounded DEF OpToRel, R
<1> HIDE DEF R
<1>2. PICK x \in T : \A y \in T : <<y, x>> \notin R
  BY <1>1, WFMin, Zenon
<1>3. \A y \in T : ~(y < x)
  BY <1>2 DEF R
<1>4. \A y \in T : x <= y
  BY <1>3
<1>5. QED
  BY <1>4

\* Induction up to n, with a set for the formula.
LEMMA Induction ==
    ASSUME NEW n \in Nat, NEW G, 0 \in G, \A k \in 1..n : k - 1 \in G => k \in G
    PROVE  \A k \in 0..n : k \in G
<1> DEFINE T == {k \in 0..n : k \notin G}
<1>1. T = {}
  <2> SUFFICES ASSUME T # {} PROVE FALSE
    OBVIOUS
  <2>1. PICK k \in T : \A j \in T : k <= j
    <3>1. T \in SUBSET Nat
      OBVIOUS
    <3> HIDE DEF T
    <3>2. QED
      BY <3>1, LeastNumber
  <2>2. k \in 0..n /\ k \notin G /\ k # 0
    BY <2>1
  <2>3. k \in 1..n /\ k - 1 \in 0..n
    BY <2>2
  <2>4. k - 1 \notin T
    BY <2>1, <2>3
  <2>5. QED
    BY <2>2, <2>3, <2>4
<1>2. QED
  BY <1>1

\* The steps of n rounds on a set of states.
Steps(S, n) == [1..n -> [S -> S]]

\* The state after each round.
Solution(f, S, base, n, g) ==
    /\ f \in [0..n -> S]
    /\ f[0] = base
    /\ \A k \in 1..n : f[k] = g[k][f[k - 1]]

\* A function on 0..n may be defined by recursion, with any step that stays in a set S.
LEMMA Recursion ==
    ASSUME NEW S, NEW base \in S, NEW n \in Nat, NEW g \in Steps(S, n)
    PROVE  \E f : Solution(f, S, base, n, g)
<1> DEFINE Solves(f, m) == f[0] = base /\ \A k \in 1..m : f[k] = g[k][f[k - 1]]
           G == {m \in 0..n : \E f \in [0..m -> S] : Solves(f, m)}
<1>1. 0 \in G
  <2> DEFINE f == [k \in 0..0 |-> base]
  <2>1. f \in [0..0 -> S]
    OBVIOUS
  <2>2. f[0] = base /\ \A k \in 1..0 : FALSE
    OBVIOUS
  <2> HIDE DEF f
  <2>3. QED
    BY <2>1, <2>2
<1>2. ASSUME NEW m \in 1..n, m - 1 \in G PROVE m \in G
  <2>1. PICK f \in [0..(m - 1) -> S] : Solves(f, m - 1)
    BY <1>2
  <2> DEFINE h == [k \in 0..m |-> IF k = m THEN g[m][f[m - 1]] ELSE f[k]]
  <2>2. f[m - 1] \in S /\ m \in 1..n
    BY <2>1
  <2>3. g[m][f[m - 1]] \in S
    BY <2>2 DEF Steps
  <2>4. h \in [0..m -> S]
    BY <2>1, <2>3
  <2>5. h[0] = base
    BY <2>1
  <2>6. ASSUME NEW k \in 1..m PROVE h[k] = g[k][h[k - 1]]
    <3>1. CASE k = m
      <4>1. m \in 0..m /\ m - 1 \in 0..m /\ m - 1 # m
        OBVIOUS
      <4>2. h[m] = g[m][f[m - 1]] /\ h[m - 1] = f[m - 1]
        BY <4>1
      <4>3. QED
        BY <3>1, <4>2
    <3>2. CASE k # m
      <4>1. k \in 1..(m - 1) /\ h[k] = f[k] /\ h[k - 1] = f[k - 1]
        BY <3>2
      <4>2. QED
        BY <4>1, <2>1
    <3>3. QED
      BY <3>1, <3>2
  <2> HIDE DEF h
  <2>7. Solves(h, m)
    BY <2>5, <2>6
  <2>8. m \in 0..n
    OBVIOUS
  <2> HIDE DEF Solves
  <2>9. QED
    BY <2>4, <2>7, <2>8
<1> HIDE DEF G
<1>3. n \in G
  <2>1. \A k \in 0..n : k \in G
    BY <1>1, <1>2, Induction
  <2>2. QED
    BY <2>1
<1>4. QED
  BY <1>3 DEF G, Solution

-----------------------------------------------------------------------------
(* Vectors of indices.                                                     *)

\* A function on 1..n is a sequence of length n.
LEMMA Constructed ==
    ASSUME NEW S, NEW n \in Nat, NEW f \in [1..n -> S]
    PROVE  f \in Seq(S) /\ Len(f) = n /\ DOMAIN f = 1..n
<1>1. f \in Seq(S)
  BY SeqDef
<1>2. QED
  BY <1>1, LenProperties

\* A is an increasing vector of n indices, and exact for the indices D already set:
\* it has the missing ones and the one after the greatest.
Exact(A, n, D) ==
    /\ n \in Nat /\ n > 0 /\ A \in [1..n -> Nat]
    /\ \A j, k \in 1..n : j < k => A[j] < A[k]
    /\ \A i \in 0..A[n] : (\E k \in 1..n : A[k] = i) <=> i \notin D
    /\ \A i \in D : i \in Nat /\ i < A[n]
    /\ A[n] > 0 => A[n] - 1 \in D

\* A vector of n elements without its p-th one.
Drop(A, n, p) == [k \in 1..(n - 1) |-> IF k < p THEN A[k] ELSE A[k + 1]]

\* Setting a missing index below the last one.
LEMMA ExactBelow ==
    ASSUME NEW A, NEW n, NEW D, Exact(A, n, D), NEW p \in 1..n, p < n,
           NEW B, B = Drop(A, n, p)
    PROVE  Exact(B, n - 1, D \cup {A[p]})
<1> USE DEF Drop
<1>0. n \in Nat /\ A \in [1..n -> Nat] /\ p \in Nat /\ n - 1 \in Nat /\ n - 1 > 0
  BY DEF Exact
<1>1. /\ \A k \in 1..(n - 1) : k < p => B[k] = A[k]
      /\ \A k \in 1..(n - 1) : k >= p => B[k] = A[k + 1]
  BY <1>0
<1>2. B \in [1..(n - 1) -> Nat]
  BY <1>0
<1>3. B[n - 1] = A[n]
  <2>1. n - 1 \in 1..(n - 1) /\ n - 1 >= p /\ (n - 1) + 1 = n
    BY <1>0
  <2>2. B[n - 1] = A[(n - 1) + 1]
    BY <2>1, <1>1
  <2>3. QED
    BY <2>1, <2>2
<1>4. \A j, k \in 1..n : j < k => A[j] < A[k]
  BY DEF Exact
<1>5. ASSUME NEW j \in 1..(n - 1), NEW k \in 1..(n - 1), j < k PROVE B[j] < B[k]
  <2>1. j \in 1..n /\ k \in 1..n /\ j + 1 \in 1..n /\ k + 1 \in 1..n
    BY <1>0
  <2>2. A[j] < A[k] /\ A[j] < A[k + 1] /\ A[j + 1] < A[k + 1]
    BY <2>1, <1>0, <1>4, <1>5
  <2>3. (B[j] = A[j] /\ j < p) \/ (B[j] = A[j + 1] /\ j >= p)
    BY <1>0, <1>1
  <2>4. (B[k] = A[k] /\ k < p) \/ (B[k] = A[k + 1] /\ k >= p)
    BY <1>0, <1>1
  <2>5. QED
    BY <2>2, <2>3, <2>4, <1>0, <1>5
<1>6. ASSUME NEW k \in 1..(n - 1) PROVE B[k] # A[p] /\ \E j \in 1..n : A[j] = B[k]
  <2>1. CASE k < p
    <3>1. k \in 1..n /\ A[k] < A[p]
      BY <2>1, <1>0, <1>4
    <3>2. QED
      BY <2>1, <3>1, <1>0, <1>1
  <2>2. CASE k >= p
    <3>1. k + 1 \in 1..n /\ A[p] < A[k + 1]
      BY <2>2, <1>0, <1>4
    <3>2. B[k] = A[k + 1]
      BY <2>2, <1>1
    <3>3. A[p] \in Nat /\ A[k + 1] \in Nat
      BY <3>1, <1>0
    <3>4. B[k] # A[p]
      BY <3>1, <3>2, <3>3
    <3>5. QED
      BY <3>1, <3>2, <3>4
  <2>3. QED
    BY <2>1, <2>2, <1>0
<1>7. ASSUME NEW j \in 1..n, A[j] # A[p] PROVE \E k \in 1..(n - 1) : B[k] = A[j]
  <2>1. CASE j < p
    <3>1. j \in 1..(n - 1)
      BY <2>1, <1>0
    <3>2. QED
      BY <2>1, <3>1, <1>1
  <2>2. CASE j > p
    <3>1. j - 1 \in 1..(n - 1) /\ j - 1 >= p /\ (j - 1) + 1 = j
      BY <2>2, <1>0
    <3>2. B[j - 1] = A[(j - 1) + 1]
      BY <3>1, <1>1
    <3>3. QED
      BY <3>1, <3>2
  <2>3. QED
    BY <2>1, <2>2, <1>0, <1>7
<1>8. \A i \in 0..A[n] : (\E k \in 1..(n - 1) : B[k] = i) <=> i \notin D \cup {A[p]}
  <2> SUFFICES ASSUME NEW i \in 0..A[n]
               PROVE  (\E k \in 1..(n - 1) : B[k] = i) <=> i \notin D \cup {A[p]}
    OBVIOUS
  <2>1. (\E k \in 1..n : A[k] = i) <=> i \notin D
    BY DEF Exact
  <2>2. ASSUME NEW k \in 1..(n - 1), B[k] = i PROVE i \notin D \cup {A[p]}
    BY <2>1, <2>2, <1>6
  <2>3. ASSUME i \notin D \cup {A[p]} PROVE \E k \in 1..(n - 1) : B[k] = i
    <3>1. PICK j \in 1..n : A[j] = i
      BY <2>1, <2>3
    <3>2. A[j] # A[p]
      BY <2>3, <3>1
    <3>3. QED
      BY <3>1, <3>2, <1>7
  <2>4. QED
    BY <2>2, <2>3
<1>9. A[p] \in Nat /\ A[p] < A[n]
  BY <1>0, <1>4
<1>10. \A i \in D \cup {A[p]} : i \in Nat /\ i < A[n]
  BY <1>9 DEF Exact
<1>11. A[n] > 0 => A[n] - 1 \in D \cup {A[p]}
  BY DEF Exact
<1>12. QED
  BY <1>0, <1>2, <1>3, <1>5, <1>8, <1>10, <1>11 DEF Exact

\* Setting the last available index.
LEMMA ExactAtLast ==
    ASSUME NEW A, NEW n, NEW D, Exact(A, n, D),
           NEW B, B = [k \in 1..n |-> IF k < n THEN A[k] ELSE A[n] + 1]
    PROVE  Exact(B, n, D \cup {A[n]})
<1>0. n \in Nat /\ n > 0 /\ A \in [1..n -> Nat] /\ A[n] \in Nat
  BY DEF Exact
<1>1. /\ B \in [1..n -> Nat] /\ B[n] = A[n] + 1
      /\ \A k \in 1..n : k < n => B[k] = A[k]
  BY <1>0
<1>2. \A k \in 1..n : k < n => A[k] < A[n] /\ A[k] \in Nat
  BY <1>0 DEF Exact
<1>3. ASSUME NEW j \in 1..n, NEW k \in 1..n, j < k PROVE B[j] < B[k]
  <2>1. B[j] = A[j] /\ A[j] < A[n] /\ A[j] \in Nat
    BY <1>0, <1>1, <1>2, <1>3
  <2>2. CASE k < n
    BY <2>1, <2>2, <1>1, <1>3 DEF Exact
  <2>3. CASE k = n
    BY <2>1, <2>3, <1>0, <1>1
  <2>4. QED
    BY <2>2, <2>3, <1>0
<1>4. ASSUME NEW i \in 0..(A[n] + 1)
      PROVE  (\E k \in 1..n : B[k] = i) <=> i \notin D \cup {A[n]}
  <2>1. CASE i = A[n] + 1
    <3>1. i \notin D \cup {A[n]}
      BY <2>1, <1>0 DEF Exact
    <3>2. QED
      BY <2>1, <3>1, <1>0, <1>1
  <2>2. CASE i = A[n]
    BY <2>2, <1>0, <1>1, <1>2
  <2>3. CASE i < A[n]
    <3>1. (\E k \in 1..n : A[k] = i) <=> i \notin D
      BY <2>3, <1>0 DEF Exact
    <3>2. (\E k \in 1..n : A[k] = i) <=> \E k \in 1..n : B[k] = i
      BY <2>3, <1>0, <1>1, <1>2
    <3>3. QED
      BY <3>1, <3>2, <2>3, <1>0
  <2>4. QED
    BY <2>1, <2>2, <2>3, <1>0
<1>5. \A i \in D \cup {A[n]} : i \in Nat /\ i < A[n] + 1
  BY <1>0 DEF Exact
<1>6. QED
  BY <1>0, <1>1, <1>3, <1>4, <1>5 DEF Exact

\* Setting an index beyond the last available one.
LEMMA ExactBeyond ==
    ASSUME NEW A, NEW n, NEW D, Exact(A, n, D), NEW i \in Nat, i > A[n],
           Len(A) = n
    PROVE  Exact(pushBeyond(A, A[n], i), n + i - A[n], D \cup {i})
<1> DEFINE m == n + i - A[n]
           B == pushBeyond(A, A[n], i)
<1>a. B = [k \in 1..m |-> IF k <= n THEN A[k]
                          ELSE IF k < m THEN A[n] + k - n ELSE i + 1]
  BY DEF pushBeyond
<1>b. m = n + i - A[n]
  OBVIOUS
<1> HIDE DEF B, m
<1>0. n \in Nat /\ n > 0 /\ A \in [1..n -> Nat] /\ A[n] \in Nat /\ m \in Nat /\ m > n
  BY <1>b DEF Exact
<1> DEFINE last == A[n]
<1>1. last \in Nat /\ m = n + i - last /\ last < i
  BY <1>0, <1>b
<1> HIDE DEF last
<1>2. /\ \A k \in 1..m : k <= n => B[k] = A[k]
      /\ \A k \in 1..m : k > n /\ k < m => B[k] = last + k - n
      /\ B[m] = i + 1
  BY <1>0, <1>a DEF last
<1>3. B \in [1..m -> Nat]
  BY <1>0, <1>a
<1>4. ASSUME NEW k \in 1..n PROVE A[k] \in Nat /\ A[k] <= last
  <2>1. A[k] \in Nat /\ n \in 1..n
    BY <1>0
  <2>2. CASE k = n
    BY <2>1, <2>2 DEF last
  <2>3. CASE k < n
    <3>1. A[k] < A[n]
      BY <2>1, <2>3 DEF Exact
    <3>2. QED
      BY <2>1, <3>1, <1>0 DEF last
  <2>4. QED
    BY <2>2, <2>3, <1>0
<1>5. \A k \in 1..m : \/ k <= n /\ B[k] = A[k] /\ B[k] \in Nat /\ B[k] <= last
                      \/ k > n /\ k < m /\ B[k] = last + k - n /\ B[k] < i /\ B[k] > last
                      \/ k = m /\ B[k] = i + 1
  <2> SUFFICES ASSUME NEW k \in 1..m
               PROVE  \/ k <= n /\ B[k] = A[k] /\ B[k] \in Nat /\ B[k] <= last
                      \/ k > n /\ k < m /\ B[k] = last + k - n /\ B[k] < i /\ B[k] > last
                      \/ k = m /\ B[k] = i + 1
    OBVIOUS
  <2>1. CASE k <= n
    <3>1. k \in 1..n
      BY <2>1, <1>0
    <3>2. QED
      BY <2>1, <3>1, <1>2, <1>4
  <2>2. CASE k > n /\ k < m
    <3>1. B[k] = last + k - n
      BY <2>2, <1>2
    <3>2. QED
      BY <2>2, <3>1, <1>0, <1>1
  <2>3. CASE k = m
    BY <2>3, <1>2
  <2>4. QED
    BY <2>1, <2>2, <2>3, <1>0
<1>6. ASSUME NEW j \in 1..m, NEW k \in 1..m, j < k PROVE B[j] < B[k]
  <2>1. CASE k <= n
    <3>1. j \in 1..n /\ k \in 1..n
      BY <2>1, <1>0, <1>6
    <3>2. A[j] < A[k]
      BY <3>1, <1>6 DEF Exact
    <3>3. B[j] = A[j] /\ B[k] = A[k]
      BY <3>1, <1>0, <1>2
    <3>4. QED
      BY <3>2, <3>3
  <2>2. CASE k > n
    <3>1. \/ k < m /\ B[k] = last + k - n /\ B[k] > last
          \/ k = m /\ B[k] = i + 1
      <4>1. \/ k <= n /\ B[k] = A[k] /\ B[k] \in Nat /\ B[k] <= last
            \/ k > n /\ k < m /\ B[k] = last + k - n /\ B[k] < i /\ B[k] > last
            \/ k = m /\ B[k] = i + 1
        BY <1>5
      <4>2. ~(k <= n)
        BY <2>2, <1>0
      <4>3. QED
        BY <4>1, <4>2
    <3>2. \/ j <= n /\ B[j] \in Nat /\ B[j] <= last
          \/ j > n /\ j < m /\ B[j] = last + j - n /\ B[j] < i
      <4>1. \/ j <= n /\ B[j] = A[j] /\ B[j] \in Nat /\ B[j] <= last
            \/ j > n /\ j < m /\ B[j] = last + j - n /\ B[j] < i /\ B[j] > last
            \/ j = m /\ B[j] = i + 1
        BY <1>5
      <4>2. j # m
        BY <1>0, <1>6
      <4>3. QED
        BY <4>1, <4>2
    <3>3. j \in Nat /\ k \in Nat
      BY <1>0
    <3>4. CASE k < m /\ B[k] = last + k - n /\ B[k] > last
      BY <3>2, <3>3, <3>4, <1>0, <1>1, <1>6
    <3>5. CASE k = m /\ B[k] = i + 1
      BY <3>2, <3>3, <3>5, <1>0, <1>1
    <3>6. QED
      BY <3>1, <3>4, <3>5
  <2>3. QED
    BY <2>1, <2>2, <1>0
<1>7. ASSUME NEW x \in 0..(i + 1)
      PROVE  (\E k \in 1..m : B[k] = x) <=> x \notin D \cup {i}
  <2>1. CASE x <= last
    <3>1. (\E k \in 1..n : A[k] = x) <=> x \notin D
      BY <2>1, <1>1 DEF Exact, last
    <3>2. ASSUME NEW k \in 1..n, A[k] = x PROVE \E j \in 1..m : B[j] = x
      <4>1. k \in 1..m /\ k <= n
        BY <1>0
      <4>2. QED
        BY <4>1, <3>2, <1>2
    <3>3. ASSUME NEW k \in 1..m, B[k] = x PROVE \E j \in 1..n : A[j] = x
      <4>1. k <= n /\ B[k] = A[k]
        BY <3>3, <2>1, <1>0, <1>1, <1>5
      <4>2. k \in 1..n
        BY <4>1, <1>0
      <4>3. QED
        BY <4>1, <4>2, <3>3
    <3>4. x # i
      BY <2>1, <1>1
    <3>5. QED
      BY <3>1, <3>2, <3>3, <3>4
  <2>2. CASE x > last /\ x < i
    <3>1. x \notin D \cup {i}
      BY <2>2, <1>1 DEF Exact, last
    <3> DEFINE k == n + x - last
    <3>2. k \in 1..m /\ k > n /\ k < m /\ last + k - n = x
      BY <2>2, <1>0, <1>1
    <3> HIDE DEF k
    <3>3. B[k] = x
      BY <3>2, <1>2
    <3>4. QED
      BY <3>1, <3>2, <3>3
  <2>3. CASE x = i
    <3>1. ASSUME NEW k \in 1..m PROVE B[k] # i
      <4>1. \/ B[k] \in Nat /\ B[k] <= last
            \/ B[k] = last + k - n /\ B[k] < i
            \/ B[k] = i + 1
        BY <1>5
      <4>2. QED
        BY <4>1, <1>0, <1>1
    <3>2. QED
      BY <2>3, <3>1
  <2>4. CASE x = i + 1
    <3>1. x \notin D \cup {i}
      BY <2>4, <1>1 DEF Exact, last
    <3>2. m \in 1..m
      BY <1>0
    <3>3. QED
      BY <2>4, <3>1, <3>2, <1>2
  <2>5. x <= last \/ (x > last /\ x < i) \/ x = i \/ x = i + 1
    BY <1>1
  <2>6. QED
    BY <2>1, <2>2, <2>3, <2>4, <2>5
<1>8. \A x \in D \cup {i} : x \in Nat /\ x < i + 1
  BY <1>1 DEF Exact, last
<1>9. B[m] = i + 1 /\ B[m] - 1 \in D \cup {i}
  BY <1>2
<1>10. \A x \in 0..B[m] : (\E k \in 1..m : B[k] = x) <=> x \notin D \cup {i}
  BY <1>7, <1>9
<1>11. \A x \in D \cup {i} : x \in Nat /\ x < B[m]
  BY <1>8, <1>9
<1>12. m > 0
  BY <1>0
<1>13. QED
  BY <1>0, <1>3, <1>6, <1>9, <1>10, <1>11, <1>12 DEF Exact, B, m

-----------------------------------------------------------------------------
(* set_entry.                                                              *)

Increasing(A, n) == \A j, k \in 1..n : j < k => A[j] < A[k]

\* erase of an element of an increasing vector moves the ones after it up.
LEMMA EraseFacts ==
    ASSUME NEW A, NEW n \in Nat, A \in [1..n -> Nat], Len(A) = n,
           Increasing(A, n), NEW p \in 1..n
    PROVE  erase(A, A[p]) = Drop(A, n, p)
<1>1. ASSUME NEW k \in 1..(n - 1) PROVE (\A j \in 1..k : A[j] # A[p]) <=> k < p
  <2>1. ASSUME k < p, NEW j \in 1..k PROVE A[j] # A[p]
    <3>1. j < p /\ j \in 1..n
      BY <2>1
    <3>2. A[j] < A[p] /\ A[j] \in Nat /\ A[p] \in Nat
      BY <3>1 DEF Increasing
    <3>3. QED
      BY <3>2
  <2>2. ASSUME ~(k < p) PROVE \E j \in 1..k : A[j] = A[p]
    BY <2>2
  <2>3. QED
    BY <2>1, <2>2
<1>2. QED
  BY <1>1 DEF erase, Drop

\* The state of a log whose vector is exact.
GoodLog(l) ==
    /\ l.available_indices \in Seq(Nat)
    /\ Exact(l.available_indices, Len(l.available_indices), DOMAIN l.log)

\* What set_entry does to a log whose vector is exact: nothing if the index is set,
\* otherwise it inserts the entry and the vector is exact again.
LEMMA SetEntryFacts ==
    ASSUME NEW l, GoodLog(l), NEW i \in Nat, NEW e
    PROVE  \/ set_entry(l, i, e) = l /\ i \in DOMAIN l.log
           \/ /\ i \notin DOMAIN l.log
              /\ set_entry(l, i, e).log = insert(l.log, i, e)
              /\ GoodLog(set_entry(l, i, e))
<1> DEFINE A == l.available_indices
           n == Len(A)
           D == DOMAIN l.log
           new == set_entry(l, i, e)
<1>0. Exact(A, n, D) /\ A \in Seq(Nat)
  BY DEF GoodLog
<1>1. n \in Nat /\ n > 0 /\ A \in [1..n -> Nat] /\ DOMAIN A = 1..n /\ A[n] \in Nat
  BY <1>0 DEF Exact
<1>2. last_index(l) = A[n] /\ (IsAvailable(l, i) <=> \E k \in 1..n : A[k] = i)
  BY <1>1 DEF last_index, IsAvailable
<1>6. Len(A) = n /\ Increasing(A, n)
  BY <1>0 DEF Exact, Increasing
<1>3. CASE AlreadySet(l, i)
  <2>1. i \in D
    BY <1>0, <1>1, <1>2, <1>3 DEF AlreadySet, Exact
  <2>2. QED
    BY <2>1, <1>3 DEF set_entry
<1>4. CASE ~AlreadySet(l, i)
  <2>1. i \notin D
    BY <1>0, <1>1, <1>2, <1>4 DEF AlreadySet, Exact
  <2>2. new.log = insert(l.log, i, e) /\ DOMAIN new.log = D \cup {i}
    BY <1>4 DEF set_entry, insert
  <2>3. new.available_indices =
            IF i < A[n] THEN erase(A, i)
            ELSE IF i = A[n] THEN Append(erase(A, i), i + 1)
            ELSE pushBeyond(A, A[n], i)
    BY <1>2, <1>4 DEF set_entry
  <2> DEFINE B == new.available_indices
  <2>4. \E m : B \in [1..m -> Nat] /\ Exact(B, m, D \cup {i})
    <3>1. CASE i < A[n]
      <4>1. PICK p \in 1..n : A[p] = i
        BY <3>1, <1>1, <1>2, <1>4 DEF AlreadySet
      <4>2. p < n
        BY <3>1, <4>1, <1>1
      <4>3. B = Drop(A, n, p)
        <5>1. erase(A, A[p]) = Drop(A, n, p)
          <6> HIDE DEF A, n
          <6> QED BY <1>1, <1>6, EraseFacts
        <5>2. QED
          BY <5>1, <4>1, <3>1, <2>3
      <4> HIDE DEF A, n, D, B
      <4>4. Exact(B, n - 1, D \cup {i})
        BY <4>1, <4>2, <4>3, <1>0, ExactBelow
      <4>5. QED
        BY <4>4 DEF Exact
    <3>2. CASE i = A[n]
      <4> DEFINE C == [k \in 1..(n - 1) |-> A[k]]
                 E == [k \in 1..n |-> IF k < n THEN A[k] ELSE A[n] + 1]
      <4>1. erase(A, i) = C
        <5>1. erase(A, A[n]) = Drop(A, n, n)
          <6> HIDE DEF A, n
          <6>1. n \in 1..n
            BY <1>1
          <6>2. QED
            BY <6>1, <1>1, <1>6, EraseFacts
        <5>2. Drop(A, n, n) = C
          <6> HIDE DEF A, n
          <6> QED BY <1>1 DEF Drop
        <5>3. QED
          BY <5>1, <5>2, <3>2
      <4>2. C \in [1..(n - 1) -> Nat] /\ n - 1 \in Nat
        BY <1>1
      <4>3. C \in Seq(Nat) /\ Len(C) = n - 1
        <5> HIDE DEF C
        <5> QED BY <4>2, Constructed
      <4>4. E \in [1..n -> Nat]
        BY <1>1
      <4>5. E \in Seq(Nat) /\ Len(E) = n
        <5> HIDE DEF E
        <5> QED BY <4>4, <1>1, Constructed
      <4> DEFINE F == Append(C, i + 1)
      <4>6. F \in Seq(Nat) /\ Len(F) = n /\ F[n] = i + 1 /\ \A k \in 1..(n - 1) : F[k] = C[k]
        <5> HIDE DEF C
        <5> QED BY <4>3, <1>1
      <4>7. \A k \in 1..n : F[k] = E[k]
        <5> SUFFICES ASSUME NEW k \in 1..n PROVE F[k] = E[k]
          OBVIOUS
        <5> HIDE DEF F, A, n
        <5>1. CASE k < n
          <6>1. k \in 1..(n - 1)
            BY <5>1, <1>1
          <6>2. QED
            BY <6>1, <5>1, <4>6
        <5>2. CASE k = n
          BY <5>2, <4>6, <3>2, <1>1
        <5>3. QED
          BY <5>1, <5>2, <1>1
      <4>8. F = E
        <5> HIDE DEF F, E
        <5> QED BY <4>5, <4>6, <4>7, SeqEqual
      <4>9. B = E
        <5> HIDE DEF C, E
        <5> QED BY <4>1, <4>8, <2>3, <3>2, <1>1
      <4> HIDE DEF A, n, D, B, F, C
      <4>10. Exact(B, n, D \cup {i})
        BY <4>9, <3>2, <1>0, ExactAtLast
      <4>11. QED
        BY <4>10 DEF Exact
    <3>3. CASE i > A[n]
      <4>1. B = pushBeyond(A, A[n], i)
        BY <2>3, <3>3, <1>1
      <4> HIDE DEF A, n, D, B
      <4>2. Exact(B, n + i - A[n], D \cup {i})
        BY <4>1, <3>3, <1>0, <1>6, ExactBeyond
      <4>3. QED
        BY <4>2 DEF Exact
    <3>4. i < A[n] \/ i = A[n] \/ i > A[n]
      BY <1>1
    <3>5. QED
      BY <3>1, <3>2, <3>3, <3>4
  <2>5. GoodLog(new)
    <3>1. PICK m : B \in [1..m -> Nat] /\ Exact(B, m, D \cup {i})
      BY <2>4
    <3>2. m \in Nat
      BY <3>1 DEF Exact
    <3> HIDE DEF B
    <3>3. B \in Seq(Nat) /\ Len(B) = m
      BY <3>1, <3>2, Constructed
    <3>4. QED
      BY <3>1, <3>3, <2>2 DEF GoodLog, B
  <2>6. QED
    BY <2>1, <2>2, <2>5
<1>5. QED
  BY <1>3, <1>4

\* The first available index is the first hole.
LEMMA FirstHole ==
    ASSUME NEW l, GoodLog(l)
    PROVE  /\ next_available_index(l) \in Nat
           /\ next_available_index(l) \notin DOMAIN l.log
           /\ \A k \in 0..(next_available_index(l) - 1) : k \in DOMAIN l.log
<1> DEFINE A == l.available_indices
           n == Len(A)
           D == DOMAIN l.log
<1>1. Exact(A, n, D) /\ next_available_index(l) = A[1]
  BY DEF GoodLog, next_available_index
<1> HIDE DEF A, n, D
<1>2. n \in Nat /\ 1 \in 1..n /\ n \in 1..n /\ A \in [1..n -> Nat] /\ A[1] \in Nat
  BY <1>1 DEF Exact
<1>3. \A k \in 1..n : A[1] <= A[k]
  <2> SUFFICES ASSUME NEW k \in 1..n PROVE A[1] <= A[k]
    OBVIOUS
  <2>1. CASE k = 1
    BY <2>1, <1>2
  <2>2. CASE 1 < k
    <3>1. A[1] < A[k] /\ A[k] \in Nat
      BY <2>2, <1>1, <1>2 DEF Exact
    <3>2. QED
      BY <3>1, <1>2
  <2>3. QED
    BY <2>1, <2>2, <1>2
<1>4. A[1] <= A[n] /\ A[n] \in Nat
  BY <1>2, <1>3
<1>5. A[1] \notin D
  BY <1>1, <1>2, <1>4 DEF Exact
<1>6. ASSUME NEW k \in 0..(A[1] - 1) PROVE k \in D
  <2>1. k \in 0..A[n]
    BY <1>2, <1>4
  <2>2. \A j \in 1..n : A[j] # k
    <3> SUFFICES ASSUME NEW j \in 1..n PROVE A[j] # k
      OBVIOUS
    <3>1. A[1] <= A[j] /\ A[j] \in Nat
      BY <1>2, <1>3
    <3>2. QED
      BY <3>1, <1>2
  <2>3. QED
    BY <2>1, <2>2, <1>1 DEF Exact
<1>7. QED
  BY <1>1, <1>2, <1>5, <1>6 DEF D

\* The entries of a log from f up to g are as S says.
EntriesIn(log, f, g, S) == \A k \in f..(g - 1) : <<k, log[k]>> \in S

\* Two states of a log with their first available indices, the later with more of the
\* prefix.
Advances(old, new, f, g) ==
    f \in Nat /\ g \in Nat /\ f = next_available_index(old) /\ g = next_available_index(new) /\ f <= g

\* The calls c of the callbacks are for the entries from f up to g.
CallsFor(c, log, f, g, S) ==
    /\ c \in Seq(S) /\ Len(c) = g - f
    /\ \A k \in 1..(g - f) : c[k] = <<f + k - 1, log[f + k - 1]>>

\* The callbacks between two states of a log.
LEMMA CallbackFacts ==
    ASSUME NEW old, NEW new, NEW S, NEW f, NEW g, Advances(old, new, f, g), EntriesIn(new.log, f, g, S)
    PROVE  CallsFor(callbacks(old, new), new.log, f, g, S)
<1> DEFINE c == callbacks(old, new)
<1>0. f \in Nat /\ g \in Nat /\ f = next_available_index(old) /\ g = next_available_index(new) /\ f <= g
  BY DEF Advances
<1>1. c = [k \in 1..(g - f) |-> <<f + k - 1, new.log[f + k - 1]>>]
  BY <1>0 DEF callbacks
<1>2. g - f \in Nat
  BY <1>0
<1>3. \A k \in 1..(g - f) : f + k - 1 \in f..(g - 1)
  BY <1>0
<1>4. \A k \in 1..(g - f) : <<f + k - 1, new.log[f + k - 1]>> \in S
  BY <1>0, <1>3 DEF EntriesIn
<1>5. c \in [1..(g - f) -> S]
  BY <1>1, <1>4
<1> HIDE DEF c
<1>6. c \in Seq(S) /\ Len(c) = g - f
  BY <1>2, <1>5, Constructed
<1>7. QED
  BY <1>1, <1>6 DEF c, CallsFor

-----------------------------------------------------------------------------
(* The inductive invariant.                                                *)

LogInv ==
    /\ DOMAIN pl.log \subseteq Index
    /\ \A i \in DOMAIN pl.log : pl.log[i] \in Entry
    /\ pl.log = [i \in DOMAIN pl.log |-> pl.log[i]]
    /\ GoodLog(pl)
    /\ applied \in Seq(Index \X Entry)
    /\ AppliedIsPrefix

\* An empty log satisfies the invariant.
LEMMA LogInit == Init => LogInv
<1> SUFFICES ASSUME Init PROVE LogInv
  OBVIOUS
<1>1. pl.available_indices = <<0>> /\ DOMAIN pl.log = {} /\ applied = << >>
  BY DEF Init, EmptyLog
<1>2. Len(<<0>>) = 1 /\ <<0>>[1] = 0 /\ <<0>> \in Seq(Nat) /\ <<0>> \in [1..1 -> Nat]
  OBVIOUS
<1>3. GoodLog(pl)
  BY <1>1, <1>2 DEF GoodLog, Exact
<1>4. AppliedIsPrefix
  BY <1>1, <1>2 DEF AppliedIsPrefix, next_available_index
<1>5. QED
  BY <1>1, <1>3, <1>4 DEF LogInv, Init, EmptyLog

\* What one call of set_entry does to a good log and to the derived state.
LEMMA SetEntryStep ==
    ASSUME LogInv, NEW i \in Index, NEW e \in Entry, SetEntry(i, e)
    PROVE  /\ LogInv'
           /\ \/ UNCHANGED vars
              \/ /\ i \notin DOMAIN pl.log
                 /\ pl'.log = insert(pl.log, i, e)
                 /\ Len(applied) <= Len(applied')
                 /\ \A k \in 1..Len(applied) : applied'[k] = applied[k]
<1> DEFINE f == next_available_index(pl)
           g == next_available_index(pl')
           D == DOMAIN pl.log
           S == Index \X Entry
<1>0. i \in Nat /\ \A k \in Index : k \in Nat
  BY MaxIndexAssumption DEF Index
<1>1. pl' = set_entry(pl, i, e) /\ applied' = applied \o callbacks(pl, pl')
  BY DEF SetEntry
<1>2. GoodLog(pl)
  BY DEF LogInv
<1>3. /\ f \in Nat /\ f \notin D /\ \A k \in 0..(f - 1) : k \in D
      /\ Len(applied) = f
  BY FirstHole DEF LogInv, AppliedIsPrefix
<1>4. \A k \in 1..f : applied[k] = <<k - 1, pl.log[k - 1]>>
  BY <1>3 DEF LogInv, AppliedIsPrefix
<1>5. CASE pl' = pl
  <2>1. callbacks(pl, pl') \in Seq(S) /\ Len(callbacks(pl, pl')) = 0
    <3>1. EntriesIn(pl'.log, f, f, S) /\ f - f = 0 /\ Advances(pl, pl', f, f)
      BY <1>3, <1>5 DEF EntriesIn, Advances
    <3> HIDE DEF S, f
    <3>2. CallsFor(callbacks(pl, pl'), pl'.log, f, f, S)
      BY <3>1, CallbackFacts
    <3>3. QED
      BY <3>1, <3>2 DEF CallsFor
  <2>2. callbacks(pl, pl') = << >>
    BY <2>1
  <2>3. applied' = applied
    BY <1>1, <2>2, ConcatEmptySeq DEF LogInv
  <2>4. QED
    BY <1>5, <2>3 DEF LogInv, AppliedIsPrefix, vars
<1>6. CASE /\ i \notin D
           /\ pl'.log = insert(pl.log, i, e)
           /\ GoodLog(pl')
  <2>1. /\ DOMAIN pl'.log = D \cup {i}
        /\ \A k \in D : pl'.log[k] = pl.log[k]
        /\ pl'.log[i] = e
        /\ pl'.log = [k \in DOMAIN pl'.log |-> pl'.log[k]]
    BY <1>6 DEF insert
  <2>2. \A k \in D \cup {i} : pl'.log[k] \in Entry /\ k \in Index
    BY <2>1 DEF LogInv
  <2>3. g \in Nat /\ g \notin D \cup {i} /\ \A k \in 0..(g - 1) : k \in D \cup {i}
    <3>1. /\ g \in Nat /\ g \notin DOMAIN pl'.log
          /\ \A k \in 0..(g - 1) : k \in DOMAIN pl'.log
      BY <1>6, FirstHole
    <3>2. QED
      BY <3>1, <2>1
  <2>4. f <= g
    BY <1>3, <2>3
  <2>5. \A k \in f..(g - 1) : <<k, pl'.log[k]>> \in S
    <3> SUFFICES ASSUME NEW k \in f..(g - 1) PROVE <<k, pl'.log[k]>> \in S
      OBVIOUS
    <3>1. k \in 0..(g - 1)
      BY <1>3, <2>3
    <3>2. k \in D \cup {i}
      BY <3>1, <2>3
    <3>3. QED
      BY <3>2, <2>2
  <2> DEFINE c == callbacks(pl, pl')
  <2>6. /\ c \in Seq(S) /\ Len(c) = g - f
        /\ \A k \in 1..(g - f) : c[k] = <<f + k - 1, pl'.log[f + k - 1]>>
    <3>1. EntriesIn(pl'.log, f, g, S)
      BY <2>5 DEF EntriesIn
    <3>2. Advances(pl, pl', f, g)
      BY <1>3, <2>3, <2>4 DEF Advances
    <3> HIDE DEF S, f, g
    <3>3. CallsFor(callbacks(pl, pl'), pl'.log, f, g, S)
      BY <3>1, <3>2, CallbackFacts
    <3> QED BY <3>3 DEF CallsFor
  <2> HIDE DEF c, S, f, g
  <2>7. /\ applied' \in Seq(S) /\ Len(applied') = g
        /\ \A k \in 1..g : applied'[k] = IF k <= f THEN applied[k] ELSE c[k - f]
    <3>1. applied \in Seq(S)
      BY DEF LogInv, S
    <3>2. applied' = applied \o c
      BY <1>1 DEF c
    <3>c. c \in Seq(S)
      BY <2>6
    <3>d. /\ applied \o c \in Seq(S)
          /\ Len(applied \o c) = Len(applied) + Len(c)
          /\ \A k \in 1..(Len(applied) + Len(c)) :
                 (applied \o c)[k] = IF k <= Len(applied) THEN applied[k]
                                     ELSE c[k - Len(applied)]
      BY <3>1, <3>c, ConcatProperties
    <3>e. Len(applied) = f /\ Len(c) = g - f
      BY <1>3, <2>6
    <3>3. /\ applied \o c \in Seq(S)
          /\ Len(applied \o c) = f + (g - f)
          /\ \A k \in 1..(f + (g - f)) :
                 (applied \o c)[k] = IF k <= f THEN applied[k] ELSE c[k - f]
      BY <3>d, <3>e
    <3>4. f + (g - f) = g
      BY <1>3, <2>3
    <3>5. QED
      BY <3>2, <3>3, <3>4
  <2>8. \A k \in 1..g : k - 1 \in D \cup {i} /\ applied'[k] = <<k - 1, pl'.log[k - 1]>>
    <3> SUFFICES ASSUME NEW k \in 1..g
                 PROVE  k - 1 \in D \cup {i} /\ applied'[k] = <<k - 1, pl'.log[k - 1]>>
      OBVIOUS
    <3>1. k - 1 \in 0..(g - 1)
      BY <2>3
    <3>2. CASE k <= f
      <4>1. k \in 1..f /\ k - 1 \in 0..(f - 1)
        BY <3>2, <1>3, <2>3
      <4>2. applied'[k] = applied[k] /\ applied[k] = <<k - 1, pl.log[k - 1]>>
        BY <4>1, <3>2, <2>7, <1>4
      <4>3. k - 1 \in D
        BY <4>1, <1>3
      <4>4. QED
        BY <4>2, <4>3, <2>1
    <3>3. CASE k > f
      <4>1. k - f \in 1..(g - f) /\ f + (k - f) - 1 = k - 1 /\ ~(k <= f)
        BY <3>3, <1>3, <2>3
      <4>2. applied'[k] = c[k - f]
        BY <4>1, <2>7
      <4>3. c[k - f] = <<f + (k - f) - 1, pl'.log[f + (k - f) - 1]>>
        BY <4>1, <2>6
      <4>4. QED
        BY <4>1, <4>2, <4>3, <3>1, <2>3
    <3>4. QED
      BY <3>2, <3>3, <1>3, <2>3
  <2>9. AppliedIsPrefix'
    BY <2>1, <2>7, <2>8 DEF AppliedIsPrefix, g
  <2>10. LogInv'
    BY <1>6, <2>1, <2>2, <2>7, <2>9 DEF LogInv, S
  <2>11. /\ Len(applied) <= Len(applied')
         /\ \A k \in 1..Len(applied) : applied'[k] = applied[k]
    BY <1>3, <2>3, <2>4, <2>7
  <2>12. QED
    BY <1>6, <2>10, <2>11
<1>7. QED
  BY <1>0, <1>1, <1>2, <1>5, <1>6, SetEntryFacts DEF LogInv

\* LogInv is inductive: every step of the log is a call of set_entry.
LEMMA LogStep == LogInv /\ [Next]_vars => LogInv'
<1> SUFFICES ASSUME LogInv, [Next]_vars PROVE LogInv'
  OBVIOUS
<1>1. ASSUME NEW i \in Index, NEW e \in Entry, SetEntry(i, e) PROVE LogInv'
  BY <1>1, SetEntryStep
<1>2. CASE UNCHANGED vars
  BY <1>2 DEF vars, LogInv, AppliedIsPrefix
<1>3. QED
  BY <1>1, <1>2 DEF Next

\* The invariant gives each of the checked properties.
LEMMA LogInvImplies == LogInv => TypeOK /\ AvailableIndicesExact /\ AppliedIsPrefix
<1> SUFFICES ASSUME LogInv PROVE TypeOK /\ AvailableIndicesExact /\ AppliedIsPrefix
  OBVIOUS
<1> DEFINE A == pl.available_indices
           n == Len(A)
           D == DOMAIN pl.log
<1>1. Exact(A, n, D) /\ A \in Seq(Nat)
  BY DEF LogInv, GoodLog
<1>2. n \in Nat /\ n > 0 /\ A \in [1..n -> Nat] /\ DOMAIN A = 1..n /\ A[n] \in Nat
  BY <1>1 DEF Exact
<1>3. last_index(pl) = A[n] /\ \A i : IsAvailable(pl, i) <=> \E k \in 1..n : A[k] = i
  BY <1>2 DEF last_index, IsAvailable
<1>4. AvailableIndicesExact
  BY <1>1, <1>2, <1>3 DEF AvailableIndicesExact, Exact
<1>5. A \in Seq(0..(MaxIndex + 1))
  <2>1. A[n] \in 0..(MaxIndex + 1)
    <3>1. CASE A[n] = 0
      BY <3>1, MaxIndexAssumption
    <3>2. CASE A[n] > 0
      <4>1. A[n] - 1 \in 0..MaxIndex
        BY <3>2, <1>1 DEF Exact, LogInv, Index
      <4>2. QED
        BY <4>1, <1>2, MaxIndexAssumption
    <3>3. QED
      BY <3>1, <3>2, <1>2
  <2>2. \A k \in 1..n : A[k] \in Nat /\ A[k] <= A[n]
    <3> SUFFICES ASSUME NEW k \in 1..n PROVE A[k] \in Nat /\ A[k] <= A[n]
      OBVIOUS
    <3>1. A[k] \in Nat
      BY <1>2
    <3>2. CASE k = n
      BY <3>1, <3>2, <1>2
    <3>3. CASE k < n
      <4>1. n \in 1..n
        BY <1>2
      <4>2. A[k] < A[n]
        BY <4>1, <3>3, <1>1 DEF Exact
      <4>3. QED
        BY <4>2, <3>1, <1>2
    <3>4. QED
      BY <3>2, <3>3, <1>2
  <2>3. \A k \in 1..n : A[k] \in 0..(MaxIndex + 1)
    BY <2>1, <2>2, <1>2, MaxIndexAssumption
  <2>4. A \in [1..n -> 0..(MaxIndex + 1)]
    BY <2>3, <1>2
  <2> HIDE DEF A, n
  <2>5. QED
    BY <2>4, <1>2, Constructed
<1>6. TypeOK
  BY <1>5 DEF LogInv, TypeOK
<1>7. QED
  BY <1>4, <1>6 DEF LogInv

\* Whatever order set_entry is called in, and whatever is called twice, the log's
\* fields and the callback history keep their types.
THEOREM TypeCorrect == Spec => []TypeOK
<1>1. QED
  BY LogInit, LogStep, LogInvImplies, PTL DEF Spec

\* The comment on _available_indices holds in every state of the log.
THEOREM IndicesExact == Spec => []AvailableIndicesExact
<1>1. QED
  BY LogInit, LogStep, LogInvImplies, PTL DEF Spec

\* The callbacks of set_entry give every entry of the hole-free prefix to the derived
\* state, once each and in order.
THEOREM PrefixApplied == Spec => []AppliedIsPrefix
<1>1. QED
  BY LogInit, LogStep, LogInvImplies, PTL DEF Spec

\* The first state of the log maps to the first state of the abstract one.
LEMMA RefinesInit == Init => Abstract!Init
BY DEF Init, EmptyLog, Abstract!Init

\* A call of set_entry maps to a write of the abstract log, or to no step at all when
\* the index already has an entry.
LEMMA RefinesStep == LogInv /\ [Next]_vars => [Abstract!Next]_(Abstract!vars)
<1> SUFFICES ASSUME LogInv, [Next]_vars PROVE [Abstract!Next]_(Abstract!vars)
  OBVIOUS
<1>1. ASSUME NEW i \in Index, NEW e \in Entry, SetEntry(i, e)
      PROVE  [Abstract!Next]_(Abstract!vars)
  <2>1. CASE UNCHANGED vars
    BY <2>1 DEF vars, Abstract!vars
  <2>2. CASE /\ i \notin DOMAIN pl.log
             /\ pl'.log = insert(pl.log, i, e)
             /\ Len(applied) <= Len(applied')
             /\ \A k \in 1..Len(applied) : applied'[k] = applied[k]
    <3>1. /\ DOMAIN pl'.log = DOMAIN pl.log \cup {i}
          /\ pl'.log[i] = e
          /\ \A k \in DOMAIN pl.log : pl'.log[k] = pl.log[k]
      BY <2>2 DEF insert
    <3>2. LogInv'
      BY <1>1, SetEntryStep
    <3>3. GoodLog(pl') /\ AppliedIsPrefix'
      BY <3>2 DEF LogInv
    <3>4. next_available_index(pl') \notin DOMAIN pl'.log
      BY <3>3, FirstHole
    <3>5. Abstract!IsPrefixOf(applied', pl'.log)
      BY <3>3, <3>4 DEF AppliedIsPrefix, Abstract!IsPrefixOf
    <3>6. Abstract!Write(i, e)
      BY <2>2, <3>1, <3>5 DEF Abstract!Write
    <3>7. QED
      BY <3>6 DEF Abstract!Next, Abstract!Index, Index
  <2>3. QED
    BY <1>1, <2>1, <2>2, SetEntryStep
<1>2. CASE UNCHANGED vars
  BY <1>2 DEF vars, Abstract!vars
<1>3. QED
  BY <1>1, <1>2 DEF Next

\* The PaxosLog implements the write-once log applied in order, for any set of entries
\* and any bound on the indices.
THEOREM Implements == Spec => ImplementsAppliedLog
<1>1. QED
  BY LogInit, LogStep, RefinesInit, RefinesStep, PTL
     DEF Spec, ImplementsAppliedLog, Abstract!Spec

-----------------------------------------------------------------------------
(* LogSyncer: the arrays of a request.                                     *)

ArrayState == [done : Seq(Nat \X Nat), cur : Nat \X Nat]

\* One round of the loop of build_sync_request.
NextArray(avail, st, i) ==
    IF avail[i] + 1 = avail[i + 1]
    THEN [done |-> st.done, cur |-> <<st.cur[1], st.cur[2] + 1>>]
    ELSE [done |-> Append(st.done, st.cur), cur |-> <<avail[i + 1], avail[i + 1]>>]

ArrayIteration(f, avail) ==
    [i \in 0..(Len(avail) - 1) |->
        IF i = 0 THEN [done |-> << >>, cur |-> <<avail[1], avail[1]>>]
        ELSE LET done == f[i - 1].done
                 cur == f[i - 1].cur
             IN IF avail[i] + 1 = avail[i + 1]
                THEN [done |-> done, cur |-> <<cur[1], cur[2] + 1>>]
                ELSE [done |-> Append(done, cur), cur |-> <<avail[i + 1], avail[i + 1]>>]]

\* The rounds stay in the set of states.
LEMMA NextArrayType ==
    ASSUME NEW a1 \in Nat, NEW a2 \in Nat, NEW avail, NEW i, avail[i] = a1, avail[i + 1] = a2,
           NEW st \in ArrayState
    PROVE  NextArray(avail, st, i) \in ArrayState
<1>1. /\ st.done \in Seq(Nat \X Nat) /\ st.cur \in Nat \X Nat
      /\ st.cur[1] \in Nat /\ st.cur[2] \in Nat
  BY DEF ArrayState
<1>2. Append(st.done, st.cur) \in Seq(Nat \X Nat) /\ <<st.cur[1], st.cur[2] + 1>> \in Nat \X Nat
      /\ <<a2, a2>> \in Nat \X Nat
  BY <1>1
<1>3. QED
  BY <1>1, <1>2 DEF NextArray, ArrayState

\* The function that subarrays chooses exists.
LEMMA ArrayIterationExists ==
    ASSUME NEW avail \in Seq(Nat), Len(avail) > 0
    PROVE  \E f : f = ArrayIteration(f, avail)
<1> DEFINE n == Len(avail) - 1
           base == [done |-> << >>, cur |-> <<avail[1], avail[1]>>]
           g == [i \in 1..n |-> [st \in ArrayState |-> NextArray(avail, st, i)]]
<1>1. n \in Nat /\ avail[1] \in Nat /\ \A i \in 1..n : avail[i] \in Nat /\ avail[i + 1] \in Nat
  OBVIOUS
<1>2. base \in ArrayState
  <2>1. << >> \in Seq(Nat \X Nat) /\ <<avail[1], avail[1]>> \in Nat \X Nat
    BY <1>1
  <2> QED BY <2>1 DEF ArrayState
<1>3. g \in Steps(ArrayState, n)
  <2>1. \A i \in 1..n, st \in ArrayState : NextArray(avail, st, i) \in ArrayState
    BY <1>1, NextArrayType
  <2> QED BY <2>1 DEF Steps
<1>4. \A st \in ArrayState, i \in 1..n : g[i][st] = NextArray(avail, st, i)
  OBVIOUS
<1>5. n \in Nat
  BY <1>1
<1> HIDE DEF g, n, base
<1>6. PICK f \in [0..n -> ArrayState] : f[0] = base /\ \A i \in 1..n : f[i] = g[i][f[i - 1]]
  <2>1. \E f : Solution(f, ArrayState, base, n, g)
    BY <1>2, <1>3, <1>5, Recursion
  <2> QED BY <2>1 DEF Solution
<1> DEFINE h == ArrayIteration(f, avail)
<1>7. h = [i \in 0..n |-> h[i]]
  BY DEF ArrayIteration, n
<1>8. \A i \in 0..n : f[i] = h[i]
  <2> SUFFICES ASSUME NEW i \in 0..n PROVE f[i] = h[i]
    OBVIOUS
  <2>1. CASE i = 0
    BY <1>6, <2>1 DEF ArrayIteration, base, n
  <2>2. CASE i # 0
    <3>1. i \in 1..n /\ i - 1 \in 0..n
      BY <1>5, <2>2
    <3>2. f[i] = NextArray(avail, f[i - 1], i)
      BY <1>4, <1>6, <3>1
    <3>3. h[i] = NextArray(avail, f[i - 1], i)
      BY <2>2 DEF ArrayIteration, NextArray, n
    <3> QED BY <3>2, <3>3
  <2>3. QED
    BY <2>1, <2>2
<1> HIDE DEF h
<1>9. f = h
  BY <1>6, <1>7, <1>8
<1>10. QED
  BY <1>9 DEF h

\* x is in one of the arrays a.
Covers(a, x) == \E k \in 1..Len(a) : a[k][1] <= x /\ x <= a[k][2]

\* No two arrays touch.
Apart(a) == \A k \in 1..(Len(a) - 1) : a[k][2] + 1 < a[k + 1][1]

\* The arrays for the first m indices of the vector.
Describes(a, avail, m) ==
    /\ a \in Seq(Nat \X Nat) /\ Len(a) > 0
    /\ a[Len(a)][1] <= a[Len(a)][2] /\ a[Len(a)][2] = avail[m]
    /\ \A x \in Nat : Covers(a, x) <=> \E j \in 1..m : avail[j] = x
    /\ Apart(a)

\* What one more array adds.
LEMMA CoversAppend ==
    ASSUME NEW d \in Seq(Nat \X Nat), NEW c \in Nat \X Nat
    PROVE  /\ Append(d, c) \in Seq(Nat \X Nat) /\ Len(Append(d, c)) = Len(d) + 1
           /\ Append(d, c)[Len(d) + 1] = c /\ Len(d) \in Nat
           /\ \A k \in 1..Len(d) : Append(d, c)[k] = d[k]
           /\ \A x : Covers(Append(d, c), x) <=> Covers(d, x) \/ (c[1] <= x /\ x <= c[2])
           /\ Apart(Append(d, c)) <=> Apart(d) /\ (Len(d) > 0 => d[Len(d)][2] + 1 < c[1])
<1> DEFINE a == Append(d, c)
           n == Len(d)
<1>1. a \in Seq(Nat \X Nat) /\ Len(a) = n + 1 /\ a[n + 1] = c /\ n \in Nat /\ \A k \in 1..n : a[k] = d[k]
  OBVIOUS
<1> HIDE DEF a
<1>2. \A k : k \in 1..(n + 1) <=> k \in 1..n \/ k = n + 1
  BY <1>1
<1>3. ASSUME NEW x PROVE Covers(a, x) <=> Covers(d, x) \/ (c[1] <= x /\ x <= c[2])
  BY <1>1, <1>2 DEF Covers
<1>4. Apart(a) <=> Apart(d) /\ (n > 0 => d[n][2] + 1 < c[1])
  <2> HIDE DEF n
  <2>1. Apart(a) <=> \A k \in 1..n : a[k][2] + 1 < a[k + 1][1]
    <3>1. Len(a) - 1 = n
      BY <1>1
    <3> QED BY <3>1 DEF Apart
  <2>2. ASSUME Apart(a) PROVE Apart(d) /\ (n > 0 => d[n][2] + 1 < c[1])
    <3>1. ASSUME NEW k \in 1..(n - 1) PROVE d[k][2] + 1 < d[k + 1][1]
      <4>0. n \in Nat
        BY <1>1
      <4>1. k \in 1..n /\ k + 1 \in 1..n
        BY <4>0
      <4>2. a[k][2] + 1 < a[k + 1][1]
        BY <2>1, <2>2, <4>1
      <4>3. a[k] = d[k] /\ a[k + 1] = d[k + 1]
        BY <1>1, <4>1
      <4> QED BY <4>2, <4>3
    <3>2. n > 0 => n \in 1..n
      BY <1>1
    <3> QED BY <1>1, <2>1, <2>2, <3>1, <3>2 DEF Apart, n
  <2>3. ASSUME Apart(d), n > 0 => d[n][2] + 1 < c[1] PROVE Apart(a)
    <3> SUFFICES ASSUME NEW k \in 1..n PROVE a[k][2] + 1 < a[k + 1][1]
      BY <2>1
    <3>1. CASE k = n
      BY <1>1, <2>3, <3>1
    <3>2. CASE k # n
      <4>1. k \in 1..(n - 1) /\ k + 1 \in 1..n
        BY <1>1, <3>2
      <4>2. d[k][2] + 1 < d[k + 1][1]
        BY <2>3, <4>1 DEF Apart, n
      <4> QED BY <1>1, <4>1, <4>2
    <3> QED BY <3>1, <3>2
  <2> QED BY <2>2, <2>3
<1>5. QED
  BY <1>1, <1>3, <1>4 DEF a

\* The arrays after one more round.
LEMMA DescribesNext ==
    ASSUME NEW avail, NEW n \in Nat, avail \in [1..n -> Nat], Increasing(avail, n), NEW i \in 1..(n - 1),
           NEW st \in ArrayState, Describes(Append(st.done, st.cur), avail, i)
    PROVE  LET new == NextArray(avail, st, i) IN Describes(Append(new.done, new.cur), avail, i + 1)
<1> DEFINE d == st.done
           s == st.cur[1]
           e == st.cur[2]
           v == avail[i + 1]
           a == Append(d, st.cur)
           l == Len(d)
<1>1. d \in Seq(Nat \X Nat) /\ st.cur \in Nat \X Nat /\ st.cur = <<s, e>> /\ s \in Nat /\ e \in Nat /\ l \in Nat
  BY DEF ArrayState
<1>2. /\ i \in 1..n /\ i + 1 \in 1..n /\ avail[i] \in Nat /\ v \in Nat /\ avail[i] < v
  BY DEF Increasing
<1> HIDE DEF v
<1>3. /\ Len(a) = l + 1 /\ a[l + 1] = st.cur
      /\ \A x : Covers(a, x) <=> Covers(d, x) \/ (s <= x /\ x <= e)
      /\ Apart(a) <=> Apart(d) /\ (l > 0 => d[l][2] + 1 < s)
  BY <1>1, CoversAppend
<1>4. s <= e /\ e = avail[i] /\ (\A x \in Nat : Covers(a, x) <=> \E j \in 1..i : avail[j] = x) /\ Apart(a)
  <2>1. a[l + 1][1] <= a[l + 1][2] /\ a[l + 1][2] = avail[i]
    BY <1>3 DEF Describes
  <2> QED BY <1>3, <2>1 DEF Describes
<1>5. \A x : (\E j \in 1..(i + 1) : avail[j] = x) <=> (\E j \in 1..i : avail[j] = x) \/ v = x
  <2>1. \A j : j \in 1..(i + 1) <=> j \in 1..i \/ j = i + 1
    OBVIOUS
  <2> QED BY <2>1 DEF v
<1>6. CASE avail[i] + 1 = v
  <2> DEFINE c == <<s, e + 1>>
             b == Append(d, c)
  <2>1. c \in Nat \X Nat /\ c[1] = s /\ c[2] = e + 1
    BY <1>1
  <2>2. NextArray(avail, st, i).done = d /\ NextArray(avail, st, i).cur = c
    BY <1>6 DEF NextArray, v
  <2> HIDE DEF c
  <2>3. /\ b \in Seq(Nat \X Nat) /\ Len(b) = l + 1 /\ b[l + 1] = c
        /\ \A x : Covers(b, x) <=> Covers(d, x) \/ (c[1] <= x /\ x <= c[2])
        /\ Apart(b) <=> Apart(d) /\ (l > 0 => d[l][2] + 1 < c[1])
    BY <1>1, <2>1, CoversAppend
  <2> HIDE DEF a, b
  <2>4. Apart(b)
    BY <1>3, <1>4, <2>1, <2>3
  <2>5. ASSUME NEW x \in Nat PROVE Covers(b, x) <=> \E j \in 1..(i + 1) : avail[j] = x
    <3>1. Covers(b, x) <=> Covers(a, x) \/ x = v
      <4>1. (s <= x /\ x <= e + 1) <=> (s <= x /\ x <= e) \/ x = e + 1
        BY <1>1, <1>4
      <4>2. e + 1 = v
        BY <1>4, <1>6
      <4>3. Covers(b, x) <=> Covers(d, x) \/ (s <= x /\ x <= e + 1)
        BY <2>1, <2>3
      <4>4. Covers(a, x) <=> Covers(d, x) \/ (s <= x /\ x <= e)
        BY <1>3
      <4> HIDE DEF s, e
      <4> QED BY <4>1, <4>2, <4>3, <4>4
    <3>2. Covers(a, x) <=> \E j \in 1..i : avail[j] = x
      BY <1>4
    <3> QED BY <1>5, <3>1, <3>2
  <2>6. b[Len(b)] = c /\ Len(b) > 0
    BY <1>1, <2>3
  <2>7. c[1] <= c[2] /\ c[2] = avail[i + 1]
    BY <1>1, <1>4, <1>6, <2>1 DEF v
  <2>8. Describes(b, avail, i + 1)
    BY <2>3, <2>4, <2>5, <2>6, <2>7 DEF Describes
  <2> QED BY <2>2, <2>8 DEF b
<1>7. CASE avail[i] + 1 # v
  <2> DEFINE c == <<v, v>>
             b == Append(a, c)
  <2>1. c \in Nat \X Nat /\ c[1] = v /\ c[2] = v
    BY <1>2
  <2>2. NextArray(avail, st, i).done = a /\ NextArray(avail, st, i).cur = c
    BY <1>7 DEF NextArray, v
  <2>3. a \in Seq(Nat \X Nat)
    BY <1>1
  <2> HIDE DEF c, a
  <2>4. /\ b \in Seq(Nat \X Nat) /\ Len(b) = Len(a) + 1 /\ b[Len(a) + 1] = c
        /\ \A x : Covers(b, x) <=> Covers(a, x) \/ (c[1] <= x /\ x <= c[2])
        /\ Apart(b) <=> Apart(a) /\ (Len(a) > 0 => a[Len(a)][2] + 1 < c[1])
    BY <2>1, <2>3, CoversAppend
  <2> HIDE DEF b
  <2>5. Apart(b)
    <3>1. a[Len(a)][2] = e
      BY <1>1, <1>3
    <3>2. e + 1 < v
      BY <1>1, <1>2, <1>4, <1>7
    <3> QED BY <1>4, <2>1, <2>4, <3>1, <3>2
  <2>6. ASSUME NEW x \in Nat PROVE Covers(b, x) <=> \E j \in 1..(i + 1) : avail[j] = x
    <3>1. Covers(b, x) <=> Covers(a, x) \/ x = v
      BY <1>2, <2>1, <2>4
    <3>2. Covers(a, x) <=> \E j \in 1..i : avail[j] = x
      BY <1>4
    <3> QED BY <1>5, <3>1, <3>2
  <2>7. b[Len(b)] = c /\ Len(b) > 0
    BY <1>1, <1>3, <2>4
  <2>8. c[1] <= c[2] /\ c[2] = avail[i + 1]
    BY <1>2, <2>1 DEF v
  <2>9. Describes(b, avail, i + 1)
    BY <2>4, <2>5, <2>6, <2>7, <2>8 DEF Describes
  <2> QED BY <2>2, <2>9 DEF b, a
<1>8. QED
  BY <1>6, <1>7

\* The arrays of a request cover the vector and do not touch.
LEMMA SubarraysDescribe ==
    ASSUME NEW avail \in Seq(Nat), Len(avail) > 0, Increasing(avail, Len(avail))
    PROVE  Describes(subarrays(avail), avail, Len(avail))
<1> DEFINE F == CHOOSE f : f = ArrayIteration(f, avail)
           n == Len(avail)
<1>1. F = ArrayIteration(F, avail)
  BY ArrayIterationExists
<1>2. subarrays(avail) = Append(F[Len(avail) - 1].done, F[Len(avail) - 1].cur)
  BY Zenon DEF subarrays, ArrayIteration
<1> HIDE DEF F
<1>3. n \in Nat /\ n > 0 /\ avail \in [1..n -> Nat] /\ Increasing(avail, n) /\ n - 1 \in Nat /\ avail[1] \in Nat
  OBVIOUS
<1>4. F[0] = [done |-> << >>, cur |-> <<avail[1], avail[1]>>]
  <2>1. ArrayIteration(F, avail)[0] = [done |-> << >>, cur |-> <<avail[1], avail[1]>>]
    BY <1>3 DEF ArrayIteration
  <2> QED BY <1>1, <2>1
<1>5. \A i \in 1..(n - 1) : F[i] = NextArray(avail, F[i - 1], i)
  <2>1. \A i \in 1..(n - 1) : ArrayIteration(F, avail)[i] = NextArray(avail, F[i - 1], i)
    BY DEF ArrayIteration, NextArray
  <2> QED BY <1>1, <2>1
<1> HIDE DEF n
<1> DEFINE D(st) == Append(st.done, st.cur)
           G == {i \in 0..(n - 1) : F[i] \in ArrayState /\ Describes(D(F[i]), avail, i + 1)}
<1>6. 0 \in G
  <2> DEFINE c == <<avail[1], avail[1]>>
             d == << >>
             a == Append(d, c)
  <2>1. c \in Nat \X Nat /\ c[1] = avail[1] /\ c[2] = avail[1] /\ d \in Seq(Nat \X Nat) /\ Len(d) = 0
    BY <1>3
  <2>2. F[0].done = d /\ F[0].cur = c /\ F[0] \in ArrayState
    BY <1>4, <2>1 DEF ArrayState
  <2> HIDE DEF c, d
  <2>3. /\ a \in Seq(Nat \X Nat) /\ Len(a) = Len(d) + 1 /\ a[Len(d) + 1] = c
        /\ \A x : Covers(a, x) <=> Covers(d, x) \/ (c[1] <= x /\ x <= c[2])
        /\ Apart(a) <=> Apart(d) /\ (Len(d) > 0 => d[Len(d)][2] + 1 < c[1])
    BY <2>1, CoversAppend
  <2>4. (\A x : ~Covers(d, x)) /\ Apart(d)
    BY <2>1 DEF Covers, Apart
  <2> HIDE DEF a
  <2>5. Len(a) = 1 /\ a[1] = c /\ Apart(a)
    BY <2>1, <2>3, <2>4
  <2>6. ASSUME NEW x \in Nat PROVE Covers(a, x) <=> \E j \in 1..1 : avail[j] = x
    <3>1. Covers(a, x) <=> avail[1] = x
      BY <1>3, <2>1, <2>3, <2>4
    <3>2. \A j : j \in 1..1 <=> j = 1
      OBVIOUS
    <3> QED BY <3>1, <3>2
  <2>7. Describes(a, avail, 0 + 1)
    <3>1. c[1] <= c[2]
      BY <1>3, <2>1
    <3> QED BY <2>1, <2>3, <2>5, <2>6, <3>1 DEF Describes
  <2>8. D(F[0]) = a
    BY <2>2 DEF a
  <2> HIDE DEF D
  <2> QED BY <1>3, <2>2, <2>7, <2>8
<1>7. ASSUME NEW i \in 1..(n - 1), i - 1 \in G PROVE i \in G
  <2>1. F[i - 1] \in ArrayState /\ Describes(D(F[i - 1]), avail, i - 1 + 1) /\ i - 1 + 1 = i
    BY <1>7
  <2>2. PICK st \in ArrayState : st = F[i - 1]
    BY <2>1
  <2>3. Describes(Append(st.done, st.cur), avail, i)
    BY <2>1, <2>2
  <2> DEFINE new == NextArray(avail, st, i)
  <2>4. Describes(Append(new.done, new.cur), avail, i + 1)
    BY <1>3, <2>3, DescribesNext
  <2>5. new \in ArrayState
    <3>1. avail[i] \in Nat /\ avail[i + 1] \in Nat
      BY <1>3
    <3> QED BY <3>1, NextArrayType
  <2>6. F[i] = new
    BY <1>5, <2>2
  <2> HIDE DEF new
  <2>7. i \in 0..(n - 1)
    BY <1>3
  <2> QED BY <2>4, <2>5, <2>6, <2>7
<1> HIDE DEF G
<1>8. n - 1 \in G
  <2> DEFINE k == n - 1
  <2>1. k \in Nat /\ \A i \in 1..k : i - 1 \in G => i \in G
    BY <1>3, <1>7
  <2> HIDE DEF k
  <2>2. \A i \in 0..k : i \in G
    BY <1>6, <2>1, Induction
  <2>3. k \in 0..k
    BY <2>1
  <2> QED BY <2>2, <2>3 DEF k
<1>9. Describes(D(F[n - 1]), avail, n - 1 + 1) /\ n - 1 + 1 = n
  BY <1>3, <1>8 DEF G
<1>10. QED
  BY <1>2, <1>9 DEF n

-----------------------------------------------------------------------------
(* LogSyncer: responses.                                                   *)

\* An entry with its index, as it was decided.
SyncedEntry == {<<i, Decided(i)>> : i \in Index}

\* A log that holds what was decided.
SyncedLog(l) ==
    /\ GoodLog(l) /\ DOMAIN l.log \subseteq Index
    /\ \A i \in DOMAIN l.log : l.log[i] = Decided(i)

ResponseIteration(f, l, indices) ==
    [i \in 0..next_available_index(l) |->
        IF i = 0 THEN << >>
        ELSE IF i - 1 \in indices THEN Append(f[i - 1], <<i - 1, l.log[i - 1]>>)
        ELSE f[i - 1]]

\* The function that build_sync_response chooses exists.
LEMMA ResponseIterationExists ==
    ASSUME NEW l, SyncedLog(l), NEW indices \in SUBSET DOMAIN l.log
    PROVE  \E f : f = ResponseIteration(f, l, indices)
<1> DEFINE n == next_available_index(l)
           S == Seq(SyncedEntry)
           base == << >>
           Step(s, i) == IF i - 1 \in indices THEN Append(s, <<i - 1, l.log[i - 1]>>) ELSE s
           g == [i \in 1..n |-> [s \in S |-> Step(s, i)]]
<1>1. n \in Nat /\ base \in S
  BY FirstHole DEF SyncedLog
<1>2. ASSUME NEW i \in 1..n, NEW s \in S PROVE Step(s, i) \in S
  <2>1. CASE i - 1 \in indices
    <3>1. <<i - 1, l.log[i - 1]>> \in SyncedEntry
      BY <2>1 DEF SyncedLog, SyncedEntry
    <3> QED BY <2>1, <3>1
  <2>2. CASE i - 1 \notin indices
    BY <2>2
  <2> QED BY <2>1, <2>2
<1> HIDE DEF Step, S, base, n
<1>3. g \in Steps(S, n)
  BY <1>2 DEF Steps
<1>4. \A s \in S, i \in 1..n : g[i][s] = Step(s, i)
  OBVIOUS
<1> HIDE DEF g
<1>5. PICK f \in [0..n -> S] : f[0] = base /\ \A i \in 1..n : f[i] = g[i][f[i - 1]]
  <2>1. \E f : Solution(f, S, base, n, g)
    BY <1>1, <1>3, Recursion
  <2> QED BY <2>1 DEF Solution
<1> DEFINE h == ResponseIteration(f, l, indices)
<1>6. h = [i \in 0..n |-> h[i]]
  BY DEF ResponseIteration, n
<1>7. \A i \in 0..n : f[i] = h[i]
  <2> SUFFICES ASSUME NEW i \in 0..n PROVE f[i] = h[i]
    OBVIOUS
  <2>1. CASE i = 0
    BY <1>5, <2>1 DEF ResponseIteration, base, n
  <2>2. CASE i # 0
    <3>1. i \in 1..n /\ i - 1 \in 0..n
      BY <1>1, <2>2
    <3>2. f[i] = Step(f[i - 1], i)
      BY <1>4, <1>5, <3>1
    <3> QED BY <2>2, <3>2 DEF ResponseIteration, Step, n
  <2> QED BY <2>1, <2>2
<1> HIDE DEF h
<1>8. f = h
  BY <1>5, <1>6, <1>7
<1>9. QED
  BY <1>8 DEF h

\* A response has entries that its sender has, under their indices.
LEMMA ResponseType ==
    ASSUME NEW l, SyncedLog(l), NEW request
    PROVE  build_sync_response(l, request) \in Seq(SyncedEntry)
<1> DEFINE indices == (Holes(l, request) \cup Extra(l, request)) \cap DOMAIN l.log
           n == next_available_index(l)
           F == CHOOSE f : f = ResponseIteration(f, l, indices)
<1>1. indices \in SUBSET DOMAIN l.log
  OBVIOUS
<1>2. build_sync_response(l, request) = F[next_available_index(l)]
  BY Zenon DEF build_sync_response, ResponseIteration
<1> HIDE DEF indices
<1>3. F = ResponseIteration(F, l, indices)
  BY <1>1, ResponseIterationExists
<1> HIDE DEF F
<1>4. n \in Nat
  BY FirstHole DEF SyncedLog
<1>5. F[0] = << >>
  <2>1. ResponseIteration(F, l, indices)[0] = << >>
    BY <1>4 DEF ResponseIteration
  <2> QED BY <1>3, <2>1
<1>6. \A i \in 1..n : F[i] = IF i - 1 \in indices THEN Append(F[i - 1], <<i - 1, l.log[i - 1]>>) ELSE F[i - 1]
  <2>1. \A i \in 1..n : ResponseIteration(F, l, indices)[i] =
            IF i - 1 \in indices THEN Append(F[i - 1], <<i - 1, l.log[i - 1]>>) ELSE F[i - 1]
    BY DEF ResponseIteration
  <2> QED BY <1>3, <2>1
<1> HIDE DEF n
<1> DEFINE G == {i \in 0..n : F[i] \in Seq(SyncedEntry)}
<1>7. 0 \in G
  <2>1. << >> \in Seq(SyncedEntry) /\ 0 \in 0..n
    BY <1>4
  <2> QED BY <1>5, <2>1
<1>8. ASSUME NEW i \in 1..n, i - 1 \in G PROVE i \in G
  <2> DEFINE x == <<i - 1, l.log[i - 1]>>
             s == F[i - 1]
  <2>1. s \in Seq(SyncedEntry) /\ i \in 0..n
    BY <1>4, <1>8
  <2>2. i - 1 \in indices => x \in SyncedEntry
    BY <1>1 DEF SyncedLog, SyncedEntry
  <2>3. (F[i] = Append(s, x) /\ i - 1 \in indices) \/ F[i] = s
    BY <1>6
  <2> HIDE DEF x, s
  <2>4. F[i] \in Seq(SyncedEntry)
    BY <2>1, <2>2, <2>3
  <2> QED BY <2>1, <2>4
<1> HIDE DEF G
<1>9. n \in G
  <2>1. \A i \in 0..n : i \in G
    BY <1>4, <1>7, <1>8, Induction
  <2> QED BY <1>4, <2>1
<1>10. QED
  BY <1>2, <1>9 DEF G, n

-----------------------------------------------------------------------------
(* LogSyncer: taking a response.                                           *)

\* The logs that hold what was decided, as a set.
SyncedLogs ==
    {l \in [log : UNION {[D -> {Decided(i) : i \in Index}] : D \in SUBSET Index},
            available_indices : Seq(Nat)] : SyncedLog(l)}

LogIteration(f, l, entries) ==
    [k \in 0..Len(entries) |->
        IF k = 0 THEN l ELSE set_entry(f[k - 1], entries[k][1], entries[k][2])]

\* set_entry with a decided entry keeps the log.
LEMMA SetDecided ==
    ASSUME NEW l \in SyncedLogs, NEW e \in SyncedEntry
    PROVE  set_entry(l, e[1], e[2]) \in SyncedLogs
<1>1. PICK i \in Index : e = <<i, Decided(i)>>
  BY DEF SyncedEntry
<1> DEFINE x == Decided(i)
           X == {Decided(j) : j \in Index}
           new == set_entry(l, i, x)
<1>2. e[1] = i /\ e[2] = x /\ i \in Nat /\ x \in X
  BY <1>1, MaxIndexAssumption DEF Index
<1>3. SyncedLog(l) /\ GoodLog(l)
  BY DEF SyncedLogs, SyncedLog
<1> HIDE DEF x
<1>4. CASE new = l
  BY <1>2, <1>4
<1>5. CASE new # l
  <2>1. i \notin DOMAIN l.log /\ new.log = insert(l.log, i, x) /\ GoodLog(new)
    BY <1>2, <1>3, <1>5, SetEntryFacts
  <2>2. new = [log |-> new.log, available_indices |-> new.available_indices]
    BY <1>5 DEF set_entry
  <2> HIDE DEF new
  <2>3. DOMAIN new.log = DOMAIN l.log \cup {i} /\ \A j \in DOMAIN l.log : new.log[j] = l.log[j]
    BY <2>1 DEF insert
  <2>4. new.log[i] = x /\ new.log = [j \in DOMAIN new.log |-> new.log[j]]
    BY <2>1 DEF insert
  <2>5. SyncedLog(new)
    BY <1>3, <2>1, <2>3, <2>4 DEF SyncedLog, x
  <2>6. new.log \in [DOMAIN new.log -> X] /\ DOMAIN new.log \in SUBSET Index
    <3>1. \A j \in DOMAIN new.log : j \in Index /\ new.log[j] = Decided(j)
      BY <2>5 DEF SyncedLog
    <3>2. \A j \in DOMAIN new.log : new.log[j] \in X
      BY <3>1
    <3> QED BY <2>4, <3>1, <3>2
  <2>7. new.available_indices \in Seq(Nat)
    BY <2>1 DEF GoodLog
  <2>8. new.log \in UNION {[D -> X] : D \in SUBSET Index}
    BY <2>6
  <2>9. new \in SyncedLogs
    <3> HIDE DEF X
    <3>1. [log |-> new.log, available_indices |-> new.available_indices]
              \in [log : UNION {[D -> X] : D \in SUBSET Index}, available_indices : Seq(Nat)]
      BY <2>7, <2>8
    <3>2. new \in [log : UNION {[D -> X] : D \in SUBSET Index}, available_indices : Seq(Nat)]
      BY <2>2, <3>1
    <3> QED BY <2>5, <3>2 DEF SyncedLogs, X
  <2> QED BY <1>2, <2>9 DEF new
<1>6. QED
  BY <1>4, <1>5

\* The function that set_entries chooses exists.
LEMMA LogIterationExists ==
    ASSUME NEW l \in SyncedLogs, NEW entries \in Seq(SyncedEntry)
    PROVE  \E f : f = LogIteration(f, l, entries)
<1> DEFINE n == Len(entries)
           g == [k \in 1..n |-> [s \in SyncedLogs |-> set_entry(s, entries[k][1], entries[k][2])]]
<1>1. n \in Nat /\ \A k \in 1..n : entries[k] \in SyncedEntry
  OBVIOUS
<1>2. n \in Nat
  OBVIOUS
<1> HIDE DEF n
<1>3. g \in Steps(SyncedLogs, n)
  <2>1. \A k \in 1..n, s \in SyncedLogs : set_entry(s, entries[k][1], entries[k][2]) \in SyncedLogs
    BY <1>1, SetDecided
  <2> QED BY <2>1 DEF Steps
<1>4. \A s \in SyncedLogs, k \in 1..n : g[k][s] = set_entry(s, entries[k][1], entries[k][2])
  OBVIOUS
<1> HIDE DEF g
<1>5. PICK f \in [0..n -> SyncedLogs] : f[0] = l /\ \A k \in 1..n : f[k] = g[k][f[k - 1]]
  <2>1. \E f : Solution(f, SyncedLogs, l, n, g)
    BY <1>2, <1>3, Recursion
  <2> QED BY <2>1 DEF Solution
<1> DEFINE h == LogIteration(f, l, entries)
<1>6. h = [k \in 0..n |-> h[k]]
  BY DEF LogIteration, n
<1>7. \A k \in 0..n : f[k] = h[k]
  <2> SUFFICES ASSUME NEW k \in 0..n PROVE f[k] = h[k]
    OBVIOUS
  <2>1. CASE k = 0
    BY <1>5, <2>1 DEF LogIteration, n
  <2>2. CASE k # 0
    <3>1. k \in 1..n /\ k - 1 \in 0..n
      BY <1>2, <2>2
    <3>2. f[k] = set_entry(f[k - 1], entries[k][1], entries[k][2])
      BY <1>4, <1>5, <3>1
    <3> QED BY <2>2, <3>2 DEF LogIteration, n
  <2> QED BY <2>1, <2>2
<1> HIDE DEF h
<1>8. f = h
  BY <1>5, <1>6, <1>7
<1>9. QED
  BY <1>8 DEF h

\* A log that takes a response holds what was decided.
LEMMA SetEntriesKeeps ==
    ASSUME NEW l \in SyncedLogs, NEW entries \in Seq(SyncedEntry)
    PROVE  set_entries(l, entries) \in SyncedLogs
<1> DEFINE F == CHOOSE f : f = LogIteration(f, l, entries)
           n == Len(entries)
<1>1. F = LogIteration(F, l, entries)
  BY LogIterationExists
<1>2. set_entries(l, entries) = F[Len(entries)]
  BY Zenon DEF set_entries, LogIteration
<1> HIDE DEF F
<1>3. n \in Nat /\ \A k \in 1..n : entries[k] \in SyncedEntry
  OBVIOUS
<1>4. F[0] = l
  <2>1. LogIteration(F, l, entries)[0] = l
    BY <1>3 DEF LogIteration
  <2> QED BY <1>1, <2>1
<1>5. \A k \in 1..n : F[k] = set_entry(F[k - 1], entries[k][1], entries[k][2])
  <2>1. \A k \in 1..n : LogIteration(F, l, entries)[k] = set_entry(F[k - 1], entries[k][1], entries[k][2])
    BY DEF LogIteration
  <2> QED BY <1>1, <2>1
<1> HIDE DEF n
<1> DEFINE G == {k \in 0..n : F[k] \in SyncedLogs}
<1>6. 0 \in G
  BY <1>3, <1>4
<1>7. ASSUME NEW k \in 1..n, k - 1 \in G PROVE k \in G
  <2>1. F[k - 1] \in SyncedLogs /\ entries[k] \in SyncedEntry /\ k \in 0..n
    BY <1>3, <1>7
  <2>2. F[k] \in SyncedLogs
    BY <1>5, <2>1, SetDecided
  <2> QED BY <2>1, <2>2
<1> HIDE DEF G
<1>8. n \in G
  <2>0. n \in Nat
    BY <1>3
  <2>1. \A k \in 0..n : k \in G
    BY <1>6, <1>7, <2>0, Induction
  <2> QED BY <2>0, <2>1
<1>9. QED
  BY <1>2, <1>8 DEF G, n

-----------------------------------------------------------------------------
(* LogSyncer: the inductive invariant.                                     *)

SyncInv ==
    /\ paxos_log \in [Node -> SyncedLogs]
    /\ \A m \in msgs : m.type = "response" => m.missing_entries \in Seq(SyncedEntry)

\* The logs start empty.
LEMMA SyncInitInv == SyncInit => SyncInv
<1> DEFINE log == [i \in {} |-> 0]
           A == <<0>>
           X == {Decided(j) : j \in Index}
<1>1. EmptyLog = [log |-> log, available_indices |-> A]
  BY DEF EmptyLog
<1>2. A \in Seq(Nat) /\ Len(A) = 1 /\ A[1] = 0 /\ A \in [1..1 -> Nat]
  OBVIOUS
<1>3. DOMAIN log = {} /\ log \in [{} -> X]
  OBVIOUS
<1>4. log \in UNION {[D -> X] : D \in SUBSET Index}
  BY <1>3
<1> HIDE DEF log, A
<1>5. EmptyLog.log = log /\ EmptyLog.available_indices = A
  BY <1>1
<1>6. SyncedLog(EmptyLog)
  <2>1. Exact(A, 1, {})
    BY <1>2 DEF Exact
  <2> QED BY <1>2, <1>3, <1>5, <2>1 DEF SyncedLog, GoodLog
<1> HIDE DEF X
<1>7. EmptyLog \in SyncedLogs
  <2>1. EmptyLog \in [log : UNION {[D -> X] : D \in SUBSET Index}, available_indices : Seq(Nat)]
    BY <1>1, <1>2, <1>4
  <2> QED BY <1>6, <2>1 DEF SyncedLogs, X
<1>8. QED
  BY <1>7 DEF SyncInit, SyncInv

\* Every step keeps the logs and the responses as decided.
LEMMA SyncStep == SyncInv /\ [SyncNext]_syncVars => SyncInv'
<1> SUFFICES ASSUME SyncInv, [SyncNext]_syncVars PROVE SyncInv'
  OBVIOUS
<1>0. /\ paxos_log \in [Node -> SyncedLogs]
      /\ \A m \in msgs : m.type = "response" => m.missing_entries \in Seq(SyncedEntry)
  BY DEF SyncInv
<1>1. ASSUME NEW n \in Node, NEW i \in Index, Learn(n, i) PROVE SyncInv'
  <2> DEFINE e == <<i, Decided(i)>>
             new == set_entry(paxos_log[n], i, Decided(i))
  <2>1. e \in SyncedEntry /\ e[1] = i /\ e[2] = Decided(i) /\ paxos_log[n] \in SyncedLogs
    BY <1>0 DEF SyncedEntry
  <2> HIDE DEF e
  <2>2. set_entry(paxos_log[n], e[1], e[2]) \in SyncedLogs
    BY <2>1, SetDecided
  <2>3. new \in SyncedLogs
    BY <2>1, <2>2
  <2>4. paxos_log' = [paxos_log EXCEPT ![n] = new] /\ msgs' = msgs
    BY <1>1 DEF Learn
  <2> HIDE DEF new
  <2> QED BY <1>0, <2>3, <2>4 DEF SyncInv
<1>2. ASSUME NEW n \in Node, Sync(n) PROVE SyncInv'
  BY <1>0, <1>2 DEF Sync, SyncInv
<1>3. ASSUME NEW m \in msgs, m.syncer \in Node, m.peer \in Node, HandleSyncRequest(m) PROVE SyncInv'
  <2> DEFINE r == build_sync_response(paxos_log[m.peer], m.request)
             x == [type |-> "response", syncer |-> m.syncer, peer |-> m.peer, missing_entries |-> r]
  <2>1. SyncedLog(paxos_log[m.peer])
    BY <1>0, <1>3 DEF SyncedLogs
  <2>2. r \in Seq(SyncedEntry)
    BY <2>1, ResponseType
  <2>3. msgs' = (msgs \ {m}) \cup {x} /\ paxos_log' = paxos_log
    BY <1>3 DEF HandleSyncRequest
  <2> HIDE DEF r
  <2> QED BY <1>0, <2>2, <2>3 DEF SyncInv
<1>4. ASSUME NEW m \in msgs, m.syncer \in Node, HandleSyncResponse(m) PROVE SyncInv'
  <2> DEFINE new == set_entries(paxos_log[m.syncer], m.missing_entries)
  <2>1. paxos_log[m.syncer] \in SyncedLogs /\ m.missing_entries \in Seq(SyncedEntry)
    BY <1>0, <1>4 DEF HandleSyncResponse
  <2>2. new \in SyncedLogs
    BY <2>1, SetEntriesKeeps
  <2>3. paxos_log' = [paxos_log EXCEPT ![m.syncer] = new] /\ msgs' = msgs \ {m}
    BY <1>4 DEF HandleSyncResponse
  <2> HIDE DEF new
  <2> QED BY <1>0, <1>4, <2>2, <2>3 DEF SyncInv
<1>5. ASSUME NEW m \in msgs, Lose(m) PROVE SyncInv'
  BY <1>0, <1>5 DEF Lose, SyncInv
<1>6. CASE UNCHANGED syncVars
  BY <1>0, <1>6 DEF syncVars, SyncInv
<1>7. QED
  BY <1>1, <1>2, <1>3, <1>4, <1>5, <1>6 DEF SyncNext, Deliver

\* Entries reach other nodes under the index they were decided for, whatever messages are
\* lost and in whatever order requests, responses and learn messages interleave: for any
\* number of nodes and indices.
THEOREM EntriesKeepTheirIndex == SyncSpec => []SyncedEntriesAreDecided
<1>1. SyncInv => SyncedEntriesAreDecided
  BY DEF SyncInv, SyncedLogs, SyncedLog, SyncedEntry, SyncedEntriesAreDecided
<1>2. QED
  BY <1>1, SyncInitInv, SyncStep, PTL DEF SyncSpec

\* The arrays that build_sync_request makes of the vector are exactly the holes.
LEMMA RequestIsExact ==
    ASSUME NEW l, GoodLog(l)
    PROVE  LET request == build_sync_request(l)
               arrays == request.missing_indices
           IN /\ UNION {arrays[k][1]..arrays[k][2] : k \in DOMAIN arrays}
                     = (0..request.last_index) \ DOMAIN l.log
              /\ \A k \in 1..(Len(arrays) - 1) : arrays[k][2] + 1 < arrays[k + 1][1]
<1> DEFINE A == l.available_indices
           n == Len(A)
           D == DOMAIN l.log
           a == subarrays(A)
           U == UNION {a[k][1]..a[k][2] : k \in DOMAIN a}
<1>1. build_sync_request(l).missing_indices = a /\ build_sync_request(l).last_index = A[n]
  BY DEF build_sync_request, last_index
<1>2. A \in Seq(Nat) /\ Exact(A, n, D)
  BY DEF GoodLog
<1>3. n \in Nat /\ n > 0 /\ A \in [1..n -> Nat] /\ Increasing(A, n)
  BY <1>2 DEF Exact, Increasing
<1>4. Describes(a, A, n)
  <2> HIDE DEF A
  <2> QED BY <1>2, <1>3, SubarraysDescribe
<1> HIDE DEF A, n, D, a
<1>5. a \in Seq(Nat \X Nat) /\ (\A x \in Nat : Covers(a, x) <=> \E j \in 1..n : A[j] = x) /\ Apart(a)
  BY <1>4 DEF Describes
<1>6. DOMAIN a = 1..Len(a) /\ \A k \in 1..Len(a) : a[k][1] \in Nat /\ a[k][2] \in Nat
  BY <1>5
<1>7. \A x : x \in U <=> x \in Nat /\ Covers(a, x)
  BY <1>6 DEF Covers
<1>8. \A x : x \in (0..A[n]) \ D <=> x \in Nat /\ \E j \in 1..n : A[j] = x
  <2>1. A[n] \in Nat /\ \A i \in 0..A[n] : (\E k \in 1..n : A[k] = i) <=> i \notin D
    BY <1>2, <1>3 DEF Exact
  <2>2. \A j \in 1..n : A[j] \in Nat /\ A[j] <= A[n]
    <3> SUFFICES ASSUME NEW j \in 1..n PROVE A[j] \in Nat /\ A[j] <= A[n]
      OBVIOUS
    <3>1. j = n \/ j < n
      BY <1>3
    <3>2. n \in 1..n /\ A[j] \in Nat
      BY <1>3
    <3> QED BY <1>3, <2>1, <3>1, <3>2 DEF Increasing
  <2> QED BY <2>1, <2>2
<1>9. U = (0..A[n]) \ D
  <2> HIDE DEF U
  <2> QED BY <1>5, <1>7, <1>8
<1>10. \A k \in 1..(Len(a) - 1) : a[k][2] + 1 < a[k + 1][1]
  BY <1>5 DEF Apart
<1>11. QED
  BY <1>1, <1>9, <1>10 DEF D

\* A request describes the holes of its sender's log exactly and with as few arrays as
\* possible, in every state that entries, learnt or synced, can bring the log to.
THEOREM RequestsDescribeHoles == SyncSpec => []RequestDescribesHoles
<1>1. SyncInv => RequestDescribesHoles
  <2> SUFFICES ASSUME SyncInv, NEW n \in Node
               PROVE  LET request == build_sync_request(paxos_log[n])
                          arrays == request.missing_indices
                      IN /\ UNION {arrays[k][1]..arrays[k][2] : k \in DOMAIN arrays}
                                = (0..request.last_index) \ DOMAIN paxos_log[n].log
                         /\ \A k \in 1..(Len(arrays) - 1) : arrays[k][2] + 1 < arrays[k + 1][1]
    BY Zenon DEF RequestDescribesHoles
  <2>1. GoodLog(paxos_log[n])
    BY DEF SyncInv, SyncedLogs, SyncedLog
  <2> QED BY <2>1, RequestIsExact, Zenon
<1>2. QED
  BY <1>1, SyncInitInv, SyncStep, PTL DEF SyncSpec
=============================================================================
