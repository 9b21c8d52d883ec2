----------------------------- MODULE OrderLemmas -----------------------------
(***************************************************************************)
(* What the proofs of several modules need of numbers, of folds over       *)
(* sequences and of finite orders.  Induction is done on sets: a set that  *)
(* has 0, and each number up to n whose predecessor it has, has all of     *)
(* them (UpTo).                                                            *)
(***************************************************************************)
EXTENDS Integers, Sequences, FiniteSets, SequencesExt, Ranking,
        FiniteSetTheorems, FunctionTheorems, WellFoundedInduction, TLAPS
-----------------------------------------------------------------------------
(* Numbers *)

\* A non-empty set of naturals has a least element.
LEMMA LeastNat ==
  ASSUME NEW T \in SUBSET Nat, T # {}
  PROVE  \E n \in T : \A m \in T : n <= m
<1>1. PICK n \in T : \A m \in T : ~ (<<m, n>> \in OpToRel(<, Nat))
  BY NatLessThanWellFounded, WFMin
<1>2. \A m \in T : <<m, n>> \in OpToRel(<, Nat) <=> m < n
  BY DEF OpToRel
<1>3. \A m \in T : n \in Nat /\ m \in Nat /\ ~ (m < n)
  BY <1>1, <1>2
<1>4. \A m \in T : n <= m
  BY <1>3
<1> QED BY <1>4

\* What holds of 0 and of each number up to n if of the one before holds of all.
LEMMA UpTo ==
  ASSUME NEW n \in Nat, NEW T, 0 \in T, \A i \in 1..n : i - 1 \in T => i \in T
  PROVE  \A i \in 0..n : i \in T
<1> DEFINE Bad == {i \in 0..n : i \notin T}
<1> SUFFICES ASSUME Bad # {} PROVE FALSE
  OBVIOUS
<1>1. PICK i \in Bad : \A m \in Bad : i <= m
  <2>1. Bad \in SUBSET Nat
    OBVIOUS
  <2> QED BY <2>1, LeastNat
<1>2. i # 0 /\ i \in 1..n /\ i - 1 \in 0..n
  BY <1>1
<1>3. i - 1 \in T
  BY <1>1, <1>2
<1> QED BY <1>1, <1>2, <1>3

\* Max is an element of a non-empty set of positions, and none is above it.
LEMMA MaxIsThere ==
  ASSUME NEW n \in Nat, NEW s \in SUBSET (1..n), s # {}
  PROVE  Max(s) \in s /\ \A y \in s : y <= Max(s)
<1> DEFINE T == {n - x : x \in s}
<1>0. \A x \in s : x \in Nat /\ x <= n /\ n - x \in Nat
  OBVIOUS
<1>1. T \in SUBSET Nat /\ T # {}
  BY <1>0
<1>2. PICK t \in T : \A m \in T : t <= m
  BY <1>1, LeastNat
<1>3. PICK x \in s : t = n - x
  BY <1>2
<1>4. \A y \in s : y <= x
  <2>1. \A y \in s : n - x <= n - y
    BY <1>2, <1>3
  <2> QED BY <1>0, <2>1
<1>5. \A y \in s : x >= y
  BY <1>0, <1>4
<1>6. Max(s) \in s /\ \A y \in s : Max(s) >= y
  BY <1>5 DEF Max
<1> QED BY <1>0, <1>6

\* The last of the numbers up to n is n.
LEMMA LastOfPrefix ==
  ASSUME NEW n \in Nat \ {0}
  PROVE  Max(1..n) = n /\ (1..n) \ {Max(1..n)} = 1..n - 1
<1>1. PICK m : m = Max(1..n)
  OBVIOUS
<1>2. m \in 1..n /\ \A y \in 1..n : y <= m
  <2>1. 1..n \in SUBSET (1..n) /\ 1..n # {}
    OBVIOUS
  <2> QED BY <1>1, <2>1, MaxIsThere
<1>3. m = n
  BY <1>2
<1> QED BY <1>1, <1>3

-----------------------------------------------------------------------------
(* Folds *)

\* A fold goes through the sets of positions, as FoldLeft does.
Folds(L, F, first, seq, h) ==
  /\ h \in [SUBSET (DOMAIN seq) -> L]
  /\ \A s \in SUBSET (DOMAIN seq) :
       h[s] = IF s = {} THEN first ELSE F[h[s \ {Max(s)}]][seq[Max(s)]]

\* Every fold over a sequence is defined.
LEMMA FoldExists ==
  ASSUME NEW L, NEW A, NEW F \in [L -> [A -> L]], NEW first \in L, NEW seq \in Seq(A)
  PROVE  \E h : Folds(L, F, first, seq, h)
<1> DEFINE FoldsTo(h, n) ==
      /\ h \in [SUBSET (1..n) -> L]
      /\ h = [s \in SUBSET (1..n) |->
                IF s = {} THEN first ELSE F[h[s \ {Max(s)}]][seq[Max(s)]]]
    T == {n \in 0..Len(seq) : \E h : FoldsTo(h, n)}
<1>0. Len(seq) \in Nat /\ DOMAIN seq = 1..Len(seq) /\ \A i \in 1..Len(seq) : seq[i] \in A
  OBVIOUS
<1>1. 0 \in T
  <2> DEFINE h == [s \in SUBSET (1..0) |-> first]
  <2>1. \A s \in SUBSET (1..0) : s = {}
    OBVIOUS
  <2>2. h \in [SUBSET (1..0) -> L]
    OBVIOUS
  <2>3. h = [s \in SUBSET (1..0) |->
               IF s = {} THEN first ELSE F[h[s \ {Max(s)}]][seq[Max(s)]]]
    BY <2>1
  <2> HIDE DEF h
  <2>4. FoldsTo(h, 0)
    BY <2>2, <2>3
  <2> HIDE DEF FoldsTo
  <2>5. \E k : FoldsTo(k, 0)
    BY <2>4
  <2> QED BY <1>0, <2>5
<1>2. ASSUME NEW n \in 1..Len(seq), n - 1 \in T PROVE n \in T
  <2>1. PICK h : FoldsTo(h, n - 1)
    BY <1>2
  <2> DEFINE k == [s \in SUBSET (1..n) |->
                     IF s = {} THEN first ELSE F[h[s \ {Max(s)}]][seq[Max(s)]]]
  <2>2. ASSUME NEW s \in SUBSET (1..n), s # {}
        PROVE  Max(s) \in 1..n /\ s \ {Max(s)} \in SUBSET (1..n - 1)
    <3>1. n \in Nat
      BY <1>0
    <3>2. Max(s) \in s /\ \A y \in s : y <= Max(s)
      BY <3>1, <2>2, MaxIsThere
    <3>3. PICK m : m = Max(s)
      OBVIOUS
    <3>4. m \in s /\ \A y \in s : y <= m
      BY <3>2, <3>3
    <3>5. m \in 1..n /\ \A y \in s \ {m} : y \in 1..n - 1
      BY <3>1, <3>4
    <3> QED BY <3>3, <3>5
  <2>3. ASSUME NEW t \in SUBSET (1..n - 1) PROVE k[t] = h[t]
    <3>1. t \in SUBSET (1..n)
      BY <1>0
    <3>2. k[t] = IF t = {} THEN first ELSE F[h[t \ {Max(t)}]][seq[Max(t)]]
      BY <3>1
    <3>3. h[t] = IF t = {} THEN first ELSE F[h[t \ {Max(t)}]][seq[Max(t)]]
      BY <2>1
    <3> QED BY <3>2, <3>3
  <2>4. ASSUME NEW s \in SUBSET (1..n)
        PROVE  /\ k[s] \in L
               /\ k[s] = IF s = {} THEN first ELSE F[k[s \ {Max(s)}]][seq[Max(s)]]
    <3>1. CASE s = {}
      BY <3>1
    <3>2. CASE s # {}
      <4>1. Max(s) \in 1..n /\ s \ {Max(s)} \in SUBSET (1..n - 1)
        BY <2>2, <3>2
      <4>2. seq[Max(s)] \in A
        BY <1>0, <4>1
      <4>3. h[s \ {Max(s)}] \in L
        BY <2>1, <4>1
      <4>4. k[s] = F[h[s \ {Max(s)}]][seq[Max(s)]]
        BY <3>2
      <4>5. k[s \ {Max(s)}] = h[s \ {Max(s)}]
        BY <2>3, <4>1
      <4> HIDE DEF k
      <4>6. k[s] \in L
        BY <4>2, <4>3, <4>4
      <4> QED BY <3>2, <4>4, <4>5, <4>6
    <3> QED BY <3>1, <3>2
  <2>5. FoldsTo(k, n)
    <3>1. k = [s \in SUBSET (1..n) |-> k[s]]
      OBVIOUS
    <3> HIDE DEF k
    <3>2. k \in [SUBSET (1..n) -> L]
      BY <2>4, <3>1
    <3>3. k = [s \in SUBSET (1..n) |->
                 IF s = {} THEN first ELSE F[k[s \ {Max(s)}]][seq[Max(s)]]]
      BY <2>4, <3>1
    <3> QED BY <3>2, <3>3
  <2>6. n \in 0..Len(seq)
    BY <1>0
  <2> QED BY <2>5, <2>6
<1>3. Len(seq) \in T
  <2> HIDE DEF T
  <2>1. \A i \in 0..Len(seq) : i \in T
    BY <1>0, <1>1, <1>2, UpTo
  <2> QED BY <1>0, <2>1
<1>4. PICK h : FoldsTo(h, Len(seq))
  BY <1>3
<1>5. Folds(L, F, first, seq, h)
  BY <1>0, <1>4 DEF Folds
<1> QED BY <1>5
-----------------------------------------------------------------------------
(* Ranks *)

\* Counting the elements before each one numbers the elements of a finite order.
LEMMA RankBijection ==
  ASSUME NEW S, IsFiniteSet(S), NEW R,
         \A i, j \in S : i # j => <<i, j>> \in R \/ <<j, i>> \in R,
         \A i \in S : <<i, i>> \notin R,
         \A i, j, k \in S : <<i, j>> \in R /\ <<j, k>> \in R => <<i, k>> \in R,
         NEW rank, rank = [i \in S |-> Cardinality({j \in S : <<j, i>> \in R})]
  PROVE  /\ rank \in Bijection(S, 0..Cardinality(S) - 1)
         /\ \A i, j \in S : <<i, j>> \in R <=> rank[i] < rank[j]
<1> DEFINE Pred(i) == {j \in S : <<j, i>> \in R}
<1>0. Cardinality(S) \in Nat
  BY FS_CardinalityType
<1>1. ASSUME NEW i \in S
      PROVE  IsFiniteSet(Pred(i)) /\ Cardinality(Pred(i)) \in Nat /\ rank[i] = Cardinality(Pred(i))
  <2>1. Pred(i) \in SUBSET S
    OBVIOUS
  <2>2. IsFiniteSet(Pred(i))
    BY <2>1, FS_Subset
  <2> QED BY <2>2, FS_CardinalityType
<1>2. ASSUME NEW i \in S PROVE rank[i] \in 0..Cardinality(S) - 1
  <2>1. Pred(i) \in SUBSET S /\ Pred(i) # S
    OBVIOUS
  <2>2. Cardinality(Pred(i)) <= Cardinality(S) /\ Cardinality(Pred(i)) # Cardinality(S)
    BY <2>1, FS_Subset
  <2> HIDE DEF Pred
  <2> QED BY <1>0, <1>1, <2>2
<1>3. ASSUME NEW i \in S, NEW j \in S, <<i, j>> \in R PROVE rank[i] < rank[j]
  <2>1. Pred(i) \in SUBSET Pred(j) /\ Pred(i) # Pred(j)
    BY <1>3
  <2>2. Cardinality(Pred(i)) <= Cardinality(Pred(j)) /\ Cardinality(Pred(i)) # Cardinality(Pred(j))
    BY <1>1, <2>1, FS_Subset
  <2> HIDE DEF Pred
  <2> QED BY <1>1, <2>2
<1>4. ASSUME NEW i \in S, NEW j \in S, rank[i] < rank[j] PROVE <<i, j>> \in R
  <2>1. rank[i] \in Nat /\ rank[j] \in Nat
    BY <1>1
  <2>2. i # j /\ ~(rank[j] < rank[i])
    BY <1>4, <2>1
  <2> QED BY <1>3, <2>2
<1>5. rank \in [S -> 0..Cardinality(S) - 1]
  BY <1>2
<1>6. \A i, j \in S : rank[i] = rank[j] => i = j
  <2>1. \A i, j \in S : i # j => rank[i] < rank[j] \/ rank[j] < rank[i]
    BY <1>3
  <2>2. \A i \in S : rank[i] \in Nat
    BY <1>1
  <2> QED BY <2>1, <2>2
<1>7. rank \in Injection(S, 0..Cardinality(S) - 1)
  BY <1>5, <1>6, Fun_IsInj
<1>8. IsFiniteSet(0..Cardinality(S) - 1) /\ Cardinality(0..Cardinality(S) - 1) = Cardinality(S)
  <2>1. 0 \in Int /\ Cardinality(S) - 1 \in Int
    BY <1>0
  <2> QED BY <1>0, <2>1, FS_Interval
<1>9. rank \in Surjection(S, 0..Cardinality(S) - 1)
  BY <1>7, <1>8, FS_Injection
<1> QED BY <1>3, <1>4, <1>7, <1>9 DEF Bijection

\* The k-th of a finite order comes before the l-th if k < l, and all are there.
Orders(at, S, R) ==
  /\ at \in [1..Cardinality(S) -> S]
  /\ \A k, l \in 1..Cardinality(S) : k < l => <<at[k], at[l]>> \in R
  /\ \A i \in S : \E k \in 1..Cardinality(S) : at[k] = i

LEMMA InOrderOrders ==
  ASSUME NEW S, IsFiniteSet(S), NEW R,
         \A i, j \in S : i # j => <<i, j>> \in R \/ <<j, i>> \in R,
         \A i \in S : <<i, i>> \notin R,
         \A i, j, k \in S : <<i, j>> \in R /\ <<j, k>> \in R => <<i, k>> \in R
  PROVE  Orders(InOrder(S, R), S, R)
<1> DEFINE before(i) == Cardinality({j \in S : <<j, i>> \in R})
    rank == [i \in S |-> before(i)]
    n == Cardinality(S)
    at == InOrder(S, R)
<1>0. n \in Nat
  BY FS_CardinalityType
<1>1. /\ rank \in Bijection(S, 0..n - 1)
      /\ \A i, j \in S : <<i, j>> \in R <=> rank[i] < rank[j]
  BY RankBijection
<1>2. /\ \A i \in S : rank[i] \in 0..n - 1
      /\ \A t \in 0..n - 1 : \E i \in S : rank[i] = t
  BY <1>1 DEF Bijection, Injection, Surjection
<1>3. at = [k \in 1..n |-> CHOOSE i \in S : before(i) = k - 1]
  BY DEF InOrder
<1>r. \A i \in S : rank[i] = before(i)
  OBVIOUS
<1> HIDE DEF before, rank, at, n
<1>4. ASSUME NEW k \in 1..n PROVE at[k] \in S /\ rank[at[k]] = k - 1
  <2>1. k - 1 \in 0..n - 1
    BY <1>0
  <2>2. \E i \in S : before(i) = k - 1
    BY <1>2, <1>r, <2>1
  <2>3. at[k] = CHOOSE i \in S : before(i) = k - 1
    BY <1>3
  <2>4. at[k] \in S /\ before(at[k]) = k - 1
    BY <2>2, <2>3
  <2> QED BY <1>r, <2>4
<1>5. at \in [1..n -> S]
  BY <1>3, <1>4
<1>6. ASSUME NEW k \in 1..n, NEW l \in 1..n, k < l PROVE <<at[k], at[l]>> \in R
  <2>1. rank[at[k]] < rank[at[l]]
    BY <1>0, <1>4, <1>6
  <2> QED BY <1>1, <1>4, <2>1
<1>7. ASSUME NEW i \in S PROVE \E k \in 1..n : at[k] = i
  <2>1. PICK t : t = rank[i]
    OBVIOUS
  <2>2. t \in 0..n - 1
    BY <1>2, <2>1
  <2>3. t + 1 \in 1..n /\ (t + 1) - 1 = t
    BY <1>0, <2>2
  <2>4. PICK k \in 1..n : k = t + 1
    BY <2>3
  <2>5. at[k] \in S /\ rank[at[k]] = rank[i]
    BY <1>4, <2>1, <2>3, <2>4
  <2>6. \A a, b \in S : rank[a] = rank[b] => a = b
    BY <1>1 DEF Bijection, Injection, IsInjective
  <2> QED BY <2>5, <2>6
<1> QED BY <1>5, <1>6, <1>7 DEF Orders, n, at

\* A filter keeps the order of the list.
Filters(at, list, places) ==
  /\ Orders(at, places, {p \in places \X places : p[1] < p[2]})
  /\ Filtered(list, places) = [k \in 1..Cardinality(places) |-> list[at[k]]]

LEMMA FilteredOrders ==
  ASSUME NEW list, NEW places \in SUBSET Nat, IsFiniteSet(places)
  PROVE  \E at : Filters(at, list, places)
<1> DEFINE R == {p \in places \X places : p[1] < p[2]}
    at == InOrder(places, R)
<1>1. \A i, j \in places : <<i, j>> \in R <=> i < j
  OBVIOUS
<1>2. \A i \in places : i \in Nat
  OBVIOUS
<1>3. Filtered(list, places) = [k \in DOMAIN at |-> list[at[k]]]
  BY DEF Filtered
<1> HIDE DEF R
<1>4. /\ \A i, j \in places : i # j => <<i, j>> \in R \/ <<j, i>> \in R
      /\ \A i \in places : <<i, i>> \notin R
      /\ \A i, j, k \in places : <<i, j>> \in R /\ <<j, k>> \in R => <<i, k>> \in R
  BY <1>1, <1>2
<1> HIDE DEF at
<1>5. Orders(at, places, R)
  BY <1>4, InOrderOrders DEF at
<1>6. DOMAIN at = 1..Cardinality(places)
  BY <1>5 DEF Orders
<1> QED BY <1>3, <1>5, <1>6 DEF R, Filters

\* A stable sort has the higher scores first, and equal ones in the order of the list.
Precedes(score, i, j) == score[i] > score[j] \/ (score[i] = score[j] /\ i < j)

Sorts(at, list, places, score) ==
  /\ Orders(at, places, {p \in places \X places : Precedes(score, p[1], p[2])})
  /\ Sorted(list, places, score) = [k \in 1..Cardinality(places) |-> list[at[k]]]

LEMMA SortedOrders ==
  ASSUME NEW list, NEW places \in SUBSET Nat, IsFiniteSet(places),
         NEW score, \A i \in places : score[i] \in Int
  PROVE  \E at : Sorts(at, list, places, score)
<1> DEFINE R == {p \in places \X places : Precedes(score, p[1], p[2])}
    at == InOrder(places, R)
<1>1. \A i, j \in places : <<i, j>> \in R <=> Precedes(score, i, j)
  OBVIOUS
<1>2. \A i \in places : i \in Nat
  OBVIOUS
<1>3. Sorted(list, places, score) = [k \in DOMAIN at |-> list[at[k]]]
  BY DEF Sorted, Precedes
<1> HIDE DEF R
<1>4. /\ \A i, j \in places : i # j => Precedes(score, i, j) \/ Precedes(score, j, i)
      /\ \A i \in places : ~Precedes(score, i, i)
      /\ \A i, j, k \in places : Precedes(score, i, j) /\ Precedes(score, j, k) => Precedes(score, i, k)
  BY <1>2 DEF Precedes
<1>5. /\ \A i, j \in places : i # j => <<i, j>> \in R \/ <<j, i>> \in R
      /\ \A i \in places : <<i, i>> \notin R
      /\ \A i, j, k \in places : <<i, j>> \in R /\ <<j, k>> \in R => <<i, k>> \in R
  BY <1>1, <1>4
<1> HIDE DEF at
<1>6. Orders(at, places, R)
  BY <1>5, InOrderOrders DEF at
<1>7. DOMAIN at = 1..Cardinality(places)
  BY <1>6 DEF Orders
<1> QED BY <1>3, <1>6, <1>7 DEF R, Sorts
=============================================================================
