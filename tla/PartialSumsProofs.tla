------------------------- MODULE PartialSumsProofs --------------------------
(***************************************************************************)
(* What PartialSums!SumTo returns, for every sequence and every length.    *)
(* The recursive function is a CHOOSE: that a function of that shape       *)
(* exists, and that two of them agree, are shown by a least counterexample *)
(* (LeastNat), since the induction rule itself has an operator parameter.  *)
(***************************************************************************)
EXTENDS PartialSums, TLAPS, NaturalsInduction, WellFoundedInduction

IsSum(g, w, n) == g = [k \in 0 .. n |-> IF k = 0 THEN 0 ELSE g[k - 1] + w[k]]

LEMMA LeastNat ==
  ASSUME NEW T \in SUBSET Nat, T # {}
  PROVE  \E n \in T : \A m \in T : n <= m
<1> DEFINE R == OpToRel(<, Nat)
<1>1. IsWellFoundedOn(R, Nat)
  BY NatLessThanWellFounded
<1>2. ASSUME NEW x \in Nat, NEW y \in Nat, x < y
      PROVE  <<x, y>> \in R
  BY <1>2 DEF OpToRel
<1> HIDE DEF R
<1>3. PICK n \in T : \A m \in T : ~(<<m, n>> \in R)
  BY <1>1, WFMin, Zenon
<1>4. ASSUME NEW m \in T
      PROVE  n <= m
  <2>1. m \in Nat /\ n \in Nat
    OBVIOUS
  <2>2. ~(m < n)
    BY <1>2, <1>3, <2>1, Zenon
  <2> QED
    BY <2>1, <2>2
<1> QED
  BY <1>4

LEMMA SumChoice ==
  ASSUME NEW w, NEW n, NEW g, IsSum(g, w, n)
  PROVE  \E h : IsSum(h, w, n) /\ SumTo(w, n) = h[n]
<1> DEFINE P(h) == h = [k \in 0 .. n |-> IF k = 0 THEN 0 ELSE h[k - 1] + w[k]]
<1>1. P(g)
  BY DEF IsSum
<1>2. P(CHOOSE h : P(h))
  BY <1>1, Zenon
<1>3. SumTo(w, n) = (CHOOSE h : P(h))[n]
  BY Zenon DEF SumTo
<1> QED
  BY <1>2, <1>3, Zenon DEF IsSum

LEMMA SumExists ==
  ASSUME NEW w, NEW n \in Nat, \A k \in 1 .. n : w[k] \in Int
  PROVE  \E g : IsSum(g, w, n) /\ g \in [0 .. n -> Int]
<1> DEFINE Has(m) == \E g : IsSum(g, w, m) /\ g \in [0 .. m -> Int]
           T == {m \in 0 .. n : ~Has(m)}
<1>1. SUFFICES T = {}
  OBVIOUS
<1>2. SUFFICES ASSUME T # {}
               PROVE  FALSE
  OBVIOUS
<1>3. PICK m \in T : \A i \in T : m <= i
  <2>1. T \in SUBSET Nat
    OBVIOUS
  <2> HIDE DEF T
  <2> QED
    BY <1>2, <2>1, LeastNat, Zenon
<1>4. m \in 0 .. n /\ ~Has(m)
  OBVIOUS
<1>5. CASE m = 0
  <2>1. IsSum([k \in 0 .. 0 |-> 0], w, 0)
    BY DEF IsSum
  <2>2. [k \in 0 .. 0 |-> 0] \in [0 .. 0 -> Int]
    OBVIOUS
  <2> QED
    BY <1>4, <1>5, <2>1, <2>2
<1>6. CASE m # 0
  <2>1. m - 1 \in 0 .. n /\ m \in 1 .. n
    BY <1>4, <1>6
  <2>2. Has(m - 1)
    <3>1. ~(m <= m - 1)
      BY <2>1
    <3>2. m - 1 \notin T
      BY <1>3, <3>1, Zenon
    <3> HIDE DEF Has
    <3> QED
      BY <2>1, <3>2
  <2>3. PICK g : IsSum(g, w, m - 1) /\ g \in [0 .. m - 1 -> Int]
    BY <2>2
  <2> DEFINE h == [k \in 0 .. m |-> IF k = m THEN g[m - 1] + w[m] ELSE g[k]]
  <2>4. h \in [0 .. m -> Int]
    BY <2>1, <2>3
  <2>5. \A k \in 0 .. m - 1 : g[k] = IF k = 0 THEN 0 ELSE g[k - 1] + w[k]
    BY <2>3, Zenon DEF IsSum
  <2>6. \A k \in 0 .. m : h[k] = IF k = 0 THEN 0 ELSE h[k - 1] + w[k]
    BY <2>1, <2>5
  <2>7. h = [k \in 0 .. m |-> h[k]]
    OBVIOUS
  <2>8. IsSum(h, w, m)
    <3> HIDE DEF h
    <3>1. [k \in 0 .. m |-> h[k]] = [k \in 0 .. m |-> IF k = 0 THEN 0 ELSE h[k - 1] + w[k]]
      BY <2>6
    <3> QED
      BY <2>7, <3>1, Zenon DEF IsSum
  <2> QED
    BY <1>4, <2>4, <2>8
<1> QED
  BY <1>5, <1>6

LEMMA SumUnique ==
  ASSUME NEW n \in Nat, NEW m \in n .. n + 1, NEW w, NEW v, NEW g, NEW h,
         \A k \in 1 .. n : w[k] = v[k], IsSum(g, w, n), IsSum(h, v, m)
  PROVE  g[n] = h[n]
<1> DEFINE T == {k \in 0 .. n : g[k] # h[k]}
<1>1. \A k \in 0 .. n : g[k] = IF k = 0 THEN 0 ELSE g[k - 1] + w[k]
  BY Zenon DEF IsSum
<1>2. \A k \in 0 .. m : h[k] = IF k = 0 THEN 0 ELSE h[k - 1] + v[k]
  BY Zenon DEF IsSum
<1>3. SUFFICES ASSUME T # {}
               PROVE  FALSE
  OBVIOUS
<1>4. PICK k \in T : \A i \in T : k <= i
  <2>1. T \in SUBSET Nat
    OBVIOUS
  <2> HIDE DEF T
  <2> QED
    BY <1>3, <2>1, LeastNat, Zenon
<1>5. k \in 0 .. n /\ k \in 0 .. m /\ g[k] # h[k]
  OBVIOUS
<1>6. k # 0
  BY <1>1, <1>2, <1>5
<1>7. k - 1 \in 0 .. n /\ k \in 1 .. n /\ ~(k <= k - 1)
  BY <1>5, <1>6
<1>8. g[k - 1] = h[k - 1]
  BY <1>4, <1>7
<1>9. w[k] = v[k]
  BY <1>7
<1> QED
  BY <1>1, <1>2, <1>5, <1>6, <1>8, <1>9, Zenon

LEMMA SumZero ==
  ASSUME NEW w
  PROVE  SumTo(w, 0) = 0
<1>1. \A k \in 1 .. 0 : w[k] \in Int
  OBVIOUS
<1>2. PICK g : IsSum(g, w, 0)
  BY <1>1, SumExists
<1>3. PICK h : IsSum(h, w, 0) /\ SumTo(w, 0) = h[0]
  BY <1>2, SumChoice, Zenon
<1>4. h[0] = IF 0 = 0 THEN 0 ELSE h[0 - 1] + w[0]
  <2>1. 0 \in 0 .. 0
    OBVIOUS
  <2> QED
    BY <1>3, <2>1, Zenon DEF IsSum
<1> QED
  BY <1>3, <1>4, Zenon

LEMMA SumStep ==
  ASSUME NEW n \in Nat, NEW w, NEW v, \A k \in 1 .. n : v[k] \in Int /\ w[k] = v[k],
         v[n + 1] \in Int
  PROVE  /\ SumTo(w, n) \in Int
         /\ SumTo(v, n + 1) = SumTo(w, n) + v[n + 1]
<1>1. PICK g1 : IsSum(g1, w, n) /\ g1 \in [0 .. n -> Int]
  BY SumExists
<1>2. PICK g : IsSum(g, w, n) /\ SumTo(w, n) = g[n]
  BY <1>1, SumChoice, Zenon
<1>3. n \in n .. n + 1 /\ n + 1 \in n .. n + 1 /\ n + 1 \in Nat /\ n \in 0 .. n
  OBVIOUS
<1>4. g1[n] = g[n]
  BY <1>1, <1>2, <1>3, SumUnique
<1>5. \A k \in 1 .. n + 1 : v[k] \in Int
  OBVIOUS
<1>6. PICK h1 : IsSum(h1, v, n + 1)
  BY <1>3, <1>5, SumExists, Zenon
<1>7. PICK h : IsSum(h, v, n + 1) /\ SumTo(v, n + 1) = h[n + 1]
  BY <1>6, SumChoice, Zenon
<1>8. g[n] = h[n]
  BY <1>2, <1>3, <1>7, SumUnique
<1>9. \A k \in 0 .. n + 1 : h[k] = IF k = 0 THEN 0 ELSE h[k - 1] + v[k]
  BY <1>7, Zenon DEF IsSum
<1>10. h[n + 1] = h[n] + v[n + 1]
  BY <1>9
<1> QED
  BY <1>1, <1>2, <1>3, <1>4, <1>7, <1>8, <1>10

LEMMA SumInt ==
  ASSUME NEW n \in Nat, NEW w, \A k \in 1 .. n : w[k] \in Int
  PROVE  SumTo(w, n) \in Int
<1>1. CASE n = 0
  BY <1>1, SumZero
<1>2. CASE n # 0
  <2>1. n - 1 \in Nat /\ n \in 1 .. n /\ (n - 1) + 1 = n /\ \A k \in 1 .. n - 1 : w[k] \in Int /\ w[k] = w[k]
    BY <1>2
  <2>2. w[n] \in Int
    BY <2>1
  <2>3. w[(n - 1) + 1] \in Int
    BY <2>1, <2>2
  <2>4. SumTo(w, n - 1) \in Int /\ SumTo(w, (n - 1) + 1) = SumTo(w, n - 1) + w[(n - 1) + 1]
    BY <2>1, <2>3, SumStep, Zenon
  <2> QED
    BY <2>1, <2>2, <2>4
<1> QED
  BY <1>1, <1>2

\* Partial sums of natural numbers grow.
LEMMA SumMonotone ==
  ASSUME NEW n \in Nat, NEW w, \A k \in 1 .. n : w[k] \in Nat, NEW m \in 0 .. n
  PROVE  SumTo(w, m) <= SumTo(w, n)
<1> DEFINE T == {j \in m .. n : ~(SumTo(w, m) <= SumTo(w, j))}
<1>1. \A j \in 0 .. n : SumTo(w, j) \in Int
  <2> SUFFICES ASSUME NEW j \in 0 .. n
               PROVE  SumTo(w, j) \in Int
    OBVIOUS
  <2>1. j \in Nat /\ \A k \in 1 .. j : w[k] \in Int
    OBVIOUS
  <2> QED
    BY <2>1, SumInt
<1>2. SUFFICES ASSUME T # {}
               PROVE  FALSE
  OBVIOUS
<1>3. PICK j \in T : \A i \in T : j <= i
  <2>1. T \in SUBSET Nat
    OBVIOUS
  <2> HIDE DEF T
  <2> QED
    BY <1>2, <2>1, LeastNat, Zenon
<1>4. j \in m .. n /\ ~(SumTo(w, m) <= SumTo(w, j))
  OBVIOUS
<1>5. j # m
  <2> SUFFICES ASSUME j = m
               PROVE  FALSE
    OBVIOUS
  <2>1. SumTo(w, m) \in Int
    BY <1>1
  <2> QED
    BY <1>4, <2>1
<1>6. /\ j - 1 \in m .. n /\ j - 1 \in Nat /\ (j - 1) + 1 = j /\ ~(j <= j - 1)
      /\ j \in 1 .. n /\ \A k \in 1 .. j - 1 : w[k] \in Int /\ w[k] = w[k]
  BY <1>4, <1>5
<1>7. SumTo(w, m) <= SumTo(w, j - 1)
  BY <1>3, <1>6
<1>8. w[j] \in Nat
  BY <1>6
<1>9. w[(j - 1) + 1] \in Int
  BY <1>6, <1>8
<1>10. SumTo(w, j - 1) \in Int /\ SumTo(w, (j - 1) + 1) = SumTo(w, j - 1) + w[(j - 1) + 1]
  BY <1>6, <1>9, SumStep, Zenon
<1>11. SumTo(w, j) = SumTo(w, j - 1) + w[j]
  BY <1>6, <1>10
<1> QED
  BY <1>1, <1>4, <1>7, <1>8, <1>10, <1>11
=============================================================================
