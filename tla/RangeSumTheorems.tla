-------------------------- MODULE RangeSumTheorems --------------------------
(***************************************************************************)
(* What the counters of the code rely on: how a sum over 1 .. n changes    *)
(* when one term changes, and how it bounds its terms.  Induction is by    *)
(* least counterexample, from the well-foundedness of the naturals.        *)
(***************************************************************************)
EXTENDS RangeSums, TLAPS, WellFoundedInduction

\* A nonempty set of naturals has a least element.
LEMMA LeastElement ==
    ASSUME NEW T \in SUBSET Nat, T # {}
    PROVE  \E m \in T : \A k \in T : m <= k
<1>1. PICK m \in T : \A k \in T : ~(<<k, m>> \in OpToRel(<, Nat))
  BY NatLessThanWellFounded, WFMin
<1>2. \A k \in T : ~(k < m)
  BY <1>1 DEF OpToRel
<1> QED
  BY <1>2

\* g lists the partial sums of f.
PartialSums(n, f, g) ==
    /\ g[0] = 0
    /\ \A i \in 1 .. n : g[i] = g[i - 1] + f[i]

\* Partial sums are determined by their equations.
LEMMA PartialSumsUnique ==
    ASSUME NEW n \in Nat, NEW f, NEW g, NEW h,
           PartialSums(n, f, g), PartialSums(n, f, h)
    PROVE  \A i \in 0 .. n : g[i] = h[i]
<1> DEFINE Bad == {i \in 0 .. n : g[i] # h[i]}
<1>1. SUFFICES ASSUME Bad # {} PROVE FALSE
  OBVIOUS
<1>2. PICK m \in Bad : \A k \in Bad : m <= k
  <2>1. Bad \in SUBSET Nat
    OBVIOUS
  <2> HIDE DEF Bad
  <2> QED
    BY <1>1, <2>1, LeastElement
<1>3. m # 0
  BY DEF PartialSums
<1>4. m - 1 \in 0 .. n /\ m - 1 \notin Bad
  BY <1>2, <1>3
<1> QED
  BY <1>2, <1>3, <1>4 DEF PartialSums

\* Every integer function on 1 .. n has partial sums.
LEMMA PartialSumsExist ==
    ASSUME NEW n \in Nat, NEW f \in [1 .. n -> Int]
    PROVE  \E g \in [0 .. n -> Int] : PartialSums(n, f, g)
<1> DEFINE Bad == {i \in 0 .. n : ~ \E g \in [0 .. i -> Int] : PartialSums(i, f, g)}
<1>1. SUFFICES ASSUME Bad # {} PROVE FALSE
  <2>1. n \in 0 .. n
    OBVIOUS
  <2> QED
    BY <2>1
<1>2. PICK m \in Bad : \A k \in Bad : m <= k
  <2>1. Bad \in SUBSET Nat
    OBVIOUS
  <2> HIDE DEF Bad
  <2> QED
    BY <1>1, <2>1, LeastElement
<1>3. [i \in 0 .. 0 |-> 0] \in [0 .. 0 -> Int] /\ PartialSums(0, f, [i \in 0 .. 0 |-> 0])
  BY DEF PartialSums
<1>4. m # 0
  BY <1>3
<1>5. m - 1 \in 0 .. n /\ m - 1 \notin Bad
  BY <1>2, <1>4
<1>6. PICK g \in [0 .. m - 1 -> Int] : PartialSums(m - 1, f, g)
  BY <1>5
<1> DEFINE h == [i \in 0 .. m |-> IF i = m THEN g[m - 1] + f[m] ELSE g[i]]
<1>7. h \in [0 .. m -> Int] /\ PartialSums(m, f, h)
  BY <1>4, <1>6 DEF PartialSums
<1> QED
  BY <1>7

\* Total is the last partial sum.
LEMMA TotalIsLast ==
    ASSUME NEW n \in Nat, NEW f \in [1 .. n -> Int], NEW g, PartialSums(n, f, g)
    PROVE  Total(n, f) = g[n]
<1> DEFINE eqn(h) == h = [i \in 0 .. n |-> IF i = 0 THEN 0 ELSE h[i - 1] + f[i]]
           chosen == CHOOSE h : eqn(h)
<1>1. eqn([i \in 0 .. n |-> g[i]])
  BY DEF PartialSums
<1>2. eqn(chosen)
  BY <1>1
<1> HIDE DEF chosen
<1>3. PartialSums(n, f, chosen)
  <2>1. chosen[0] = 0 /\ \A i \in 1 .. n : chosen[i] = chosen[i - 1] + f[i]
    BY <1>2
  <2> QED
    BY <2>1 DEF PartialSums
<1>4. chosen[n] = g[n]
  BY <1>3, PartialSumsUnique
<1>5. Total(n, f) = chosen[n]
  BY DEF Total, chosen
<1> QED
  BY <1>4, <1>5

\* A sum of integers is an integer.
LEMMA TotalInt ==
    ASSUME NEW n \in Nat, NEW f \in [1 .. n -> Int]
    PROVE  Total(n, f) \in Int
<1>1. PICK g \in [0 .. n -> Int] : PartialSums(n, f, g)
  BY PartialSumsExist
<1> QED
  BY <1>1, TotalIsLast

\* Changing one term changes the sum by as much.
LEMMA TotalUpdate ==
    ASSUME NEW n \in Nat, NEW f \in [1 .. n -> Int],
           NEW h \in [1 .. n -> Int], NEW s \in 1 .. n,
           \A i \in 1 .. n : i # s => h[i] = f[i]
    PROVE  Total(n, h) = Total(n, f) - f[s] + h[s]
<1>1. PICK g \in [0 .. n -> Int] : PartialSums(n, f, g)
  BY PartialSumsExist
<1> DEFINE d == h[s] - f[s]
           k == [i \in 0 .. n |-> IF i >= s THEN g[i] + d ELSE g[i]]
<1>d. d = h[s] - f[s] /\ d \in Int
  OBVIOUS
<1> HIDE DEF d
<1>2. \A j \in 0 .. n : /\ j >= s => k[j] = g[j] + d
                        /\ j < s => k[j] = g[j]
  OBVIOUS
<1> HIDE DEF k
<1>3. PartialSums(n, h, k)
  <2>1. k[0] = 0
    BY <1>1, <1>2 DEF PartialSums
  <2>2. ASSUME NEW i \in 1 .. n PROVE k[i] = k[i - 1] + h[i]
    <3>1. PICK j \in 0 .. n : j = i - 1
      OBVIOUS
    <3>2. g[i] = g[j] + f[i] /\ i \in 0 .. n
      BY <1>1, <3>1 DEF PartialSums
    <3>3. /\ i >= s => k[i] = g[i] + d
          /\ i < s => k[i] = g[i]
          /\ j >= s => k[j] = g[j] + d
          /\ j < s => k[j] = g[j]
      BY <1>2, <3>2
    <3>4. /\ g[i] \in Int /\ g[j] \in Int /\ f[i] \in Int
          /\ h[i] \in Int /\ h[s] \in Int /\ f[s] \in Int
      BY <3>2
    <3>5. k[i] = k[j] + h[i]
      <4>1. CASE i = s
        BY <1>d, <3>1, <3>2, <3>3, <3>4, <4>1
      <4>2. CASE i > s
        <5>1. h[i] = f[i] /\ j >= s /\ i >= s
          BY <3>1, <4>2
        <5>2. k[i] = g[i] + d /\ k[j] = g[j] + d
          BY <3>3, <5>1
        <5> QED
          BY <3>2, <3>4, <5>1, <5>2, <1>d
      <4>3. CASE i < s
        <5>1. h[i] = f[i] /\ j < s
          BY <3>1, <4>3
        <5> QED
          BY <3>2, <3>3, <3>4, <4>3, <5>1, <1>d
      <4> QED
        BY <4>1, <4>2, <4>3
    <3> QED
      BY <3>1, <3>5
  <2> QED
    BY <2>1, <2>2 DEF PartialSums
<1>4. Total(n, h) = k[n] /\ Total(n, f) = g[n]
  BY <1>1, <1>3, TotalIsLast
<1> QED
  BY <1>d, <1>2, <1>4

\* A sum of zeros is zero.
LEMMA TotalZero ==
    ASSUME NEW n \in Nat, NEW f \in [1 .. n -> Int], \A s \in 1 .. n : f[s] = 0
    PROVE  Total(n, f) = 0
<1>1. PartialSums(n, f, [i \in 0 .. n |-> 0])
  BY DEF PartialSums
<1> QED
  BY <1>1, TotalIsLast

\* A sum of naturals is a natural.
LEMMA TotalNat ==
    ASSUME NEW n \in Nat, NEW f \in [1 .. n -> Nat]
    PROVE  Total(n, f) >= 0
<1>1. PICK g \in [0 .. n -> Int] : PartialSums(n, f, g)
  BY PartialSumsExist
<1> DEFINE Bad == {i \in 0 .. n : g[i] < 0}
<1>2. Bad = {}
  <2>1. SUFFICES ASSUME Bad # {} PROVE FALSE
    OBVIOUS
  <2>2. PICK m \in Bad : \A k \in Bad : m <= k
    <3>1. Bad \in SUBSET Nat
      OBVIOUS
    <3> HIDE DEF Bad
    <3> QED
      BY <2>1, <3>1, LeastElement
  <2>3. m # 0
    BY <1>1 DEF PartialSums
  <2>4. m - 1 \in 0 .. n /\ m - 1 \notin Bad
    BY <2>2, <2>3
  <2>5. g[m] = g[m - 1] + f[m] /\ f[m] \in Nat
    BY <1>1, <2>3 DEF PartialSums
  <2> QED
    BY <2>4, <2>5
<1>3. Total(n, f) = g[n]
  BY <1>1, TotalIsLast
<1> QED
  BY <1>2, <1>3

\* Sums keep the order of their terms.
LEMMA TotalMonotone ==
    ASSUME NEW n \in Nat, NEW f \in [1 .. n -> Int], NEW h \in [1 .. n -> Int],
           \A i \in 1 .. n : f[i] <= h[i]
    PROVE  Total(n, f) <= Total(n, h)
<1>1. PICK g \in [0 .. n -> Int] : PartialSums(n, f, g)
  BY PartialSumsExist
<1>2. PICK k \in [0 .. n -> Int] : PartialSums(n, h, k)
  BY PartialSumsExist
<1> DEFINE Bad == {i \in 0 .. n : g[i] > k[i]}
<1>3. Bad = {}
  <2>1. SUFFICES ASSUME Bad # {} PROVE FALSE
    OBVIOUS
  <2>2. PICK m \in Bad : \A j \in Bad : m <= j
    <3>1. Bad \in SUBSET Nat
      OBVIOUS
    <3> HIDE DEF Bad
    <3> QED
      BY <2>1, <3>1, LeastElement
  <2>3. m # 0
    BY <1>1, <1>2 DEF PartialSums
  <2>4. m \in 1 .. n /\ m - 1 \in 0 .. n /\ m - 1 \notin Bad
    BY <2>2, <2>3
  <2>5. g[m] = g[m - 1] + f[m] /\ k[m] = k[m - 1] + h[m] /\ f[m] <= h[m]
    BY <1>1, <1>2, <2>4 DEF PartialSums
  <2> QED
    BY <2>4, <2>5
<1>4. Total(n, f) = g[n] /\ Total(n, h) = k[n]
  BY <1>1, <1>2, TotalIsLast
<1>5. n \in 0 .. n
  OBVIOUS
<1>6. ~(g[n] > k[n]) /\ g[n] \in Int /\ k[n] \in Int
  BY <1>3, <1>5
<1> QED
  BY <1>4, <1>6
=============================================================================
