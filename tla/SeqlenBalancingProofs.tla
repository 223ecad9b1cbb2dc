-------------------------- MODULE SeqlenBalancingProofs --------------------------
(***************************************************************************)
(* What cutting a mini-batch into micro-batches does to its rows, for all  *)
(* lengths and every number of parts: each row is in one part, once, no    *)
(* part is empty, and the results come back in the order of the rows.      *)
(*                                                                         *)
(* sorted() is proved to return its argument in another order, for each of *)
(* the orders it is called with: an entry's place is the number of entries *)
(* before it, and these numbers are different.  A state of the differencing*)
(* method is proved to hold what the two it was merged from held, in as    *)
(* many parts that are not empty as it can.                                *)
(***************************************************************************)
EXTENDS SeqlenBalancing, DataFlowProofs

-----------------------------------------------------------------------------
(***************************************************************************)
(* Recursion over numbers, and sums                                        *)
(***************************************************************************)

\* Steps(n, base, G, h): h counts from the base, its m-th entry by G[m].
Steps(n, base, G, h) == h = [m \in 0..n |-> IF m = 0 THEN base ELSE G[m][h[m - 1]]]

LEMMA Recursion ==
  ASSUME NEW D, NEW base \in D, NEW G, NEW n \in Nat,
         \A m \in 1..n : \A d \in D : G[m][d] \in D
  PROVE  \E h \in [0..n -> D] : Steps(n, base, G, h)
<1> DEFINE T == {k \in Nat : k <= n => \E h \in [0..k -> D] : Steps(k, base, G, h)}
<1>1. 0 \in T
  <2> DEFINE h == [m \in 0..0 |-> base]
  <2>1. h \in [0..0 -> D] /\ \A m \in 0..0 : m = 0
    OBVIOUS
  <2>2. Steps(0, base, G, h)
    BY <2>1 DEF Steps
  <2> QED
    BY <2>1, <2>2
<1>2. ASSUME NEW k \in Nat, k \in T PROVE k + 1 \in T
  <2> SUFFICES ASSUME k + 1 <= n PROVE \E h \in [0..(k + 1) -> D] : Steps(k + 1, base, G, h)
    OBVIOUS
  <2>1. PICK g \in [0..k -> D] : Steps(k, base, G, g)
    BY <1>2
  <2> DEFINE h == [m \in 0..(k + 1) |-> IF m <= k THEN g[m] ELSE G[m][g[m - 1]]]
  <2>2. \A m \in 0..k : h[m] = g[m]
    OBVIOUS
  <2>3. \A m \in 0..(k + 1) : m # 0 => m - 1 \in 0..k /\ m \in 1..n
    OBVIOUS
  <2>4. \A m \in 0..k : g[m] = IF m = 0 THEN base ELSE G[m][g[m - 1]]
    <3>1. g = [m \in 0..k |-> IF m = 0 THEN base ELSE G[m][g[m - 1]]]
      BY <2>1 DEF Steps
    <3> QED
      BY <3>1, Zenon
  <2>5. k + 1 # 0 /\ ~(k + 1 <= k) /\ (k + 1) - 1 = k /\ k + 1 \in 1..n /\ k \in 0..k
    OBVIOUS
  <2>6. h[k + 1] = G[k + 1][h[k]] /\ h[k + 1] \in D
    BY <2>2, <2>5
  <2>7. \A m \in 0..(k + 1) : m \in 0..k \/ m = k + 1
    OBVIOUS
  <2>8. h \in [0..(k + 1) -> D]
    BY <2>2, <2>6, <2>7
  <2>9. h = [m \in 0..(k + 1) |-> h[m]]
    OBVIOUS
  <2>10. \A m \in 0..(k + 1) : h[m] = IF m = 0 THEN base ELSE G[m][h[m - 1]]
    <3> HIDE DEF h
    <3> SUFFICES ASSUME NEW m \in 0..(k + 1)
                 PROVE  h[m] = IF m = 0 THEN base ELSE G[m][h[m - 1]]
      OBVIOUS
    <3>1. CASE m = k + 1
      BY <2>5, <2>6, <3>1
    <3>2. CASE m \in 0..k
      BY <2>2, <2>3, <2>4, <3>2
    <3> QED
      BY <2>7, <3>1, <3>2
  <2>11. Steps(k + 1, base, G, h)
    <3> HIDE DEF h
    <3> QED
      BY <2>9, <2>10 DEF Steps
  <2> HIDE DEF h
  <2> QED
    BY <2>8, <2>11
<1>3. n \in T
  <2> HIDE DEF T
  <2> QED
    BY <1>1, <1>2, Induction
<1> QED
  BY <1>3

-----------------------------------------------------------------------------
(***************************************************************************)
(* Sorting                                                                 *)
(***************************************************************************)

\* order says which of the entries 1..n comes before which.
Ordered(n, order) ==
  /\ \A i \in 1..n : <<i, i>> \notin order
  /\ \A i, j \in 1..n : i # j => <<i, j>> \in order \/ <<j, i>> \in order
  /\ \A i, j, l \in 1..n : <<i, j>> \in order /\ <<j, l>> \in order => <<i, l>> \in order

Preceding(n, order, i) == {j \in 1..n : <<j, i>> \in order}
InOrder(n, order) == [m \in 1..n |-> CHOOSE i \in 1..n : Cardinality(Preceding(n, order, i)) = m - 1]

\* Each entry comes after a number of others of its own, and the numbers are
\* those from 0 to n - 1.
LEMMA InOrderCounts ==
  ASSUME NEW n \in Nat, NEW order, Ordered(n, order)
  PROVE  /\ \A m \in 1..n : \E i \in 1..n : Cardinality(Preceding(n, order, i)) = m - 1
         /\ \A i, j \in 1..n : <<i, j>> \in order =>
              Cardinality(Preceding(n, order, i)) < Cardinality(Preceding(n, order, j))
<1>1. IsFiniteSet(1..n) /\ Cardinality(1..n) = n
  <2>1. 1 \in Int /\ n \in Int /\ (1 > n => n = 0) /\ n - 1 + 1 = n
    OBVIOUS
  <2> QED
    BY <2>1, FS_Interval
<1>2. \A i \in 1..n : /\ IsFiniteSet(Preceding(n, order, i))
                      /\ Cardinality(Preceding(n, order, i)) \in Nat
  <2>1. \A i \in 1..n : Preceding(n, order, i) \in SUBSET (1..n)
    BY DEF Preceding
  <2> QED
    BY <1>1, <2>1, FS_Subset, FS_CardinalityType
<1>3. ASSUME NEW i \in 1..n, NEW j \in 1..n, <<i, j>> \in order
      PROVE  Cardinality(Preceding(n, order, i)) < Cardinality(Preceding(n, order, j))
  <2>1. Preceding(n, order, i) \in SUBSET Preceding(n, order, j)
    BY <1>3 DEF Preceding, Ordered
  <2>2. i \in Preceding(n, order, j) /\ i \notin Preceding(n, order, i)
    BY <1>3 DEF Preceding, Ordered
  <2>3. /\ Cardinality(Preceding(n, order, i)) <= Cardinality(Preceding(n, order, j))
        /\ Cardinality(Preceding(n, order, j)) # Cardinality(Preceding(n, order, i))
    BY <1>2, <2>1, <2>2, FS_Subset
  <2> QED
    BY <1>2, <2>3
<1>4. ASSUME NEW i \in 1..n PROVE Cardinality(Preceding(n, order, i)) \in 0..(n - 1)
  <2>1. Preceding(n, order, i) \in SUBSET (1..n) /\ i \notin Preceding(n, order, i)
    BY DEF Preceding, Ordered
  <2>2. Cardinality(Preceding(n, order, i)) <= n /\ Cardinality(Preceding(n, order, i)) # n
    BY <1>1, <2>1, FS_Subset
  <2> QED
    BY <1>2, <2>2
<1> DEFINE rank == [i \in 1..n |-> Cardinality(Preceding(n, order, i))]
<1>5. rank \in Injection(1..n, 0..(n - 1))
  <2>1. rank \in [1..n -> 0..(n - 1)]
    BY <1>4
  <2>2. ASSUME NEW i \in 1..n, NEW j \in 1..n, rank[i] = rank[j] PROVE i = j
    <3>1. CASE <<i, j>> \in order
      <4>1. rank[i] < rank[j]
        BY <1>3, <3>1
      <4> QED
        BY <1>4, <2>2, <4>1
    <3>2. CASE <<j, i>> \in order
      <4>1. rank[j] < rank[i]
        BY <1>3, <3>2
      <4> QED
        BY <1>4, <2>2, <4>1
    <3> QED
      BY <3>1, <3>2 DEF Ordered
  <2> HIDE DEF rank
  <2> QED
    BY <2>1, <2>2 DEF Injection, IsInjective
<1>6. IsFiniteSet(0..(n - 1)) /\ Cardinality(0..(n - 1)) = n
  <2>1. 0 \in Int /\ n - 1 \in Int /\ (0 > n - 1 => n = 0) /\ (n - 1) - 0 + 1 = n
    OBVIOUS
  <2> QED
    BY <2>1, FS_Interval
<1>7. rank \in Surjection(1..n, 0..(n - 1))
  <2> HIDE DEF rank
  <2> QED
    BY <1>1, <1>5, <1>6, FS_Injection
<1>8. ASSUME NEW m \in 1..n PROVE \E i \in 1..n : Cardinality(Preceding(n, order, i)) = m - 1
  <2>1. m - 1 \in 0..(n - 1)
    OBVIOUS
  <2>2. PICK i \in 1..n : rank[i] = m - 1
    <3> HIDE DEF rank
    <3> QED
      BY <1>7, <2>1 DEF Surjection
  <2> QED
    BY <2>2
<1> QED
  BY <1>3, <1>8

\* The m-th of the sorted entries was entry p[m]: each is there once, and they
\* are in the order.
Sorts(n, order, p) ==
  /\ p \in [1..n -> 1..n]
  /\ \A a, b \in 1..n : p[a] = p[b] => a = b
  /\ \A i \in 1..n : \E a \in 1..n : p[a] = i
  /\ \A a, b \in 1..n : a < b => <<p[a], p[b]>> \in order

LEMMA InOrderSorts ==
  ASSUME NEW n \in Nat, NEW order, Ordered(n, order)
  PROVE  Sorts(n, order, InOrder(n, order))
<1>1. PICK p : p = InOrder(n, order)
  OBVIOUS
<1>2. \A m \in 1..n : p[m] \in 1..n /\ Cardinality(Preceding(n, order, p[m])) = m - 1
  <2>1. \A m \in 1..n :
          p[m] = CHOOSE i \in 1..n : Cardinality(Preceding(n, order, i)) = m - 1
    BY <1>1 DEF InOrder
  <2>2. \A m \in 1..n : \E i \in 1..n : Cardinality(Preceding(n, order, i)) = m - 1
    BY InOrderCounts
  <2> QED
    BY <2>1, <2>2
<1>3. p \in [1..n -> 1..n]
  BY <1>1, <1>2 DEF InOrder
<1>4. ASSUME NEW a \in 1..n, NEW b \in 1..n, p[a] = p[b] PROVE a = b
  <2>1. a - 1 = b - 1
    BY <1>2, <1>4
  <2> QED
    BY <2>1
<1>5. \A i \in 1..n : \E a \in 1..n : p[a] = i
  <2>1. p \in Injection(1..n, 1..n)
    BY <1>3, <1>4 DEF Injection, IsInjective
  <2>2. IsFiniteSet(1..n)
    BY FS_Interval
  <2>3. p \in Surjection(1..n, 1..n)
    BY <2>1, <2>2, FS_Injection
  <2> QED
    BY <2>3 DEF Surjection
<1>6. ASSUME NEW a \in 1..n, NEW b \in 1..n, a < b PROVE <<p[a], p[b]>> \in order
  <2>1. p[a] \in 1..n /\ p[b] \in 1..n /\ p[a] # p[b]
    BY <1>2, <1>4, <1>6
  <2>2. ~(<<p[b], p[a]>> \in order)
    <3>1. <<p[b], p[a]>> \in order => b - 1 < a - 1
      BY <1>2, <2>1, InOrderCounts
    <3> QED
      BY <1>6, <3>1
  <2> QED
    BY <2>1, <2>2 DEF Ordered
<1> QED
  BY <1>1, <1>3, <1>4, <1>5, <1>6 DEF Sorts

\* The sums of the entries at sets of places, the last place first.
SumStep(numbers, sums, s) == IF s = {} THEN 0 ELSE sums[s \ {Max(s)}] + numbers[Max(s)]
Sums(n, numbers, sums) == sums = [s \in SUBSET (1..n) |-> SumStep(numbers, sums, s)]
SumsOf(n, numbers) == CHOOSE sums : Sums(n, numbers, sums)

LEMMA TotalIsSum ==
  ASSUME NEW n \in Nat, NEW numbers, DOMAIN numbers = 1..n
  PROVE  Total(numbers) = SumsOf(n, numbers)[1..n]
  BY DEF Total, FoldLeft, MapThenFoldSet, SumsOf, Sums, SumStep

LEMMA LargestPlace ==
  ASSUME NEW m \in Nat, NEW s \in SUBSET (1..(m + 1)), m + 1 \in s
  PROVE  Max(s) = m + 1
<1>1. \A x \in s : x \in Int /\ m + 1 >= x
  OBVIOUS
<1>2. \A x \in s : (\A y \in s : x >= y) => x = m + 1
  BY <1>1
<1> QED
  BY <1>1, <1>2 DEF Max

LEMMA SumsExist ==
  ASSUME NEW n \in Nat, NEW numbers
  PROVE  Sums(n, numbers, SumsOf(n, numbers))
<1> DEFINE T == {m \in Nat : \E g : Sums(m, numbers, g)}
<1>1. 0 \in T
  <2> DEFINE g == [s \in SUBSET (1..0) |-> 0]
  <2>1. \A s \in SUBSET (1..0) : s = {}
    OBVIOUS
  <2>2. Sums(0, numbers, g)
    BY <2>1 DEF Sums, SumStep
  <2> QED
    BY <2>2
<1>2. ASSUME NEW m \in Nat, m \in T PROVE m + 1 \in T
  <2>1. PICK g : Sums(m, numbers, g)
    BY <1>2
  <2> DEFINE h == [s \in SUBSET (1..(m + 1)) |->
                     IF m + 1 \in s THEN g[s \ {m + 1}] + numbers[m + 1] ELSE g[s]]
  <2>2. \A s \in SUBSET (1..(m + 1)) : s \ {m + 1} \in SUBSET (1..m)
    OBVIOUS
  <2>3. \A s \in SUBSET (1..(m + 1)) : m + 1 \notin s => s \in SUBSET (1..m)
    OBVIOUS
  <2>4. \A s \in SUBSET (1..m) : s \in SUBSET (1..(m + 1)) /\ m + 1 \notin s
    OBVIOUS
  <2>5. \A s \in SUBSET (1..m) : h[s] = g[s]
    BY <2>4
  <2>6. \A s \in SUBSET (1..m) : g[s] = SumStep(numbers, g, s)
    <3>1. g = [s \in SUBSET (1..m) |-> SumStep(numbers, g, s)]
      BY <2>1 DEF Sums
    <3> QED
      BY <3>1, Zenon
  <2>7. ASSUME NEW s \in SUBSET (1..(m + 1)) PROVE h[s] = SumStep(numbers, h, s)
    <3>1. CASE m + 1 \in s
      <4>1. Max(s) = m + 1 /\ s # {}
        BY <3>1, LargestPlace
      <4>2. h[s] = g[s \ {m + 1}] + numbers[m + 1]
        BY <3>1
      <4>3. h[s \ {m + 1}] = g[s \ {m + 1}]
        BY <2>2, <2>5
      <4> HIDE DEF h
      <4> QED
        BY <4>1, <4>2, <4>3 DEF SumStep
    <3>2. CASE m + 1 \notin s
      <4>1. s \in SUBSET (1..m) /\ s \ {Max(s)} \in SUBSET (1..m)
        BY <2>3, <3>2
      <4>2. h[s] = g[s] /\ h[s \ {Max(s)}] = g[s \ {Max(s)}]
        BY <2>5, <4>1
      <4>3. g[s] = SumStep(numbers, g, s)
        BY <2>6, <4>1
      <4> HIDE DEF h
      <4> QED
        BY <4>2, <4>3 DEF SumStep
    <3> QED
      BY <3>1, <3>2
  <2>8. h = [s \in SUBSET (1..(m + 1)) |-> h[s]]
    OBVIOUS
  <2>9. Sums(m + 1, numbers, h)
    <3> HIDE DEF h
    <3> QED
      BY <2>7, <2>8 DEF Sums
  <2>10. m + 1 \in Nat
    OBVIOUS
  <2> HIDE DEF h
  <2> QED
    BY <2>9, <2>10
<1>3. n \in T
  <2> HIDE DEF T
  <2> QED
    BY <1>1, <1>2, Induction
<1>4. \E g : Sums(n, numbers, g)
  BY <1>3
<1> QED
  BY <1>4 DEF SumsOf

\* A sum of natural numbers, and of numbers above zero.
LEMMA TotalNumber ==
  ASSUME NEW n \in Nat, NEW numbers \in [1..n -> Nat]
  PROVE  /\ Total(numbers) \in Nat
         /\ n = 0 => Total(numbers) = 0
         /\ (\A i \in 1..n : numbers[i] > 0) => Total(numbers) >= n
<1>1. PICK sums : sums = SumsOf(n, numbers)
  OBVIOUS
<1>2. \A s \in SUBSET (1..n) : sums[s] = SumStep(numbers, sums, s)
  <2>1. sums = [s \in SUBSET (1..n) |-> SumStep(numbers, sums, s)]
    BY <1>1, SumsExist DEF Sums
  <2> QED
    BY <2>1, Zenon
<1> DEFINE Fine(m) == sums[1..m] \in Nat /\ ((\A i \in 1..n : numbers[i] > 0) => sums[1..m] >= m)
           T == {m \in Nat : m <= n => Fine(m)}
<1>3. sums[1..0] = 0
  <2>1. 1..0 \in SUBSET (1..n) /\ 1..0 = {}
    OBVIOUS
  <2> QED
    BY <1>2, <2>1 DEF SumStep
<1>4. 0 \in T
  BY <1>3
<1>5. ASSUME NEW m \in Nat, m \in T PROVE m + 1 \in T
  <2> SUFFICES ASSUME m + 1 <= n PROVE Fine(m + 1)
    OBVIOUS
  <2>1. Fine(m)
    BY <1>5
  <2>2. 1..(m + 1) \in SUBSET (1..n) /\ m + 1 \in 1..n
    OBVIOUS
  <2>3. m + 1 \in 1..(m + 1) /\ 1..(m + 1) \in SUBSET (1..(m + 1))
        /\ 1..(m + 1) # {} /\ (1..(m + 1)) \ {m + 1} = 1..m
    OBVIOUS
  <2>4. Max(1..(m + 1)) = m + 1
    BY <2>3, LargestPlace
  <2>5. sums[1..(m + 1)] = sums[1..m] + numbers[m + 1]
    <3>1. sums[1..(m + 1)] = SumStep(numbers, sums, 1..(m + 1))
      BY <1>2, <2>2
    <3> QED
      BY <2>3, <2>4, <3>1 DEF SumStep
  <2>6. numbers[m + 1] \in Nat /\ ((\A i \in 1..n : numbers[i] > 0) => numbers[m + 1] > 0)
    BY <2>2
  <2> QED
    BY <2>1, <2>5, <2>6
<1>6. n \in T
  <2> HIDE DEF T
  <2> QED
    BY <1>4, <1>5, Induction
<1>7. Total(numbers) = sums[1..n]
  BY <1>1, TotalIsSum
<1> QED
  BY <1>3, <1>6, <1>7

\* A function on the first numbers is the tuple made of it.
LEMMA TupleSame ==
  ASSUME NEW n \in Nat, NEW f, f = [i \in 1..n |-> f[i]]
  PROVE  Len(f) = n /\ Tuple(f) = f
<1>1. PICK S : \A i \in 1..n : f[i] \in S
  <2> WITNESS {f[i] : i \in 1..n}
  <2> QED
    OBVIOUS
<1>2. f \in Seq(S) /\ Len(f) = n
  <2>1. [i \in 1..n |-> f[i]] \in Seq(S) /\ Len([i \in 1..n |-> f[i]]) = n
    BY <1>1
  <2> QED
    BY <2>1
<1>3. SubSeq(f, 1, Len(f)) = f
  BY <1>2
<1> QED
  BY <1>2, <1>3 DEF Tuple

\* SortBy, once it knows how many come before each entry.
ByCount(d, entries, counts) ==
  Tuple([m \in d |-> entries[CHOOSE i \in d : counts[i] = m - 1]])

CountsOf(n, order) == [i \in 1..n |-> Cardinality(Preceding(n, order, i))]
Picked(n, list, p) == [m \in 1..n |-> list[p[m]]]

LEMMA ByCountInOrder ==
  ASSUME NEW n \in Nat, NEW list, NEW order
  PROVE  ByCount(1..n, list, Tuple(CountsOf(n, order))) = Picked(n, list, InOrder(n, order))
<1>0. PICK counts : counts = CountsOf(n, order)
  OBVIOUS
<1>1. Tuple(counts) = counts /\ \A i \in 1..n : counts[i] = Cardinality(Preceding(n, order, i))
  <2>1. counts = [i \in 1..n |-> counts[i]]
    BY <1>0 DEF CountsOf
  <2> QED
    BY <1>0, <2>1, TupleSame DEF CountsOf
<1> DEFINE r == [m \in 1..n |-> list[CHOOSE i \in 1..n : counts[i] = m - 1]]
<1>2. Tuple(r) = r
  <2>1. r = [m \in 1..n |-> r[m]]
    OBVIOUS
  <2> HIDE DEF r
  <2> QED
    BY <2>1, TupleSame
<1>3. ByCount(1..n, list, counts) = r
  BY <1>2 DEF ByCount
<1>4. ASSUME NEW m \in 1..n
      PROVE  (CHOOSE i \in 1..n : counts[i] = m - 1) = InOrder(n, order)[m]
  <2>1. \A i \in 1..n : counts[i] = m - 1 <=> Cardinality(Preceding(n, order, i)) = m - 1
    BY <1>1
  <2>2. (CHOOSE i \in 1..n : counts[i] = m - 1)
          = CHOOSE i \in 1..n : Cardinality(Preceding(n, order, i)) = m - 1
    BY <2>1
  <2> QED
    BY <2>2 DEF InOrder
<1>5. r = [m \in 1..n |-> list[InOrder(n, order)[m]]]
  <2>1. r = [m \in 1..n |-> r[m]]
    OBVIOUS
  <2>2. ASSUME NEW m \in 1..n PROVE r[m] = list[InOrder(n, order)[m]]
    <3>1. r[m] = list[CHOOSE i \in 1..n : counts[i] = m - 1]
      OBVIOUS
    <3> HIDE DEF r
    <3> QED
      BY <1>4, <3>1, Zenon
  <2> HIDE DEF r
  <2> QED
    BY <2>1, <2>2
<1> QED
  BY <1>0, <1>1, <1>3, <1>5 DEF Picked

-----------------------------------------------------------------------------
(***************************************************************************)
(* Items and parts                                                         *)
(***************************************************************************)

Items(values) == {<<i, values[i]>> : i \in 1..Len(values)}

LEMMA ItemOfIndex ==
  ASSUME NEW values \in Seq(Nat \ {0})
  PROVE  /\ \A x \in Items(values) : x[1] \in 1..Len(values) /\ x[2] \in Nat \ {0}
                                     /\ x = <<x[1], values[x[1]]>>
         /\ \A x, y \in Items(values) : x[1] = y[1] => x = y
         /\ \A i \in 1..Len(values) : <<i, values[i]>> \in Items(values)
<1>1. \A i \in 1..Len(values) : values[i] \in Nat \ {0}
  OBVIOUS
<1>2. ASSUME NEW x \in Items(values)
      PROVE  x[1] \in 1..Len(values) /\ x[2] \in Nat \ {0} /\ x = <<x[1], values[x[1]]>>
  <2>1. PICK i \in 1..Len(values) : x = <<i, values[i]>>
    BY DEF Items
  <2>2. x[1] = i /\ x[2] = values[i]
    BY <2>1
  <2> QED
    BY <1>1, <2>1, <2>2
<1>3. \A i \in 1..Len(values) : <<i, values[i]>> \in Items(values)
  BY DEF Items
<1>4. ASSUME NEW x \in Items(values), NEW y \in Items(values), x[1] = y[1] PROVE x = y
  <2>1. x = <<x[1], values[x[1]]>> /\ y = <<y[1], values[y[1]]>>
    BY <1>2
  <2> QED
    BY <1>4, <2>1
<1> QED
  BY <1>2, <1>3, <1>4

\* No item is before itself.
LEMMA ItemNotBefore ==
  ASSUME NEW values \in Seq(Nat \ {0}), NEW x \in Items(values)
  PROVE  ~ItemBefore(x, x)
<1>1. x[1] \in Nat /\ x[2] \in Nat
  BY ItemOfIndex
<1> QED
  BY <1>1 DEF ItemBefore

LEMMA PartSumNumber ==
  ASSUME NEW values \in Seq(Nat \ {0}), NEW part \in Seq(Items(values))
  PROVE  PartSum(part) \in Nat /\ (part = << >> <=> PartSum(part) = 0)
<1>1. PICK n \in Nat : n = Len(part)
  OBVIOUS
<1> DEFINE numbers == [j \in 1..Len(part) |-> part[j][2]]
<1>2. numbers \in [1..n -> Nat] /\ \A j \in 1..n : numbers[j] > 0
  <2>1. \A j \in 1..n : part[j] \in Items(values)
    BY <1>1
  <2>2. \A j \in 1..n : part[j][2] \in Nat \ {0}
    BY <2>1, ItemOfIndex
  <2> QED
    BY <1>1, <2>2
<1>3. PartSum(part) = Total(numbers)
  BY DEF PartSum
<1>4. Total(numbers) \in Nat /\ (n = 0 => Total(numbers) = 0) /\ Total(numbers) >= n
  <2> HIDE DEF numbers
  <2> QED
    BY <1>2, TotalNumber
<1>5. part = << >> <=> n = 0
  BY <1>1
<1> QED
  BY <1>3, <1>4, <1>5

\* What two parts are compared by, when they do not begin with the same item.
Lead(part) == IF part = << >> THEN 0 ELSE part[1][1]
Below(p, q) ==
  \/ PartSum(p) < PartSum(q)
  \/ PartSum(p) = PartSum(q) /\ Len(p) < Len(q)
  \/ PartSum(p) = PartSum(q) /\ Len(p) = Len(q) /\ Lead(p) < Lead(q)

LEMMA LeadNumber ==
  ASSUME NEW values \in Seq(Nat \ {0}), NEW p \in Seq(Items(values))
  PROVE  Lead(p) \in Nat /\ (p # << >> => p[1] \in Items(values) /\ Lead(p) = p[1][1])
<1>1. p # << >> => p[1] \in Items(values)
  OBVIOUS
<1> QED
  BY <1>1, ItemOfIndex DEF Lead

LEMMA BelowIsBefore ==
  ASSUME NEW values \in Seq(Nat \ {0}), NEW p \in Seq(Items(values)), NEW q \in Seq(Items(values)),
         p # << >> /\ q # << >> /\ p[1] = q[1] => p = q
  PROVE  PartBefore(p, q) <=> Below(p, q)
<1>1. SUFFICES ASSUME Len(p) = Len(q)
               PROVE  ItemsBefore(p, q) <=> Lead(p) < Lead(q)
  BY DEF PartBefore, Below
<1>2. CASE p = << >>
  <2>1. q = << >> /\ Len(p) = 0 /\ Len(q) = 0 /\ Lead(p) = 0 /\ Lead(q) = 0
    BY <1>1, <1>2 DEF Lead
  <2>2. ~ItemsBefore(p, q)
    BY <2>1 DEF ItemsBefore
  <2> QED
    BY <2>1, <2>2
<1>3. CASE p # << >>
  <2>1. q # << >> /\ Len(p) \in Nat \ {0} /\ Len(q) = Len(p)
    BY <1>1, <1>3
  <2>2. /\ p[1] \in Items(values) /\ q[1] \in Items(values)
        /\ Lead(p) = p[1][1] /\ Lead(q) = q[1][1] /\ Lead(p) \in Nat /\ Lead(q) \in Nat
    BY <1>3, <2>1, LeadNumber
  <2>3. CASE p[1] = q[1]
    <3>1. p = q
      BY <1>3, <2>1, <2>3
    <3>2. \A n \in 0..Len(p) : n < Len(p) => n + 1 \in 1..Len(p)
      BY <2>1
    <3>3. \A n \in 1..Len(p) : ~ItemBefore(p[n], q[n])
      <4> SUFFICES ASSUME NEW n \in 1..Len(p) PROVE ~ItemBefore(p[n], q[n])
        OBVIOUS
      <4>1. PICK x \in Items(values) : x = p[n]
        OBVIOUS
      <4>2. ~ItemBefore(x, x)
        BY ItemNotBefore
      <4> QED
        BY <3>1, <4>1, <4>2
    <3>4. ~ItemsBefore(p, q)
      BY <2>1, <3>2, <3>3 DEF ItemsBefore
    <3> QED
      BY <2>2, <2>3, <3>4
  <2>4. CASE p[1] # q[1]
    <3>1. p[1][1] # q[1][1]
      BY <2>2, <2>4, ItemOfIndex
    <3>2. ItemBefore(p[1], q[1]) <=> Lead(p) < Lead(q)
      BY <2>2, <3>1 DEF ItemBefore
    <3>3. ItemsBefore(p, q) => ItemBefore(p[1], q[1])
      <4> SUFFICES ASSUME ItemsBefore(p, q) PROVE ItemBefore(p[1], q[1])
        OBVIOUS
      <4>1. PICK n \in 0..Len(p) :
              /\ \A k \in 1..n : p[k] = q[k]
              /\ n < Len(p) /\ ItemBefore(p[n + 1], q[n + 1])
        BY <2>1 DEF ItemsBefore
      <4>2. n = 0
        <5>1. n # 0 => 1 \in 1..n
          OBVIOUS
        <5> QED
          BY <2>4, <4>1, <5>1
      <4> QED
        BY <4>1, <4>2
    <3>4. ItemBefore(p[1], q[1]) => ItemsBefore(p, q)
      <4> SUFFICES ASSUME ItemBefore(p[1], q[1]) PROVE ItemsBefore(p, q)
        OBVIOUS
      <4>1. 0 \in 0..Len(p) /\ 0 < Len(p) /\ 0 + 1 = 1 /\ \A k \in 1..0 : p[k] = q[k]
        BY <2>1
      <4> QED
        BY <2>1, <4>1 DEF ItemsBefore
    <3> QED
      BY <3>2, <3>3, <3>4
  <2> QED
    BY <2>3, <2>4
<1> QED
  BY <1>2, <1>3

-----------------------------------------------------------------------------
(***************************************************************************)
(* States of the method                                                    *)
(***************************************************************************)

\* Every item is in one place at most.
Apart(k, s) ==
  \A m, l \in 1..k : \A j \in 1..Len(s[m]) : \A i \in 1..Len(s[l]) :
    s[m][j] = s[l][i] => m = l /\ j = i

Held(values, k, s) ==
  {x \in Items(values) : \E m \in 1..k : \E j \in 1..Len(s[m]) : s[m][j] = x}

Filled(k, s) == {m \in 1..k : s[m] # << >>}
NumberFilled(k, s) == Cardinality(Filled(k, s))
FilledFirst(k, s) == \A a, b \in 1..k : a < b /\ s[a] = << >> => s[b] = << >>

\* t has the parts of s in some order.
SameParts(k, s, t) ==
  \E p \in [1..k -> 1..k] :
    /\ \A a, b \in 1..k : p[a] = p[b] => a = b
    /\ \A i \in 1..k : \E a \in 1..k : p[a] = i
    /\ t = [m \in 1..k |-> s[p[m]]]

LEMMA ApartOnce ==
  ASSUME NEW k, NEW s, Apart(k, s), NEW m \in 1..k, NEW l \in 1..k,
         NEW j \in 1..Len(s[m]), NEW i \in 1..Len(s[l]), s[m][j] = s[l][i]
  PROVE  m = l /\ j = i
  BY DEF Apart

LEMMA SamePartsKeep ==
  ASSUME NEW values, NEW k \in Nat, NEW s \in [1..k -> Seq(Items(values))], Apart(k, s),
         NEW t, SameParts(k, s, t)
  PROVE  /\ t \in [1..k -> Seq(Items(values))]
         /\ Apart(k, t)
         /\ Held(values, k, t) = Held(values, k, s)
<1>1. PICK p \in [1..k -> 1..k] :
        /\ \A a, b \in 1..k : p[a] = p[b] => a = b
        /\ \A i \in 1..k : \E a \in 1..k : p[a] = i
        /\ t = [m \in 1..k |-> s[p[m]]]
  BY DEF SameParts
<1>2. \A m \in 1..k : p[m] \in 1..k /\ t[m] = s[p[m]]
  BY <1>1
<1>3. t \in [1..k -> Seq(Items(values))]
  BY <1>1
<1>4. Apart(k, t)
  <2> SUFFICES ASSUME NEW m \in 1..k, NEW l \in 1..k, NEW j \in 1..Len(t[m]),
                      NEW i \in 1..Len(t[l]), t[m][j] = t[l][i]
               PROVE  m = l /\ j = i
    BY DEF Apart
  <2>1. PICK a \in 1..k, b \in 1..k : a = p[m] /\ b = p[l] /\ t[m] = s[a] /\ t[l] = s[b]
    BY <1>2
  <2>2. j \in 1..Len(s[a]) /\ i \in 1..Len(s[b]) /\ s[a][j] = s[b][i]
    BY <2>1
  <2>3. a = b /\ j = i
    BY <2>2 DEF Apart
  <2> QED
    <3>1. p[m] = p[l]
      BY <2>1, <2>3
    <3>2. m = l
      BY <1>1, <3>1
    <3> QED
      BY <2>3, <3>2
<1>5. Held(values, k, t) = Held(values, k, s)
  <2>1. ASSUME NEW x \in Held(values, k, t) PROVE x \in Held(values, k, s)
    <3>1. PICK m \in 1..k : \E j \in 1..Len(t[m]) : t[m][j] = x
      BY DEF Held
    <3>2. p[m] \in 1..k /\ \E j \in 1..Len(s[p[m]]) : s[p[m]][j] = x
      BY <1>2, <3>1
    <3> QED
      BY <3>2 DEF Held
  <2>2. ASSUME NEW x \in Held(values, k, s) PROVE x \in Held(values, k, t)
    <3>1. PICK i \in 1..k : \E j \in 1..Len(s[i]) : s[i][j] = x
      BY DEF Held
    <3>2. PICK m \in 1..k : p[m] = i
      BY <1>1
    <3>3. \E j \in 1..Len(t[m]) : t[m][j] = x
      BY <1>2, <3>1, <3>2
    <3> QED
      BY <3>3 DEF Held
  <2> QED
    BY <2>1, <2>2
<1> QED
  BY <1>3, <1>4, <1>5

LEMMA SameNumberFilled ==
  ASSUME NEW k \in Nat, NEW s, NEW t, SameParts(k, s, t)
  PROVE  NumberFilled(k, t) = NumberFilled(k, s)
<1>1. PICK p \in [1..k -> 1..k] :
        /\ \A a, b \in 1..k : p[a] = p[b] => a = b
        /\ \A i \in 1..k : \E a \in 1..k : p[a] = i
        /\ t = [m \in 1..k |-> s[p[m]]]
  BY DEF SameParts
<1>2. \A m \in 1..k : p[m] \in 1..k /\ t[m] = s[p[m]]
  BY <1>1
<1> DEFINE f == [m \in Filled(k, t) |-> p[m]]
<1>3. f \in [Filled(k, t) -> Filled(k, s)]
  BY <1>2 DEF Filled
<1>4. \A m, l \in Filled(k, t) : f[m] = f[l] => m = l
  BY <1>1 DEF Filled
<1>5. \A i \in Filled(k, s) : \E m \in Filled(k, t) : f[m] = i
  <2> SUFFICES ASSUME NEW i \in Filled(k, s) PROVE \E m \in Filled(k, t) : f[m] = i
    OBVIOUS
  <2>1. i \in 1..k /\ s[i] # << >>
    BY DEF Filled
  <2>2. PICK m \in 1..k : p[m] = i
    BY <1>1, <2>1
  <2>3. m \in Filled(k, t)
    BY <1>2, <2>1, <2>2 DEF Filled
  <2> QED
    BY <2>2, <2>3
<1>6. f \in Bijection(Filled(k, t), Filled(k, s))
  <2> HIDE DEF f
  <2> QED
    BY <1>3, <1>4, <1>5 DEF Bijection, Injection, IsInjective, Surjection
<1>7. ExistsBijection(Filled(k, t), Filled(k, s))
  <2> HIDE DEF f
  <2> QED
    BY <1>6 DEF ExistsBijection
<1>8. IsFiniteSet(Filled(k, t))
  <2>1. Filled(k, t) \in SUBSET (1..k) /\ IsFiniteSet(1..k)
    BY FS_Interval DEF Filled
  <2> QED
    BY <2>1, FS_Subset
<1> QED
  BY <1>7, <1>8, FS_Bijection DEF NumberFilled

\* Filled parts that come first are the first parts.
LEMMA FilledCount ==
  ASSUME NEW k \in Nat, NEW s, FilledFirst(k, s)
  PROVE  NumberFilled(k, s) \in 0..k /\ Filled(k, s) = 1..NumberFilled(k, s)
<1>1. CASE \A m \in 1..k : s[m] # << >>
  <2>1. Filled(k, s) = 1..k
    BY <1>1 DEF Filled
  <2>2. IsFiniteSet(1..k) /\ Cardinality(1..k) = k
    <3>1. 1 \in Int /\ k \in Int /\ (1 > k => k = 0) /\ k - 1 + 1 = k
      OBVIOUS
    <3> QED
      BY <3>1, FS_Interval
  <2> QED
    BY <2>1, <2>2 DEF NumberFilled
<1>2. CASE ~(\A m \in 1..k : s[m] # << >>)
  <2> DEFINE Empty == {m \in 1..k : s[m] = << >>}
  <2>1. Empty \in SUBSET Nat /\ Empty # {}
    BY <1>2
  <2>2. PICK m \in Empty : \A l \in Empty : m <= l
    <3> HIDE DEF Empty
    <3> QED
      BY <2>1, LeastNumber
  <2>3. m \in 1..k /\ \A l \in 1..k : s[l] = << >> <=> m <= l
    <3>1. \A l \in 1..k : m < l => s[l] = << >>
      BY <2>2 DEF FilledFirst
    <3>2. m \in 1..k /\ s[m] = << >> /\ \A l \in 1..k : s[l] = << >> => m <= l
      BY <2>2
    <3> QED
      BY <3>1, <3>2
  <2>4. Filled(k, s) = 1..(m - 1)
    BY <2>3 DEF Filled
  <2>5. IsFiniteSet(1..(m - 1)) /\ Cardinality(1..(m - 1)) = m - 1
    <3>1. 1 \in Int /\ m - 1 \in Int /\ (1 > m - 1 => m - 1 = 0) /\ (m - 1) - 1 + 1 = m - 1
      BY <2>3
    <3> QED
      BY <3>1, FS_Interval
  <2> QED
    BY <2>3, <2>4, <2>5 DEF NumberFilled
<1> QED
  BY <1>1, <1>2

\* sorted() by the order of parts, the largest first.
PartsOrder(k, s) ==
  {e \in (1..k) \X (1..k) : IF e[1] < e[2] THEN ~PartBefore(s[e[1]], s[e[2]])
                                            ELSE PartBefore(s[e[2]], s[e[1]])}

\* An order by three numbers.
Lower(a, b, c, x, y, z) == a < x \/ (a = x /\ b < y) \/ (a = x /\ b = y /\ c < z)
Less(u, v, w, i, j) == Lower(u[i], v[i], w[i], u[j], v[j], w[j])

LEMMA LowerOrders ==
  ASSUME NEW a \in Nat, NEW b \in Nat, NEW c \in Nat, NEW p \in Nat, NEW q \in Nat, NEW r \in Nat,
         NEW x \in Nat, NEW y \in Nat, NEW z \in Nat
  PROVE  /\ ~Lower(a, b, c, a, b, c)
         /\ Lower(a, b, c, p, q, r) => ~Lower(p, q, r, a, b, c)
         /\ ~Lower(a, b, c, p, q, r) /\ ~Lower(p, q, r, x, y, z) => ~Lower(a, b, c, x, y, z)
  BY DEF Lower

LEMMA LessOrders ==
  ASSUME NEW n \in Nat, NEW u \in [1..n -> Nat], NEW v \in [1..n -> Nat], NEW w \in [1..n -> Nat],
         NEW i \in 1..n, NEW j \in 1..n, NEW l \in 1..n
  PROVE  /\ ~Less(u, v, w, i, i)
         /\ Less(u, v, w, i, j) => ~Less(u, v, w, j, i)
         /\ ~Less(u, v, w, i, j) /\ ~Less(u, v, w, j, l) => ~Less(u, v, w, i, l)
<1>1. /\ u[i] \in Nat /\ v[i] \in Nat /\ w[i] \in Nat
      /\ u[j] \in Nat /\ v[j] \in Nat /\ w[j] \in Nat
      /\ u[l] \in Nat /\ v[l] \in Nat /\ w[l] \in Nat
  OBVIOUS
<1> QED
  BY <1>1, LowerOrders DEF Less

\* The places 1..n in that order and, where it does not tell two apart, as they are.
ByThree(n, u, v, w, order) ==
  \A i, j \in 1..n : <<i, j>> \in order
    <=> (i < j /\ ~Less(u, v, w, i, j)) \/ (~(i < j) /\ Less(u, v, w, j, i))

LEMMA OrderedByThree ==
  ASSUME NEW n \in Nat, NEW u \in [1..n -> Nat], NEW v \in [1..n -> Nat],
         NEW w \in [1..n -> Nat], NEW order, ByThree(n, u, v, w, order)
  PROVE  /\ Ordered(n, order)
         /\ \A i, j \in 1..n : i # j =>
              (<<i, j>> \in order <=> Less(u, v, w, j, i) \/ (~Less(u, v, w, i, j) /\ i < j))
<1>1. ASSUME NEW i \in 1..n, NEW j \in 1..n
      PROVE  /\ <<i, i>> \notin order
             /\ i # j => <<i, j>> \in order \/ <<j, i>> \in order
             /\ i # j => (<<i, j>> \in order <=> Less(u, v, w, j, i) \/ (~Less(u, v, w, i, j) /\ i < j))
  <2>1. ~Less(u, v, w, i, i) /\ (Less(u, v, w, i, j) => ~Less(u, v, w, j, i))
    BY LessOrders
  <2>2. (i = j \/ i < j \/ j < i) /\ (i < j => ~(j < i)) /\ ~(i < i)
    OBVIOUS
  <2>3. <<i, i>> \in order <=> (i < i /\ ~Less(u, v, w, i, i)) \/ (~(i < i) /\ Less(u, v, w, i, i))
    BY DEF ByThree
  <2>4. /\ <<i, j>> \in order <=> (i < j /\ ~Less(u, v, w, i, j)) \/ (~(i < j) /\ Less(u, v, w, j, i))
        /\ <<j, i>> \in order <=> (j < i /\ ~Less(u, v, w, j, i)) \/ (~(j < i) /\ Less(u, v, w, i, j))
    BY DEF ByThree
  <2> QED
    BY <2>1, <2>2, <2>3, <2>4, Zenon
<1>2. ASSUME NEW i \in 1..n, NEW j \in 1..n, NEW l \in 1..n,
             <<i, j>> \in order, <<j, l>> \in order
      PROVE  <<i, l>> \in order
  <2>1. /\ (i < j /\ ~Less(u, v, w, i, j)) \/ (~(i < j) /\ Less(u, v, w, j, i))
        /\ (j < l /\ ~Less(u, v, w, j, l)) \/ (~(j < l) /\ Less(u, v, w, l, j))
    BY <1>2 DEF ByThree
  <2>2. (i < j /\ j < l => i < l)
    OBVIOUS
  <2>3. /\ Less(u, v, w, j, i) => ~Less(u, v, w, i, j)
        /\ Less(u, v, w, l, j) => ~Less(u, v, w, j, l)
        /\ Less(u, v, w, l, i) => ~Less(u, v, w, i, l)
        /\ ~Less(u, v, w, i, j) /\ ~Less(u, v, w, j, l) => ~Less(u, v, w, i, l)
        /\ ~Less(u, v, w, l, i) /\ ~Less(u, v, w, i, j) => ~Less(u, v, w, l, j)
        /\ ~Less(u, v, w, j, l) /\ ~Less(u, v, w, l, i) => ~Less(u, v, w, j, i)
    BY LessOrders
  <2>4. (i < l /\ ~Less(u, v, w, i, l)) \/ (~(i < l) /\ Less(u, v, w, l, i))
    BY <2>1, <2>2, <2>3, Zenon
  <2> QED
    BY <2>4 DEF ByThree
<1> QED
  BY <1>1, <1>2 DEF Ordered

LEMMA PartsOrdered ==
  ASSUME NEW values \in Seq(Nat \ {0}), NEW k \in Nat,
         NEW s \in [1..k -> Seq(Items(values))], Apart(k, s)
  PROVE  /\ Ordered(k, PartsOrder(k, s))
         /\ \A i, j \in 1..k : i # j =>
              (<<i, j>> \in PartsOrder(k, s)
                 <=> Below(s[j], s[i]) \/ (~Below(s[i], s[j]) /\ i < j))
<1>1. \A i \in 1..k : PartSum(s[i]) \in Nat /\ Len(s[i]) \in Nat /\ Lead(s[i]) \in Nat
  BY PartSumNumber, LeadNumber
<1>2. ASSUME NEW i \in 1..k, NEW j \in 1..k PROVE PartBefore(s[i], s[j]) <=> Below(s[i], s[j])
  <2>1. s[i] # << >> /\ s[j] # << >> /\ s[i][1] = s[j][1] => i = j
    <3> SUFFICES ASSUME s[i] # << >>, s[j] # << >>, s[i][1] = s[j][1] PROVE i = j
      OBVIOUS
    <3>1. 1 \in 1..Len(s[i]) /\ 1 \in 1..Len(s[j])
      OBVIOUS
    <3> QED
      BY <3>1 DEF Apart
  <2> QED
    BY <2>1, BelowIsBefore
<1>3. \A i, j \in 1..k : <<i, j>> \in PartsOrder(k, s)
        <=> (i < j /\ ~Below(s[i], s[j])) \/ (~(i < j) /\ Below(s[j], s[i]))
  <2>1. \A i, j \in 1..k : <<i, j>> \in PartsOrder(k, s)
          <=> (i < j /\ ~PartBefore(s[i], s[j])) \/ (~(i < j) /\ PartBefore(s[j], s[i]))
    BY DEF PartsOrder
  <2> QED
    BY <1>2, <2>1
<1> DEFINE sum == [i \in 1..k |-> PartSum(s[i])]
           length == [i \in 1..k |-> Len(s[i])]
           lead == [i \in 1..k |-> Lead(s[i])]
<1>4. sum \in [1..k -> Nat] /\ length \in [1..k -> Nat] /\ lead \in [1..k -> Nat]
  BY <1>1
<1>5. \A i, j \in 1..k : Below(s[i], s[j]) <=> Less(sum, length, lead, i, j)
  BY DEF Below, Less, Lower
<1>6. \A i, j \in 1..k : <<i, j>> \in PartsOrder(k, s)
        <=> \/ i < j /\ ~Less(sum, length, lead, i, j)
            \/ ~(i < j) /\ Less(sum, length, lead, j, i)
  <2> HIDE DEF sum, length, lead
  <2> QED
    BY <1>3, <1>5
<1>8. ByThree(k, sum, length, lead, PartsOrder(k, s))
  <2> HIDE DEF sum, length, lead
  <2> QED
    BY <1>6 DEF ByThree
<1>7. /\ Ordered(k, PartsOrder(k, s))
      /\ \A i, j \in 1..k : i # j =>
           (<<i, j>> \in PartsOrder(k, s)
              <=> Less(sum, length, lead, j, i) \/ (~Less(sum, length, lead, i, j) /\ i < j))
  <2> HIDE DEF sum, length, lead
  <2> QED
    BY <1>4, <1>8, OrderedByThree
<1> QED
  BY <1>5, <1>7

PartCounts(d, entries) ==
  [i \in d |-> Earlier(entries, LAMBDA x, y : PartBefore(y, x), i)]

LEMMA DecreasingParts ==
  ASSUME NEW values \in Seq(Nat \ {0}), NEW k \in Nat,
         NEW s \in [1..k -> Seq(Items(values))], Apart(k, s)
  PROVE  SameParts(k, s, Decreasing(s)) /\ FilledFirst(k, Decreasing(s))
<1>1. Ordered(k, PartsOrder(k, s))
  BY PartsOrdered
<1>2. PICK p : p = InOrder(k, PartsOrder(k, s))
  OBVIOUS
<1>3. /\ p \in [1..k -> 1..k]
      /\ \A a, b \in 1..k : p[a] = p[b] => a = b
      /\ \A i \in 1..k : \E a \in 1..k : p[a] = i
      /\ \A a, b \in 1..k : a < b => <<p[a], p[b]>> \in PartsOrder(k, s)
  <2>1. Sorts(k, PartsOrder(k, s), p)
    BY <1>1, <1>2, InOrderSorts
  <2> QED
    BY <2>1 DEF Sorts
<1>4. Len(s) = k /\ Tuple(s) = s /\ Indices(s) = 1..k
  <2>1. s = [i \in 1..k |-> s[i]]
    OBVIOUS
  <2> QED
    BY <2>1, TupleSame DEF Indices
<1>5. \A i \in 1..k : Earlier(s, LAMBDA x, y : PartBefore(y, x), i)
                        = Cardinality(Preceding(k, PartsOrder(k, s), i))
  <2> SUFFICES ASSUME NEW i \in 1..k
               PROVE  Earlier(s, LAMBDA x, y : PartBefore(y, x), i)
                        = Cardinality(Preceding(k, PartsOrder(k, s), i))
    OBVIOUS
  <2>1. {j \in 1..k : IF j < i THEN ~PartBefore(s[j], s[i]) ELSE PartBefore(s[i], s[j])}
          = Preceding(k, PartsOrder(k, s), i)
    BY DEF Preceding, PartsOrder
  <2> QED
    BY <1>4, <2>1 DEF Earlier
<1>6. Decreasing(s) = [m \in 1..k |-> s[p[m]]]
  <2>1. Decreasing(s) = ByCount(Indices(s), Tuple(s), Tuple(PartCounts(Indices(s), Tuple(s))))
    BY DEF Decreasing, SortBy, ByCount, PartCounts
  <2>2. PartCounts(1..k, s) = CountsOf(k, PartsOrder(k, s))
    BY <1>5 DEF PartCounts, CountsOf
  <2>3. ByCount(1..k, s, Tuple(PartCounts(1..k, s)))
          = Picked(k, s, InOrder(k, PartsOrder(k, s)))
    BY <2>2, ByCountInOrder
  <2> QED
    BY <1>2, <1>4, <2>1, <2>3 DEF Picked
<1>7. SameParts(k, s, Decreasing(s))
  BY <1>3, <1>6 DEF SameParts
<1>8. FilledFirst(k, Decreasing(s))
  <2> SUFFICES ASSUME NEW a \in 1..k, NEW b \in 1..k, a < b, Decreasing(s)[a] = << >>
               PROVE  Decreasing(s)[b] = << >>
    BY DEF FilledFirst
  <2>1. PICK i \in 1..k, j \in 1..k : i = p[a] /\ j = p[b]
    BY <1>3
  <2>2. s[i] = << >> /\ Decreasing(s)[b] = s[j] /\ i # j /\ <<i, j>> \in PartsOrder(k, s)
    BY <1>3, <1>6, <2>1
  <2>3. PartSum(s[i]) = 0 /\ PartSum(s[j]) \in Nat /\ (s[j] = << >> <=> PartSum(s[j]) = 0)
    BY <2>2, PartSumNumber
  <2>4. ~Below(s[i], s[j]) \/ Below(s[j], s[i])
    BY <2>2, PartsOrdered
  <2>5. PartSum(s[j]) = 0
    BY <2>3, <2>4 DEF Below
  <2> QED
    BY <2>2, <2>3, <2>5
<1> QED
  BY <1>7, <1>8

AtMost(n, k) == IF n < k THEN n ELSE k

\* A state has as many filled parts as it can have with its items, and they
\* come first.
IsState(values, k, s) ==
  /\ s \in [1..k -> Seq(Items(values))]
  /\ Apart(k, s)
  /\ FilledFirst(k, s)
  /\ NumberFilled(k, s) = AtMost(Cardinality(Held(values, k, s)), k)

LEMMA ItemsFinite ==
  ASSUME NEW values \in Seq(Nat \ {0})
  PROVE  IsFiniteSet(Items(values)) /\ Cardinality(Items(values)) = Len(values)
<1>1. PICK n \in Nat : n = Len(values)
  OBVIOUS
<1> DEFINE f == [i \in 1..n |-> <<i, values[i]>>]
<1>2. f \in Bijection(1..n, Items(values))
  <2>1. f \in [1..n -> Items(values)]
    BY <1>1 DEF Items
  <2>2. \A i, j \in 1..n : f[i] = f[j] => i = j
    OBVIOUS
  <2>3. \A x \in Items(values) : \E i \in 1..n : f[i] = x
    BY <1>1 DEF Items
  <2> HIDE DEF f
  <2> QED
    BY <2>1, <2>2, <2>3 DEF Bijection, Injection, IsInjective, Surjection
<1>3. ExistsBijection(1..n, Items(values))
  <2> HIDE DEF f
  <2> QED
    BY <1>2 DEF ExistsBijection
<1>4. IsFiniteSet(Items(values))
  BY <1>3, FS_NatBijection
<1> QED
  BY <1>1, <1>3, <1>4, FS_CountingElements

LEMMA HeldFinite ==
  ASSUME NEW values \in Seq(Nat \ {0}), NEW k, NEW s
  PROVE  /\ IsFiniteSet(Held(values, k, s)) /\ Cardinality(Held(values, k, s)) \in Nat
         /\ Held(values, k, s) \subseteq Items(values)
<1>1. Held(values, k, s) \in SUBSET Items(values)
  BY DEF Held
<1> QED
  BY <1>1, ItemsFinite, FS_Subset, FS_CardinalityType

LEMMA DecreasingKeeps ==
  ASSUME NEW values \in Seq(Nat \ {0}), NEW k \in Nat,
         NEW s \in [1..k -> Seq(Items(values))], Apart(k, s)
  PROVE  /\ Decreasing(s) \in [1..k -> Seq(Items(values))]
         /\ Apart(k, Decreasing(s)) /\ FilledFirst(k, Decreasing(s))
         /\ Held(values, k, Decreasing(s)) = Held(values, k, s)
         /\ NumberFilled(k, Decreasing(s)) = NumberFilled(k, s)
<1>1. SameParts(k, s, Decreasing(s)) /\ FilledFirst(k, Decreasing(s))
  BY DecreasingParts
<1>2. PICK t : t = Decreasing(s)
  OBVIOUS
<1>3. SameParts(k, s, t)
  BY <1>1, <1>2
<1>4. /\ t \in [1..k -> Seq(Items(values))]
      /\ Apart(k, t)
      /\ Held(values, k, t) = Held(values, k, s)
  BY <1>3, SamePartsKeep
<1>5. NumberFilled(k, t) = NumberFilled(k, s)
  BY <1>3, SameNumberFilled
<1> QED
  BY <1>1, <1>2, <1>4, <1>5

LEMMA SortedState ==
  ASSUME NEW values \in Seq(Nat \ {0}), NEW k \in Nat,
         NEW s \in [1..k -> Seq(Items(values))], Apart(k, s),
         NumberFilled(k, s) = AtMost(Cardinality(Held(values, k, s)), k)
  PROVE  /\ IsState(values, k, Decreasing(s))
         /\ Held(values, k, Decreasing(s)) = Held(values, k, s)
  BY DecreasingKeeps DEF IsState

\* The state of one row has the row in its first part.
LEMMA FirstState ==
  ASSUME NEW values \in Seq(Nat \ {0}), NEW k \in Nat \ {0}, NEW x \in Items(values)
  PROVE  /\ IsState(values, k, InitialState(<<x>>, k))
         /\ Held(values, k, InitialState(<<x>>, k)) = {x}
<1> DEFINE s == [i \in 1..k |-> IF i <= Len(<<x>>) THEN <<(<<x>>)[i]>> ELSE << >>]
<1>1. InitialState(<<x>>, k) = Decreasing(s)
  BY DEF InitialState
<1>2. \A i \in 1..k : s[i] = IF i = 1 THEN <<x>> ELSE << >>
  OBVIOUS
<1>3. s \in [1..k -> Seq(Items(values))]
  OBVIOUS
<1> HIDE DEF s
<1>4. \A i \in 1..k : \A j \in 1..Len(s[i]) : i = 1 /\ j = 1 /\ s[i][j] = x
  <2> SUFFICES ASSUME NEW i \in 1..k, NEW j \in 1..Len(s[i])
               PROVE  i = 1 /\ j = 1 /\ s[i][j] = x
    OBVIOUS
  <2>1. i = 1
    <3>1. i # 1 => s[i] = << >> /\ Len(s[i]) = 0
      BY <1>2
    <3> QED
      BY <3>1
  <2>2. s[i] = <<x>> /\ Len(<<x>>) = 1 /\ (<<x>>)[1] = x
    BY <1>2, <2>1
  <2>3. j = 1
    BY <2>2
  <2> QED
    BY <2>1, <2>2, <2>3
<1>5. 1 \in 1..k /\ Len(s[1]) = 1 /\ s[1][1] = x
  BY <1>2
<1>6. Apart(k, s)
  BY <1>4 DEF Apart
<1>7. Held(values, k, s) = {x}
  <2>1. \E j \in 1..Len(s[1]) : s[1][j] = x
    BY <1>5
  <2>2. x \in Held(values, k, s)
    BY <1>5, <2>1 DEF Held
  <2>3. \A y \in Held(values, k, s) : y = x
    BY <1>4 DEF Held
  <2> QED
    BY <2>2, <2>3
<1>8. Filled(k, s) = {1}
  BY <1>2, <1>5 DEF Filled
<1>9. NumberFilled(k, s) = AtMost(Cardinality(Held(values, k, s)), k)
  <2>1. Cardinality(Held(values, k, s)) = 1 /\ NumberFilled(k, s) = 1
    BY <1>7, <1>8, FS_Singleton DEF NumberFilled
  <2> QED
    BY <2>1 DEF AtMost
<1>10. IsState(values, k, Decreasing(s)) /\ Held(values, k, Decreasing(s)) = Held(values, k, s)
  BY <1>3, <1>6, <1>9, SortedState
<1> QED
  BY <1>1, <1>7, <1>10

\* The last filled parts of one against the first of another.
LEMMA FilledFromBothEnds ==
  ASSUME NEW k \in Nat, NEW a \in 0..k, NEW b \in 0..k
  PROVE  Cardinality((1..a) \cup ((k + 1 - b)..k)) = AtMost(a + b, k)
<1>1. IsFiniteSet(1..a) /\ Cardinality(1..a) = a
  <2>1. 1 \in Int /\ a \in Int /\ (1 > a => a = 0) /\ a - 1 + 1 = a
    OBVIOUS
  <2> QED
    BY <2>1, FS_Interval
<1>2. IsFiniteSet((k + 1 - b)..k) /\ Cardinality((k + 1 - b)..k) = b
  <2>1. k + 1 - b \in Int /\ k \in Int /\ (k + 1 - b > k => b = 0) /\ k - (k + 1 - b) + 1 = b
    OBVIOUS
  <2>2. Cardinality((k + 1 - b)..k) = IF k + 1 - b > k THEN 0 ELSE k - (k + 1 - b) + 1
    BY <2>1, FS_Interval
  <2> QED
    BY <2>1, <2>2, FS_Interval
<1>3. CASE a + b < k
  <2>1. (1..a) \cap ((k + 1 - b)..k) = {}
    BY <1>3
  <2>2. Cardinality((1..a) \cup ((k + 1 - b)..k)) = a + b - 0
    <3>1. PICK p, q : p = 1..a /\ q = (k + 1 - b)..k
      OBVIOUS
    <3>2. Cardinality(p \cup q) = Cardinality(p) + Cardinality(q) - Cardinality(p \cap q)
      BY <1>1, <1>2, <3>1, FS_Union
    <3>3. Cardinality(p \cap q) = 0
      BY <2>1, <3>1, FS_EmptySet
    <3> QED
      BY <1>1, <1>2, <3>1, <3>2, <3>3
  <2> QED
    BY <1>3, <2>2 DEF AtMost
<1>4. CASE ~(a + b < k)
  <2>1. (1..a) \cup ((k + 1 - b)..k) = 1..k
    BY <1>4
  <2>2. Cardinality(1..k) = k
    <3>1. 1 \in Int /\ k \in Int /\ (1 > k => k = 0) /\ k - 1 + 1 = k
      OBVIOUS
    <3> QED
      BY <3>1, FS_Interval
  <2> QED
    BY <1>4, <2>1, <2>2 DEF AtMost
<1> QED
  BY <1>3, <1>4

\* Both states in one, part by part, before they are sorted.
Joined(k, s, t) == [i \in 1..k |-> s[i] \o t[k + 1 - i]]

\* The entries of u are those of s, then those of t from the other end.
MadeOf(k, s, t, u) ==
  /\ \A m \in 1..k : \A j \in 1..Len(u[m]) :
       \/ j \in 1..Len(s[m]) /\ u[m][j] = s[m][j]
       \/ /\ j - Len(s[m]) \in 1..Len(t[k + 1 - m])
          /\ u[m][j] = t[k + 1 - m][j - Len(s[m])]
  /\ \A m \in 1..k : \A j \in 1..Len(s[m]) : j \in 1..Len(u[m]) /\ u[m][j] = s[m][j]
  /\ \A m \in 1..k : \A j \in 1..Len(t[m]) :
       \E i \in 1..Len(u[k + 1 - m]) : u[k + 1 - m][i] = t[m][j]
  /\ \A m \in 1..k : u[m] = << >> <=> s[m] = << >> /\ t[k + 1 - m] = << >>

LEMMA JoinedEntries ==
  ASSUME NEW S, NEW k \in Nat, NEW s \in [1..k -> Seq(S)], NEW t \in [1..k -> Seq(S)]
  PROVE  /\ Joined(k, s, t) \in [1..k -> Seq(S)]
         /\ MadeOf(k, s, t, Joined(k, s, t))
<1>1. \A m \in 1..k : k + 1 - m \in 1..k /\ k + 1 - (k + 1 - m) = m
  OBVIOUS
<1>2. ASSUME NEW m \in 1..k
      PROVE  /\ Joined(k, s, t)[m] = s[m] \o t[k + 1 - m]
             /\ s[m] \o t[k + 1 - m] \in Seq(S)
             /\ Len(s[m] \o t[k + 1 - m]) = Len(s[m]) + Len(t[k + 1 - m])
             /\ \A i \in 1..Len(s[m]) : (s[m] \o t[k + 1 - m])[i] = s[m][i]
             /\ \A j \in 1..Len(t[k + 1 - m]) :
                  (s[m] \o t[k + 1 - m])[Len(s[m]) + j] = t[k + 1 - m][j]
  <2>1. s[m] \in Seq(S) /\ t[k + 1 - m] \in Seq(S)
    BY <1>1
  <2>2. Joined(k, s, t)[m] = s[m] \o t[k + 1 - m]
    BY DEF Joined
  <2> QED
    BY <2>1, <2>2, PlacesOfBoth
<1>3. Joined(k, s, t) \in [1..k -> Seq(S)]
  BY <1>2 DEF Joined
<1>4. ASSUME NEW m \in 1..k, NEW j \in 1..Len(Joined(k, s, t)[m])
      PROVE  \/ j \in 1..Len(s[m]) /\ Joined(k, s, t)[m][j] = s[m][j]
             \/ /\ j - Len(s[m]) \in 1..Len(t[k + 1 - m])
                /\ Joined(k, s, t)[m][j] = t[k + 1 - m][j - Len(s[m])]
  <2>1. PICK p \in Seq(S), q \in Seq(S) : p = s[m] /\ q = t[k + 1 - m]
    BY <1>1
  <2>2. PICK r : r = p \o q
    OBVIOUS
  <2>3. /\ Joined(k, s, t)[m] = r /\ Len(r) = Len(p) + Len(q)
        /\ \A i \in 1..Len(p) : r[i] = p[i]
        /\ \A i \in 1..Len(q) : r[Len(p) + i] = q[i]
    BY <1>2, <2>1, <2>2
  <2>4. CASE j <= Len(p)
    BY <2>1, <2>3, <2>4
  <2>5. CASE ~(j <= Len(p))
    <3>1. j - Len(p) \in 1..Len(q) /\ Len(p) + (j - Len(p)) = j
      <4>1. j \in 1..(Len(p) + Len(q)) /\ Len(p) \in Nat /\ Len(q) \in Nat
        BY <2>3
      <4> QED
        BY <2>5, <4>1
    <3>2. r[j] = q[j - Len(p)]
      BY <2>3, <3>1
    <3> QED
      BY <2>1, <2>3, <3>1, <3>2
  <2> QED
    BY <2>4, <2>5
<1>5. ASSUME NEW m \in 1..k, NEW j \in 1..Len(s[m])
      PROVE  j \in 1..Len(Joined(k, s, t)[m]) /\ Joined(k, s, t)[m][j] = s[m][j]
  <2>1. Len(s[m]) \in Nat /\ Len(t[k + 1 - m]) \in Nat
    BY <1>1
  <2>2. j \in 1..(Len(s[m]) + Len(t[k + 1 - m]))
    BY <2>1
  <2> QED
    BY <1>2, <2>2
<1>6. ASSUME NEW m \in 1..k, NEW j \in 1..Len(t[m])
      PROVE  \E i \in 1..Len(Joined(k, s, t)[k + 1 - m]) : Joined(k, s, t)[k + 1 - m][i] = t[m][j]
  <2>1. PICK l \in 1..k : l = k + 1 - m /\ k + 1 - l = m
    BY <1>1
  <2>2. Len(s[l]) \in Nat /\ Len(t[m]) \in Nat
    OBVIOUS
  <2>3. /\ Len(Joined(k, s, t)[l]) = Len(s[l]) + Len(t[m])
        /\ Joined(k, s, t)[l][Len(s[l]) + j] = t[m][j]
    <3>1. PICK r : r = s[l] \o t[k + 1 - l]
      OBVIOUS
    <3>2. /\ Joined(k, s, t)[l] = r /\ Len(r) = Len(s[l]) + Len(t[k + 1 - l])
          /\ \A i \in 1..Len(t[k + 1 - l]) : r[Len(s[l]) + i] = t[k + 1 - l][i]
      BY <1>2, <3>1
    <3> QED
      BY <2>1, <3>2
  <2>4. Len(s[l]) + j \in 1..Len(Joined(k, s, t)[l])
    BY <2>2, <2>3
  <2> QED
    BY <2>1, <2>3, <2>4
<1>7. ASSUME NEW m \in 1..k
      PROVE  Joined(k, s, t)[m] = << >> <=> s[m] = << >> /\ t[k + 1 - m] = << >>
  <2>1. PICK p \in Seq(S), q \in Seq(S) : p = s[m] /\ q = t[k + 1 - m]
    BY <1>1
  <2>2. Joined(k, s, t)[m] = p \o q
    BY <1>2, <2>1
  <2>3. p \o q = << >> <=> p = << >> /\ q = << >>
    OBVIOUS
  <2> QED
    BY <2>1, <2>2, <2>3
<1> QED
  BY <1>3, <1>4, <1>5, <1>6, <1>7 DEF MadeOf

NoneShared(k, s, t) ==
  \A m, l \in 1..k : \A j \in 1..Len(s[m]) : \A i \in 1..Len(t[l]) : s[m][j] # t[l][i]

LEMMA ApartJoined ==
  ASSUME NEW S, NEW k \in Nat, NEW s \in [1..k -> Seq(S)], NEW t \in [1..k -> Seq(S)],
         Apart(k, s), Apart(k, t), NoneShared(k, s, t),
         NEW u \in [1..k -> Seq(S)], MadeOf(k, s, t, u)
  PROVE  Apart(k, u)
<1> SUFFICES ASSUME NEW m \in 1..k, NEW l \in 1..k, NEW j \in 1..Len(u[m]),
                    NEW i \in 1..Len(u[l]), u[m][j] = u[l][i]
             PROVE  m = l /\ j = i
  BY DEF Apart
<1>1. PICK a \in 1..k, b \in 1..k : a = k + 1 - m /\ b = k + 1 - l
  <2>1. \A c \in 1..k : k + 1 - c \in 1..k
    OBVIOUS
  <2> QED
    BY <2>1
<1>2. \/ j \in 1..Len(s[m]) /\ u[m][j] = s[m][j]
      \/ j - Len(s[m]) \in 1..Len(t[a]) /\ u[m][j] = t[a][j - Len(s[m])]
  BY <1>1 DEF MadeOf
<1>3. \/ i \in 1..Len(s[l]) /\ u[l][i] = s[l][i]
      \/ i - Len(s[l]) \in 1..Len(t[b]) /\ u[l][i] = t[b][i - Len(s[l])]
  BY <1>1 DEF MadeOf
<1>4. CASE /\ j \in 1..Len(s[m]) /\ u[m][j] = s[m][j]
           /\ i \in 1..Len(s[l]) /\ u[l][i] = s[l][i]
  <2>2. s[m][j] = s[l][i] /\ j \in 1..Len(s[m]) /\ i \in 1..Len(s[l])
    BY <1>4
  <2> QED
    BY <2>2 DEF Apart
<1>5. CASE /\ j - Len(s[m]) \in 1..Len(t[a]) /\ u[m][j] = t[a][j - Len(s[m])]
           /\ i - Len(s[l]) \in 1..Len(t[b]) /\ u[l][i] = t[b][i - Len(s[l])]
  <2>1. PICK x, y : x = j - Len(s[m]) /\ y = i - Len(s[l])
    OBVIOUS
  <2>2. x \in 1..Len(t[a]) /\ y \in 1..Len(t[b]) /\ t[a][x] = t[b][y]
    BY <1>5, <2>1
  <2>3. a = b /\ x = y
    <3>1. \A e \in 1..Len(t[a]) : \A f \in 1..Len(t[b]) : t[a][e] = t[b][f] => a = b /\ e = f
      BY Zenon DEF Apart
    <3> QED
      BY <2>2, <3>1, Zenon
  <2>4. m = l
    <3>1. k + 1 - m = k + 1 - l
      BY <1>1, <2>3
    <3>2. \A c, d \in Int : k + 1 - c = k + 1 - d => c = d
      OBVIOUS
    <3>3. m \in Int /\ l \in Int
      OBVIOUS
    <3> QED
      BY <3>1, <3>2, <3>3, Zenon
  <2>5. Len(s[m]) \in Nat /\ Len(s[m]) = Len(s[l]) /\ j \in Int /\ i \in Int
    <3>1. s[m] \in Seq(S) /\ u[m] \in Seq(S) /\ u[l] \in Seq(S)
      OBVIOUS
    <3> QED
      BY <2>4, <3>1
  <2>6. j = i
    BY <2>1, <2>3, <2>5
  <2> QED
    BY <2>4, <2>6
<1>6. CASE /\ j \in 1..Len(s[m]) /\ u[m][j] = s[m][j]
           /\ i - Len(s[l]) \in 1..Len(t[b]) /\ u[l][i] = t[b][i - Len(s[l])]
  BY <1>6 DEF NoneShared
<1>7. CASE /\ j - Len(s[m]) \in 1..Len(t[a]) /\ u[m][j] = t[a][j - Len(s[m])]
           /\ i \in 1..Len(s[l]) /\ u[l][i] = s[l][i]
  BY <1>7 DEF NoneShared
<1> QED
  BY <1>2, <1>3, <1>4, <1>5, <1>6, <1>7

LEMMA MergedState ==
  ASSUME NEW values \in Seq(Nat \ {0}), NEW k \in Nat \ {0}, NEW s, NEW t,
         IsState(values, k, s), IsState(values, k, t),
         Held(values, k, s) \cap Held(values, k, t) = {}
  PROVE  /\ IsState(values, k, Merge(s, t))
         /\ Held(values, k, Merge(s, t)) = Held(values, k, s) \cup Held(values, k, t)
<1>1. s \in [1..k -> Seq(Items(values))] /\ t \in [1..k -> Seq(Items(values))]
  BY DEF IsState
<1>2. PICK u : u = Joined(k, s, t)
  OBVIOUS
<1>3. Merge(s, t) = Decreasing(u)
  <2>1. Len(s) = k /\ Len(t) = k
    <3>1. s = [i \in 1..k |-> s[i]] /\ t = [i \in 1..k |-> t[i]]
      BY <1>1
    <3> QED
      BY <3>1, TupleSame
  <2> QED
    BY <1>2, <2>1 DEF Merge, Joined
<1>4. \A m \in 1..k : k + 1 - m \in 1..k /\ k + 1 - (k + 1 - m) = m
  OBVIOUS
<1>5. u \in [1..k -> Seq(Items(values))] /\ MadeOf(k, s, t, u)
  BY <1>1, <1>2, JoinedEntries
<1>10. Apart(k, s) /\ Apart(k, t)
  BY DEF IsState
<1>6. /\ \A m \in 1..k : \A j \in 1..Len(s[m]) : s[m][j] \in Held(values, k, s)
      /\ \A m \in 1..k : \A j \in 1..Len(t[m]) : t[m][j] \in Held(values, k, t)
  <2>1. /\ \A m \in 1..k : \A j \in 1..Len(s[m]) : s[m][j] \in Items(values)
        /\ \A m \in 1..k : \A j \in 1..Len(t[m]) : t[m][j] \in Items(values)
    BY <1>1
  <2> QED
    BY <2>1 DEF Held
<1>7. Apart(k, u)
  <2>1. NoneShared(k, s, t)
    BY <1>6 DEF NoneShared
  <2> QED
    BY <1>1, <1>5, <1>10, <2>1, ApartJoined
<1>8. Held(values, k, u) = Held(values, k, s) \cup Held(values, k, t)
  <2>1. ASSUME NEW x \in Held(values, k, u)
        PROVE  x \in Held(values, k, s) \cup Held(values, k, t)
    <3>1. PICK m \in 1..k : \E j \in 1..Len(u[m]) : u[m][j] = x
      BY DEF Held
    <3>2. PICK j \in 1..Len(u[m]) : u[m][j] = x
      BY <3>1
    <3>3. PICK a \in 1..k : a = k + 1 - m
      BY <1>4
    <3>4. \/ j \in 1..Len(s[m]) /\ u[m][j] = s[m][j]
          \/ j - Len(s[m]) \in 1..Len(t[a]) /\ u[m][j] = t[a][j - Len(s[m])]
      BY <1>5, <3>3 DEF MadeOf
    <3> QED
      BY <1>6, <3>2, <3>4
  <2>2. ASSUME NEW x \in Held(values, k, s) PROVE x \in Held(values, k, u)
    <3>1. x \in Items(values) /\ \E m \in 1..k : \E j \in 1..Len(s[m]) : s[m][j] = x
      BY DEF Held
    <3>2. PICK m \in 1..k : \E j \in 1..Len(s[m]) : s[m][j] = x
      BY <3>1
    <3>4. PICK j \in 1..Len(s[m]) : s[m][j] = x
      BY <3>2
    <3>3. j \in 1..Len(u[m]) /\ u[m][j] = x
      BY <1>5, <3>4 DEF MadeOf
    <3> QED
      BY <3>1, <3>3 DEF Held
  <2>3. ASSUME NEW x \in Held(values, k, t) PROVE x \in Held(values, k, u)
    <3>1. x \in Items(values) /\ \E m \in 1..k : \E j \in 1..Len(t[m]) : t[m][j] = x
      BY DEF Held
    <3>2. PICK m \in 1..k : \E j \in 1..Len(t[m]) : t[m][j] = x
      BY <3>1
    <3>4. PICK j \in 1..Len(t[m]) : t[m][j] = x
      BY <3>2
    <3>3. PICK l \in 1..k : l = k + 1 - m
      BY <1>4
    <3>5. \E i \in 1..Len(u[l]) : u[l][i] = x
      <4>1. \E i \in 1..Len(u[k + 1 - m]) : u[k + 1 - m][i] = t[m][j]
        BY <1>5 DEF MadeOf
      <4> QED
        BY <3>3, <3>4, <4>1
    <3> QED
      BY <3>1, <3>5 DEF Held
  <2> QED
    BY <2>1, <2>2, <2>3
<1>9. NumberFilled(k, u) = AtMost(Cardinality(Held(values, k, u)), k)
  <2>1. PICK a \in 0..k, b \in 0..k :
          /\ a = NumberFilled(k, s) /\ Filled(k, s) = 1..a
          /\ b = NumberFilled(k, t) /\ Filled(k, t) = 1..b
    BY FilledCount DEF IsState
  <2>2. PICK c \in Nat, d \in Nat :
          c = Cardinality(Held(values, k, s)) /\ d = Cardinality(Held(values, k, t))
    BY HeldFinite
  <2>3. Cardinality(Held(values, k, u)) = c + d
    <3>1. PICK p, q : p = Held(values, k, s) /\ q = Held(values, k, t)
      OBVIOUS
    <3>2. Cardinality(p \cup q) = Cardinality(p) + Cardinality(q) - Cardinality(p \cap q)
      BY <3>1, HeldFinite, FS_Union
    <3>3. Cardinality(p \cap q) = 0
      BY <3>1, FS_EmptySet
    <3> QED
      BY <1>8, <2>2, <3>1, <3>2, <3>3
  <2>4. Filled(k, u) = (1..a) \cup ((k + 1 - b)..k)
    <3>1. \A m \in 1..k : (s[m] # << >> <=> m \in 1..a) /\ (t[m] # << >> <=> m \in 1..b)
      BY <2>1 DEF Filled
    <3>2. \A m \in 1..k : t[k + 1 - m] # << >> <=> m \in (k + 1 - b)..k
      <4> SUFFICES ASSUME NEW m \in 1..k
                   PROVE  t[k + 1 - m] # << >> <=> m \in (k + 1 - b)..k
        OBVIOUS
      <4>1. t[k + 1 - m] # << >> <=> k + 1 - m \in 1..b
        BY <1>4, <3>1
      <4> QED
        BY <4>1
    <3>3. (1..a) \cup ((k + 1 - b)..k) \subseteq 1..k
      OBVIOUS
    <3>4. \A m \in 1..k : u[m] # << >> <=> m \in (1..a) \cup ((k + 1 - b)..k)
      BY <1>5, <3>1, <3>2 DEF MadeOf
    <3> QED
      BY <3>3, <3>4 DEF Filled
  <2>5. NumberFilled(k, u) = AtMost(a + b, k)
    BY <2>4, FilledFromBothEnds DEF NumberFilled
  <2>6. a = AtMost(c, k) /\ b = AtMost(d, k)
    BY <2>1, <2>2 DEF IsState
  <2> QED
    BY <2>3, <2>5, <2>6 DEF AtMost
<1>11. u \in [1..k -> Seq(Items(values))]
  BY <1>5
<1>12. IsState(values, k, Decreasing(u)) /\ Held(values, k, Decreasing(u)) = Held(values, k, u)
  BY <1>7, <1>9, <1>11, SortedState
<1> QED
  BY <1>3, <1>8, <1>12

-----------------------------------------------------------------------------
(***************************************************************************)
(* The state that comes first                                              *)
(***************************************************************************)

\* A finite set in a total order has a first element.
LEMMA FirstOfFinite ==
  ASSUME NEW S, IsFiniteSet(S), S # {}, NEW before,
         \A s, t \in S : s # t => <<s, t>> \in before \/ <<t, s>> \in before,
         \A r, s, t \in S : <<r, s>> \in before /\ <<s, t>> \in before => <<r, t>> \in before
  PROVE  \E s \in S : \A t \in S \ {s} : <<s, t>> \in before
<1> DEFINE Has(Q) == \E s \in Q : \A t \in Q \ {s} : <<s, t>> \in before
           T == {n \in Nat : \A Q \in SUBSET S : Cardinality(Q) = n + 1 => Has(Q)}
<1>1. \A Q \in SUBSET S : IsFiniteSet(Q) /\ Cardinality(Q) \in Nat
  BY FS_Subset, FS_CardinalityType
<1>2. 0 \in T
  <2> SUFFICES ASSUME NEW Q \in SUBSET S, Cardinality(Q) = 0 + 1 PROVE Has(Q)
    OBVIOUS
  <2>1. PICK x : Q = {x}
    BY <1>1, FS_Singleton
  <2> QED
    BY <2>1
<1>3. ASSUME NEW n \in Nat, n \in T PROVE n + 1 \in T
  <2> SUFFICES ASSUME NEW Q \in SUBSET S, Cardinality(Q) = (n + 1) + 1 PROVE Has(Q)
    OBVIOUS
  <2>1. PICK x \in Q : TRUE
    <3>1. Q # {}
      BY <1>1, FS_EmptySet
    <3> QED
      BY <3>1
  <2>2. Q \ {x} \in SUBSET S /\ Cardinality(Q \ {x}) = n + 1
    BY <1>1, FS_RemoveElement
  <2>3. PICK s \in Q \ {x} : \A t \in (Q \ {x}) \ {s} : <<s, t>> \in before
    BY <1>3, <2>2
  <2>4. CASE <<s, x>> \in before
    <3>1. \A t \in Q \ {s} : <<s, t>> \in before
      BY <2>3, <2>4
    <3> QED
      BY <3>1
  <2>5. CASE <<x, s>> \in before
    <3>1. ASSUME NEW t \in Q \ {x} PROVE <<x, t>> \in before
      <4>1. CASE t = s
        BY <2>5, <4>1
      <4>2. CASE t # s
        <5>1. <<s, t>> \in before
          BY <2>3, <4>2
        <5> QED
          BY <2>5, <5>1
      <4> QED
        BY <4>1, <4>2
    <3> QED
      BY <3>1
  <2> QED
    BY <2>3, <2>4, <2>5
<1>4. PICK n \in Nat : Cardinality(S) = n + 1
  <2>1. Cardinality(S) \in Nat /\ Cardinality(S) # 0
    BY FS_EmptySet, FS_CardinalityType
  <2>2. Cardinality(S) - 1 \in Nat /\ Cardinality(S) = (Cardinality(S) - 1) + 1
    BY <2>1
  <2> QED
    BY <2>2
<1>5. n \in T
  <2> HIDE DEF T
  <2> QED
    BY <1>2, <1>3, Induction
<1> QED
  BY <1>4, <1>5

LEMMA BelowOrders ==
  ASSUME NEW values \in Seq(Nat \ {0}), NEW p \in Seq(Items(values)),
         NEW q \in Seq(Items(values)), NEW r \in Seq(Items(values))
  PROVE  /\ Below(p, q) /\ Below(q, r) => Below(p, r)
         /\ Lead(p) # Lead(q) => Below(p, q) \/ Below(q, p)
<1>1. /\ PartSum(p) \in Nat /\ Len(p) \in Nat /\ Lead(p) \in Nat
      /\ PartSum(q) \in Nat /\ Len(q) \in Nat /\ Lead(q) \in Nat
      /\ PartSum(r) \in Nat /\ Len(r) \in Nat /\ Lead(r) \in Nat
  BY PartSumNumber, LeadNumber
<1>2. Below(p, q) /\ Below(q, r) => Below(p, r)
  BY <1>1 DEF Below
<1>3. Lead(p) # Lead(q) => Below(p, q) \/ Below(q, p)
  BY <1>1 DEF Below
<1> QED
  BY <1>2, <1>3

\* Some states: every one holds items, none of another's.
Stage(values, k, states) ==
  /\ IsFiniteSet(states)
  /\ \A s \in states : IsState(values, k, s) /\ Held(values, k, s) # {}
  /\ \A s, t \in states : s # t => Held(values, k, s) \cap Held(values, k, t) = {}

\* The largest part of a state with items is not empty.
LEMMA LargestPart ==
  ASSUME NEW values \in Seq(Nat \ {0}), NEW k \in Nat \ {0}, NEW s,
         IsState(values, k, s), Held(values, k, s) # {}
  PROVE  /\ s \in [1..k -> Seq(Items(values))] /\ Len(s) = k
         /\ s[1] \in Seq(Items(values)) /\ s[1] # << >>
         /\ Spread(s) \in Int
         /\ Lead(s[1]) = s[1][1][1] /\ s[1][1] \in Held(values, k, s)
<1>1. s \in [1..k -> Seq(Items(values))] /\ FilledFirst(k, s)
  BY DEF IsState
<1>2. 1 \in 1..k /\ k \in 1..k /\ s[1] \in Seq(Items(values)) /\ s[k] \in Seq(Items(values))
  BY <1>1
<1>3. s[1] # << >>
  <2>1. Cardinality(Held(values, k, s)) \in Nat \ {0}
    BY HeldFinite, FS_EmptySet
  <2>2. NumberFilled(k, s) # 0 /\ NumberFilled(k, s) \in 0..k
    BY <1>1, <2>1, FilledCount DEF IsState, AtMost
  <2>3. 1 \in Filled(k, s)
    BY <1>1, <2>2, FilledCount
  <2> QED
    BY <2>3 DEF Filled
<1>4. Len(s) = k
  <2>1. s = [i \in 1..k |-> s[i]]
    BY <1>1
  <2> QED
    BY <2>1, TupleSame
<1>5. Spread(s) \in Int
  <2>1. PartSum(s[1]) \in Nat /\ PartSum(s[k]) \in Nat
    BY <1>2, PartSumNumber
  <2> QED
    BY <1>4, <2>1 DEF Spread
<1>6. s[1][1] \in Held(values, k, s)
  <2>1. 1 \in 1..Len(s[1]) /\ s[1][1] \in Items(values)
    BY <1>2, <1>3
  <2> QED
    BY <1>2, <2>1 DEF Held
<1>7. Lead(s[1]) = s[1][1][1]
  BY <1>3 DEF Lead
<1> QED
  BY <1>1, <1>2, <1>3, <1>4, <1>5, <1>6, <1>7

\* Of two states, one is popped before the other.
Sooner(s, t) == Spread(s) > Spread(t) \/ (Spread(s) = Spread(t) /\ Below(t[1], s[1]))

LEMMA PoppedSooner ==
  ASSUME NEW values \in Seq(Nat \ {0}), NEW k \in Nat \ {0}, NEW states,
         Stage(values, k, states), NEW s \in states, NEW t \in states, s # t
  PROVE  /\ Lead(s[1]) # Lead(t[1])
         /\ PoppedBefore(s, t) <=> Sooner(s, t)
<1>1. /\ IsState(values, k, s) /\ Held(values, k, s) # {}
      /\ IsState(values, k, t) /\ Held(values, k, t) # {}
      /\ Held(values, k, s) \cap Held(values, k, t) = {}
  BY DEF Stage
<1>2. /\ s[1] \in Seq(Items(values)) /\ s[1] # << >> /\ Lead(s[1]) = s[1][1][1]
      /\ s[1][1] \in Held(values, k, s)
      /\ t[1] \in Seq(Items(values)) /\ t[1] # << >> /\ Lead(t[1]) = t[1][1][1]
      /\ t[1][1] \in Held(values, k, t)
  BY <1>1, LargestPart
<1>3. s[1][1] # t[1][1] /\ s[1][1] \in Items(values) /\ t[1][1] \in Items(values)
  BY <1>1, <1>2, HeldFinite
<1>4. Lead(s[1]) # Lead(t[1])
  BY <1>2, <1>3, ItemOfIndex
<1>5. PartBefore(t[1], s[1]) <=> Below(t[1], s[1])
  BY <1>2, <1>3, BelowIsBefore
<1> QED
  BY <1>4, <1>5 DEF PoppedBefore, Sooner

LEMMA FirstIsOne ==
  ASSUME NEW values \in Seq(Nat \ {0}), NEW k \in Nat \ {0}, NEW states,
         Stage(values, k, states), states # {}
  PROVE  First(states) \in states
<1> DEFINE before == {e \in states \X states : PoppedBefore(e[1], e[2]) /\ e[1] # e[2]}
<1>1. \A s \in states :
        Spread(s) \in Int /\ s[1] \in Seq(Items(values)) /\ Lead(s[1]) \in Nat
  BY LargestPart, LeadNumber DEF Stage
<1>2. ASSUME NEW s \in states, NEW t \in states, s # t
      PROVE  <<s, t>> \in before \/ <<t, s>> \in before
  <2>1. Sooner(s, t) \/ Sooner(t, s)
    <3>1. Below(t[1], s[1]) \/ Below(s[1], t[1])
      BY <1>1, <1>2, PoppedSooner, BelowOrders
    <3>2. Spread(s) > Spread(t) \/ Spread(t) > Spread(s) \/ Spread(s) = Spread(t)
      BY <1>1
    <3> QED
      BY <3>1, <3>2 DEF Sooner
  <2> QED
    BY <1>2, <2>1, PoppedSooner
<1>3. \A s, t \in states : s # t => (<<s, t>> \in before <=> Sooner(s, t))
  BY PoppedSooner
<1>4. ASSUME NEW r \in states, NEW s \in states, NEW t \in states,
             <<r, s>> \in before, <<s, t>> \in before
      PROVE  <<r, t>> \in before
  <2>1. r # s /\ s # t /\ Sooner(r, s) /\ Sooner(s, t)
    BY <1>4, <1>3
  <2>2. Spread(r) \in Int /\ Spread(s) \in Int /\ Spread(t) \in Int
    BY <1>1
  <2>3. Below(t[1], s[1]) /\ Below(s[1], r[1]) => Below(t[1], r[1])
    BY <1>1, BelowOrders
  <2>4. Sooner(r, t)
    BY <2>1, <2>2, <2>3 DEF Sooner
  <2>5. r # t
    <3> SUFFICES ASSUME r = t PROVE FALSE
      OBVIOUS
    <3>1. Below(s[1], r[1]) /\ Below(r[1], s[1])
      BY <2>1, <2>2 DEF Sooner
    <3>2. /\ PartSum(r[1]) \in Nat /\ Len(r[1]) \in Nat /\ Lead(r[1]) \in Nat
          /\ PartSum(s[1]) \in Nat /\ Len(s[1]) \in Nat /\ Lead(s[1]) \in Nat
      BY <1>1, PartSumNumber
    <3> QED
      BY <3>1, <3>2 DEF Below
  <2> QED
    BY <1>3, <2>4, <2>5
<1>5. \E s \in states : \A t \in states \ {s} : <<s, t>> \in before
  <2>1. IsFiniteSet(states)
    BY DEF Stage
  <2> HIDE DEF before
  <2> QED
    BY <1>2, <1>4, <2>1, FirstOfFinite
<1>6. \E s \in states : \A t \in states \ {s} : PoppedBefore(s, t)
  BY <1>5
<1> QED
  BY <1>6 DEF First

-----------------------------------------------------------------------------
(***************************************************************************)
(* Merging                                                                 *)
(***************************************************************************)

Covered(values, k, states) == \A x \in Items(values) : \E s \in states : x \in Held(values, k, s)

\* n states hold every item once among them.
StageOf(values, k, n, states) ==
  Stage(values, k, states) /\ Covered(values, k, states) /\ Cardinality(states) = n

LEMMA StartingStage ==
  ASSUME NEW values \in Seq(Nat \ {0}), NEW k \in Nat \ {0}
  PROVE  StageOf(values, k, Len(values), InitialStates(values, k))
<1>1. PICK n \in Nat : n = Len(values)
  OBVIOUS
<1> DEFINE item(i) == <<i, values[i]>>
           f == [i \in 1..n |-> InitialState(<<item(i)>>, k)]
<1>2. \A i \in 1..n : item(i) \in Items(values)
  BY <1>1 DEF Items
<1>3. \A i \in 1..n : IsState(values, k, f[i]) /\ Held(values, k, f[i]) = {item(i)}
  BY <1>2, FirstState
<1>4. InitialStates(values, k) = {f[i] : i \in 1..n}
  BY <1>1 DEF InitialStates, Indices
<1>5. f \in Bijection(1..n, InitialStates(values, k))
  <2>1. f \in [1..n -> InitialStates(values, k)]
    BY <1>4
  <2>2. ASSUME NEW i \in 1..n, NEW j \in 1..n, f[i] = f[j] PROVE i = j
    <3>1. item(i) = item(j)
      <4>1. {item(i)} = {item(j)}
        BY <1>3, <2>2
      <4> QED
        BY <4>1
    <3> QED
      BY <3>1
  <2>3. \A s \in InitialStates(values, k) : \E i \in 1..n : f[i] = s
    BY <1>4
  <2> HIDE DEF f
  <2> QED
    BY <2>1, <2>2, <2>3 DEF Bijection, Injection, IsInjective, Surjection
<1>6. ExistsBijection(1..n, InitialStates(values, k))
  <2> HIDE DEF f
  <2> QED
    BY <1>5 DEF ExistsBijection
<1>7. IsFiniteSet(InitialStates(values, k)) /\ Cardinality(InitialStates(values, k)) = n
  BY <1>6, FS_NatBijection, FS_CountingElements
<1> HIDE DEF f
<1>8. ASSUME NEW s \in InitialStates(values, k), NEW t \in InitialStates(values, k), s # t
      PROVE  Held(values, k, s) \cap Held(values, k, t) = {}
  <2>1. PICK i \in 1..n, j \in 1..n : s = f[i] /\ t = f[j]
    BY <1>4
  <2>2. i # j
    BY <1>8, <2>1
  <2>3. Held(values, k, s) = {item(i)} /\ Held(values, k, t) = {item(j)}
    BY <1>3, <2>1
  <2> QED
    BY <2>2, <2>3
<1>9. \A s \in InitialStates(values, k) : IsState(values, k, s) /\ Held(values, k, s) # {}
  <2> SUFFICES ASSUME NEW s \in InitialStates(values, k)
               PROVE  IsState(values, k, s) /\ Held(values, k, s) # {}
    OBVIOUS
  <2>1. PICK i \in 1..n : s = f[i]
    BY <1>4
  <2> QED
    BY <1>3, <2>1
<1>10. Covered(values, k, InitialStates(values, k))
  <2> SUFFICES ASSUME NEW x \in Items(values)
               PROVE  \E s \in InitialStates(values, k) : x \in Held(values, k, s)
    BY DEF Covered
  <2>1. PICK i \in 1..n : x = item(i)
    BY <1>1 DEF Items
  <2> QED
    BY <1>3, <1>4, <2>1
<1> QED
  BY <1>1, <1>7, <1>8, <1>9, <1>10 DEF StageOf, Stage

\* Two states fewer, one more: it holds what they held.
LEMMA MergedStage ==
  ASSUME NEW values \in Seq(Nat \ {0}), NEW k \in Nat \ {0}, NEW n \in Nat, n >= 2,
         NEW states, StageOf(values, k, n, states)
  PROVE  StageOf(values, k, n - 1, MergeFirst(states))
<1>1. /\ Stage(values, k, states) /\ Covered(values, k, states) /\ Cardinality(states) = n
      /\ IsFiniteSet(states)
  BY DEF StageOf, Stage
<1>2. PICK s : s = First(states)
  OBVIOUS
<1>3. s \in states
  <2>1. states # {}
    BY <1>1, FS_EmptySet
  <2> QED
    BY <1>1, <1>2, <2>1, FirstIsOne
<1>4. PICK others : others = states \ {s}
  OBVIOUS
<1>5. Stage(values, k, others) /\ others # {} /\ IsFiniteSet(others) /\ Cardinality(others) = n - 1
  <2>1. IsFiniteSet(others) /\ Cardinality(others) = n - 1
    BY <1>1, <1>3, <1>4, FS_RemoveElement
  <2>2. others # {}
    BY <2>1, FS_EmptySet
  <2> QED
    BY <1>1, <1>4, <2>1, <2>2 DEF Stage
<1>6. PICK t : t = First(others)
  OBVIOUS
<1>7. t \in others /\ t \in states /\ s # t
  BY <1>4, <1>5, <1>6, FirstIsOne
<1>8. PICK rest : rest = others \ {t}
  OBVIOUS
<1>9. IsFiniteSet(rest) /\ Cardinality(rest) = n - 2
  <2>1. IsFiniteSet(rest) /\ Cardinality(rest) = n - 1 - 1
    BY <1>5, <1>7, <1>8, FS_RemoveElement
  <2> QED
    BY <2>1
<1>10. PICK m : m = Merge(s, t)
  OBVIOUS
<1>11. MergeFirst(states) = rest \cup {m}
  <2>1. rest = states \ {s, t}
    BY <1>4, <1>8
  <2> QED
    BY <1>2, <1>4, <1>6, <1>10, <2>1 DEF MergeFirst
<1>12. /\ IsState(values, k, m)
       /\ Held(values, k, m) = Held(values, k, s) \cup Held(values, k, t)
  <2>1. /\ IsState(values, k, s) /\ IsState(values, k, t)
        /\ Held(values, k, s) \cap Held(values, k, t) = {}
    BY <1>1, <1>3, <1>7 DEF Stage
  <2> QED
    BY <1>10, <2>1, MergedState
<1>13. Held(values, k, s) # {} /\ Held(values, k, m) # {}
  <2>1. Held(values, k, s) # {}
    BY <1>1, <1>3 DEF Stage
  <2> QED
    BY <1>12, <2>1
<1>14. \A r \in rest : Held(values, k, r) \cap Held(values, k, m) = {}
  <2> SUFFICES ASSUME NEW r \in rest PROVE Held(values, k, r) \cap Held(values, k, m) = {}
    OBVIOUS
  <2>1. r \in states /\ r # s /\ r # t
    BY <1>4, <1>8
  <2>2. /\ Held(values, k, r) \cap Held(values, k, s) = {}
        /\ Held(values, k, r) \cap Held(values, k, t) = {}
    BY <1>1, <1>3, <1>7, <2>1 DEF Stage
  <2> QED
    BY <1>12, <2>2
<1>15. m \notin rest
  BY <1>13, <1>14
<1>16. IsFiniteSet(rest \cup {m}) /\ Cardinality(rest \cup {m}) = n - 1
  <2>1. /\ IsFiniteSet(rest \cup {m})
        /\ Cardinality(rest \cup {m}) = IF m \in rest THEN Cardinality(rest) ELSE Cardinality(rest) + 1
    BY <1>9, FS_AddElement
  <2> QED
    BY <1>9, <1>15, <2>1
<1>17. \A r \in rest : r \in states
  BY <1>4, <1>8
<1>18. Stage(values, k, rest \cup {m})
  <2>1. \A r \in rest \cup {m} : IsState(values, k, r) /\ Held(values, k, r) # {}
    BY <1>1, <1>12, <1>13, <1>17 DEF Stage
  <2>2. ASSUME NEW r \in rest \cup {m}, NEW q \in rest \cup {m}, r # q
        PROVE  Held(values, k, r) \cap Held(values, k, q) = {}
    <3>1. CASE r \in rest /\ q \in rest
      BY <1>1, <1>17, <2>2, <3>1 DEF Stage
    <3>2. CASE r = m /\ q \in rest
      BY <1>14, <3>2
    <3>3. CASE r \in rest /\ q = m
      BY <1>14, <3>3
    <3> QED
      BY <2>2, <3>1, <3>2, <3>3
  <2> QED
    BY <1>16, <2>1, <2>2 DEF Stage
<1>19. Covered(values, k, rest \cup {m})
  <2> SUFFICES ASSUME NEW x \in Items(values)
               PROVE  \E r \in rest \cup {m} : x \in Held(values, k, r)
    BY DEF Covered
  <2>1. PICK r \in states : x \in Held(values, k, r)
    BY <1>1 DEF Covered
  <2>2. r \in rest \/ r = s \/ r = t
    BY <1>4, <1>8, <2>1
  <2> QED
    BY <1>12, <2>1, <2>2
<1> QED
  BY <1>11, <1>16, <1>18, <1>19 DEF StageOf

\* The states after each merge, as the method computes them.
MergesTo(values, k, h) ==
  h = [n \in 0..(Len(values) - 1) |->
         IF n = 0 THEN InitialStates(values, k) ELSE MergeFirst(h[n - 1])]
Merges(values, k) == CHOOSE h : MergesTo(values, k, h)

\* Until one is left, the n-th merge leaves n states fewer.
LEMMA MergesExist ==
  ASSUME NEW values \in Seq(Nat \ {0}), NEW k \in Nat \ {0}, values # << >>
  PROVE  /\ MergesTo(values, k, Merges(values, k))
         /\ \A h : MergesTo(values, k, h) => StageOf(values, k, 1, h[Len(values) - 1])
<1>1. PICK last \in Nat : last = Len(values) - 1 /\ Len(values) = last + 1
  <2>1. Len(values) \in Nat \ {0}
    OBVIOUS
  <2>2. Len(values) - 1 \in Nat /\ Len(values) = (Len(values) - 1) + 1
    BY <2>1
  <2> QED
    BY <2>2
<1>2. PICK base : base = InitialStates(values, k)
  OBVIOUS
<1>3. StageOf(values, k, last + 1, base)
  BY <1>1, <1>2, StartingStage
<1> DEFINE States == [1..k -> Seq(Items(values))]
           D == {d \in SUBSET States : \E n \in Nat \ {0} : StageOf(values, k, n, d)}
           Next(d) == IF Cardinality(d) >= 2 THEN MergeFirst(d) ELSE d
           G == [m \in 1..last |-> [d \in D |-> Next(d)]]
<1>4. \A d, n : StageOf(values, k, n, d) => d \in SUBSET States
  BY DEF StageOf, Stage, IsState
<1>5. ASSUME NEW d \in D PROVE Next(d) \in D
  <2>1. PICK n \in Nat \ {0} : StageOf(values, k, n, d)
    OBVIOUS
  <2>2. Cardinality(d) = n
    BY <2>1 DEF StageOf
  <2>3. CASE n >= 2
    <3>1. StageOf(values, k, n - 1, MergeFirst(d)) /\ n - 1 \in Nat \ {0}
      BY <2>1, <2>3, MergedStage
    <3>2. MergeFirst(d) \in D
      BY <1>4, <3>1
    <3> QED
      BY <2>2, <2>3, <3>2
  <2>4. CASE ~(n >= 2)
    BY <2>2, <2>4
  <2> QED
    BY <2>3, <2>4
<1>6. base \in D
  <2>1. last + 1 \in Nat \ {0}
    OBVIOUS
  <2> QED
    BY <1>3, <1>4, <2>1
<1>7. \A m \in 1..last : \A d \in D : G[m][d] = Next(d) /\ G[m][d] \in D
  BY <1>5
<1>8. PICK h \in [0..last -> D] : Steps(last, base, G, h)
  <2> HIDE DEF D, G
  <2> QED
    BY <1>6, <1>7, Recursion
<1>9. /\ h[0] = base
      /\ \A m \in 1..last : m - 1 \in 0..last /\ h[m - 1] \in D /\ h[m] = Next(h[m - 1])
  <2>1. \A m \in 0..last : h[m] = IF m = 0 THEN base ELSE G[m][h[m - 1]]
    <3>1. h = [m \in 0..last |-> IF m = 0 THEN base ELSE G[m][h[m - 1]]]
      BY <1>8 DEF Steps
    <3> HIDE DEF D, G
    <3> QED
      BY <3>1, Zenon
  <2>2. 0 \in 0..last /\ \A m \in 1..last : m # 0 /\ m \in 0..last /\ m - 1 \in 0..last
    OBVIOUS
  <2>3. \A m \in 1..last : h[m - 1] \in D
    BY <2>2
  <2> HIDE DEF D, G
  <2> QED
    BY <1>7, <2>1, <2>2, <2>3
<1>13. ASSUME NEW g, \A m \in 1..last : Cardinality(g[m - 1]) >= 2 => g[m] = MergeFirst(g[m - 1]),
              g[0] = base
       PROVE  \A m \in 0..last : StageOf(values, k, last + 1 - m, g[m])
  <2> DEFINE T == {m \in Nat : m <= last => StageOf(values, k, last + 1 - m, g[m])}
  <2>1. 0 \in T
    BY <1>3, <1>13
  <2>2. ASSUME NEW m \in Nat, m \in T PROVE m + 1 \in T
    <3> SUFFICES ASSUME m + 1 <= last PROVE StageOf(values, k, last + 1 - (m + 1), g[m + 1])
      OBVIOUS
    <3>1. PICK n \in Nat : n = last + 1 - m /\ n >= 2 /\ n - 1 = last + 1 - (m + 1)
      OBVIOUS
    <3>2. StageOf(values, k, n, g[m])
      BY <2>2, <3>1
    <3>3. m + 1 \in 1..last /\ (m + 1) - 1 = m
      OBVIOUS
    <3>4. Cardinality(g[m]) >= 2
      BY <3>1, <3>2 DEF StageOf
    <3>5. g[m + 1] = MergeFirst(g[m])
      BY <1>13, <3>3, <3>4
    <3>6. StageOf(values, k, n - 1, MergeFirst(g[m]))
      BY <3>1, <3>2, MergedStage
    <3> QED
      BY <3>1, <3>5, <3>6
  <2>3. \A m \in Nat : m \in T
    <3> HIDE DEF T
    <3> QED
      BY <2>1, <2>2, Induction
  <2> QED
    BY <2>3
<1>10. \A m \in 0..last : StageOf(values, k, last + 1 - m, h[m])
  <2>1. \A m \in 1..last : Cardinality(h[m - 1]) >= 2 => h[m] = MergeFirst(h[m - 1])
    BY <1>9
  <2> QED
    BY <1>9, <1>13, <2>1
<1>11. MergesTo(values, k, h)
  <2>1. ASSUME NEW m \in 1..last PROVE h[m] = MergeFirst(h[m - 1])
    <3>1. StageOf(values, k, last + 1 - (m - 1), h[m - 1])
      BY <1>9, <1>10
    <3>2. Cardinality(h[m - 1]) >= 2
      BY <3>1 DEF StageOf
    <3> QED
      BY <1>9, <3>2
  <2>2. h = [n \in 0..last |-> h[n]]
    OBVIOUS
  <2>3. \A n \in 0..last : n # 0 => n \in 1..last
    OBVIOUS
  <2>4. \A n \in 0..last : h[n] = IF n = 0 THEN base ELSE MergeFirst(h[n - 1])
    BY <1>9, <2>1, <2>3
  <2>5. h = [n \in 0..last |-> IF n = 0 THEN base ELSE MergeFirst(h[n - 1])]
    BY <2>2, <2>4
  <2> QED
    BY <1>1, <1>2, <2>5 DEF MergesTo
<1>12. ASSUME NEW g, MergesTo(values, k, g) PROVE StageOf(values, k, 1, g[last])
  <2>1. g = [n \in 0..last |-> IF n = 0 THEN base ELSE MergeFirst(g[n - 1])]
    BY <1>1, <1>2, <1>12 DEF MergesTo
  <2>2. \A n \in 0..last : g[n] = IF n = 0 THEN base ELSE MergeFirst(g[n - 1])
    BY <2>1, Zenon
  <2>3. 0 \in 0..last /\ last \in 0..last /\ \A m \in 1..last : m # 0 /\ m \in 0..last
    OBVIOUS
  <2>4. g[0] = base /\ \A m \in 1..last : g[m] = MergeFirst(g[m - 1])
    BY <2>2, <2>3
  <2>5. \A m \in 0..last : StageOf(values, k, last + 1 - m, g[m])
    BY <1>13, <2>4
  <2>6. last + 1 - last = 1
    OBVIOUS
  <2> QED
    BY <2>3, <2>5, <2>6
<1> QED
  BY <1>1, <1>11, <1>12 DEF Merges

\* The last state holds every item once, in parts that are not empty if there
\* are items enough.
FinalState(values, k) == CHOOSE s \in Merges(values, k)[Len(values) - 1] : TRUE

LEMMA FinalHoldsAll ==
  ASSUME NEW values \in Seq(Nat \ {0}), NEW k \in Nat \ {0}, values # << >>
  PROVE  /\ FinalState(values, k) \in [1..k -> Seq(Items(values))]
         /\ Apart(k, FinalState(values, k))
         /\ Held(values, k, FinalState(values, k)) = Items(values)
         /\ k <= Len(values) => \A m \in 1..k : FinalState(values, k)[m] # << >>
<1>1. PICK states : states = Merges(values, k)[Len(values) - 1]
  OBVIOUS
<1>2. Stage(values, k, states) /\ Covered(values, k, states) /\ Cardinality(states) = 1
  <2>1. StageOf(values, k, 1, states)
    BY <1>1, MergesExist
  <2> QED
    BY <2>1 DEF StageOf
<1>3. PICK s : states = {s}
  BY <1>2, FS_Singleton DEF Stage
<1>4. FinalState(values, k) = s
  BY <1>1, <1>3 DEF FinalState
<1>5. IsState(values, k, s)
  BY <1>2, <1>3 DEF Stage
<1>6. Held(values, k, s) = Items(values)
  <2>1. Held(values, k, s) \subseteq Items(values)
    BY DEF Held
  <2>2. Items(values) \subseteq Held(values, k, s)
    BY <1>2, <1>3 DEF Covered
  <2> QED
    BY <2>1, <2>2
<1>7. k <= Len(values) => \A m \in 1..k : s[m] # << >>
  <2> SUFFICES ASSUME k <= Len(values), NEW m \in 1..k PROVE s[m] # << >>
    OBVIOUS
  <2>1. Cardinality(Held(values, k, s)) = Len(values)
    BY <1>6, ItemsFinite
  <2>2. NumberFilled(k, s) = k
    <3>1. NumberFilled(k, s) = AtMost(Len(values), k)
      BY <1>5, <2>1 DEF IsState
    <3>2. AtMost(Len(values), k) = k
      BY DEF AtMost
    <3> QED
      BY <3>1, <3>2
  <2>3. Filled(k, s) = 1..k
    BY <1>5, <2>2, FilledCount DEF IsState
  <2> QED
    BY <2>3 DEF Filled
<1> QED
  BY <1>4, <1>5, <1>6, <1>7 DEF IsState

-----------------------------------------------------------------------------
(***************************************************************************)
(* Rows shared out                                                         *)
(***************************************************************************)

\* Every one of n rows is in one of the k parts, once; no part is empty when
\* there are rows enough.
ShareRows(n, k, parts) ==
  /\ parts \in [1..k -> Seq(1..n)]
  /\ Apart(k, parts)
  /\ \A row \in 1..n : \E m \in 1..k : \E j \in 1..Len(parts[m]) : parts[m][j] = row
  /\ k <= n => \A m \in 1..k : parts[m] # << >>

\* The largest differencing method loses and repeats no row, and leaves no
\* micro-batch empty: what check_and_sort_partitions asserts of it.
LEMMA MethodSharesRows ==
  ASSUME NEW values \in Seq(Nat \ {0}), NEW k \in Nat \ {0}, values # << >>
  PROVE  ShareRows(Len(values), k, KarmarkarKarp(values, k))
<1>1. PICK n \in Nat : n = Len(values)
  OBVIOUS
<1>2. PICK final : final = FinalState(values, k)
  OBVIOUS
<1>11. Apart(k, final)
  BY <1>2, FinalHoldsAll
<1>3. /\ final \in [1..k -> Seq(Items(values))]
      /\ Held(values, k, final) = Items(values)
      /\ k <= n => \A m \in 1..k : final[m] # << >>
  BY <1>1, <1>2, FinalHoldsAll
<1>4. PICK parts : parts = [m \in 1..k |-> [j \in 1..Len(final[m]) |-> final[m][j][1]]]
  OBVIOUS
<1>5. KarmarkarKarp(values, k) = parts
  BY <1>2, <1>4 DEF KarmarkarKarp, FinalState, Merges, MergesTo
<1>6. ASSUME NEW m \in 1..k
      PROVE  /\ parts[m] \in Seq(1..n) /\ Len(parts[m]) = Len(final[m])
             /\ \A j \in 1..Len(final[m]) :
                  final[m][j] \in Items(values) /\ parts[m][j] = final[m][j][1]
  <2>1. PICK p \in Seq(Items(values)) : p = final[m]
    BY <1>3
  <2>2. parts[m] = [j \in 1..Len(p) |-> p[j][1]]
    BY <1>4, <2>1
  <2>3. \A j \in 1..Len(p) : p[j] \in Items(values)
    OBVIOUS
  <2>4. \A j \in 1..Len(p) : p[j][1] \in 1..n
    BY <1>1, <2>3, ItemOfIndex
  <2>5. parts[m] \in Seq(1..n) /\ Len(parts[m]) = Len(p)
    BY <2>2, <2>4
  <2> QED
    BY <2>1, <2>2, <2>3, <2>5
<1>7. parts \in [1..k -> Seq(1..n)]
  <2>1. parts = [m \in 1..k |-> parts[m]]
    BY <1>4
  <2> QED
    BY <1>6, <2>1
<1>8. Apart(k, parts)
  <2> SUFFICES ASSUME NEW m \in 1..k, NEW l \in 1..k, NEW j \in 1..Len(parts[m]),
                      NEW i \in 1..Len(parts[l]), parts[m][j] = parts[l][i]
               PROVE  m = l /\ j = i
    BY DEF Apart
  <2>1. /\ j \in 1..Len(final[m]) /\ final[m][j] \in Items(values)
        /\ i \in 1..Len(final[l]) /\ final[l][i] \in Items(values)
        /\ final[m][j][1] = final[l][i][1]
    BY <1>6
  <2>2. final[m][j] = final[l][i]
    BY <2>1, ItemOfIndex
  <2> QED
    BY <1>11, <2>1, <2>2 DEF Apart
<1>9. ASSUME NEW row \in 1..n
      PROVE  \E m \in 1..k : \E j \in 1..Len(parts[m]) : parts[m][j] = row
  <2>1. <<row, values[row]>> \in Held(values, k, final)
    BY <1>1, <1>3, ItemOfIndex
  <2>2. PICK m \in 1..k : \E j \in 1..Len(final[m]) : final[m][j] = <<row, values[row]>>
    BY <2>1 DEF Held
  <2>3. PICK j \in 1..Len(final[m]) : final[m][j] = <<row, values[row]>>
    BY <2>2
  <2>4. final[m][j][1] = row
    BY <2>3
  <2> QED
    BY <1>6, <2>4
<1>10. ASSUME k <= n, NEW m \in 1..k PROVE parts[m] # << >>
  <2>1. PICK p \in Seq(Items(values)) : p = final[m]
    BY <1>3
  <2>2. p # << >> /\ Len(parts[m]) = Len(p)
    BY <1>3, <1>6, <1>10, <2>1
  <2>3. parts[m] \in Seq(1..n) /\ Len(parts[m]) # 0
    BY <1>6, <2>2
  <2> QED
    BY <2>3
<1> QED
  BY <1>1, <1>5, <1>7, <1>8, <1>9, <1>10 DEF ShareRows

\* The same parts in another order.
LEMMA SameShares ==
  ASSUME NEW n \in Nat, NEW k \in Nat, NEW parts, ShareRows(n, k, parts),
         NEW t, SameParts(k, parts, t)
  PROVE  ShareRows(n, k, t)
<1>1. PICK p \in [1..k -> 1..k] :
        /\ \A a, b \in 1..k : p[a] = p[b] => a = b
        /\ \A i \in 1..k : \E a \in 1..k : p[a] = i
        /\ t = [m \in 1..k |-> parts[p[m]]]
  BY DEF SameParts
<1>2. \A m \in 1..k : p[m] \in 1..k /\ t[m] = parts[p[m]]
  BY <1>1
<1>11. Apart(k, parts)
  BY DEF ShareRows
<1>3. /\ parts \in [1..k -> Seq(1..n)]
      /\ \A row \in 1..n : \E m \in 1..k : \E j \in 1..Len(parts[m]) : parts[m][j] = row
      /\ k <= n => \A m \in 1..k : parts[m] # << >>
  BY DEF ShareRows
<1>4. t \in [1..k -> Seq(1..n)]
  BY <1>1, <1>3
<1>5. Apart(k, t)
  <2> SUFFICES ASSUME NEW m \in 1..k, NEW l \in 1..k, NEW j \in 1..Len(t[m]),
                      NEW i \in 1..Len(t[l]), t[m][j] = t[l][i]
               PROVE  m = l /\ j = i
    BY DEF Apart
  <2>1. PICK a \in 1..k, b \in 1..k : a = p[m] /\ b = p[l] /\ t[m] = parts[a] /\ t[l] = parts[b]
    BY <1>2
  <2>2. j \in 1..Len(parts[a]) /\ i \in 1..Len(parts[b]) /\ parts[a][j] = parts[b][i]
    BY <2>1
  <2>3. a = b /\ j = i
    <3>1. parts \in [1..k -> Seq(1..n)]
      BY <1>3
    <3> QED
      BY <1>11, <2>2, <3>1 DEF Apart
  <2>4. p[m] = p[l]
    BY <2>1, <2>3
  <2>5. m = l
    BY <1>1, <2>4
  <2> QED
    BY <2>3, <2>5
<1>6. ASSUME NEW row \in 1..n
      PROVE  \E m \in 1..k : \E j \in 1..Len(t[m]) : t[m][j] = row
  <2>1. PICK i \in 1..k : \E j \in 1..Len(parts[i]) : parts[i][j] = row
    BY <1>3
  <2>2. PICK m \in 1..k : p[m] = i
    BY <1>1
  <2>3. t[m] = parts[i]
    BY <1>2, <2>2
  <2> QED
    BY <2>1, <2>3
<1>7. k <= n => \A m \in 1..k : t[m] # << >>
  BY <1>2, <1>3
<1> QED
  BY <1>4, <1>5, <1>6, <1>7 DEF ShareRows

\* p says which entry of s, of l in all, each entry of t was.
Rearranges(p, l, s, t) ==
  /\ p \in [1..l -> 1..l]
  /\ \A a, b \in 1..l : p[a] = p[b] => a = b
  /\ \A i \in 1..l : \E a \in 1..l : p[a] = i
  /\ \A j \in 1..l : t[j] = s[p[j]]

LEMMA ReorderedPart ==
  ASSUME NEW n \in Nat, NEW q \in Seq(1..n), NEW t, SameParts(Len(q), q, t)
  PROVE  t \in Seq(1..n) /\ Len(t) = Len(q) /\ \E p : Rearranges(p, Len(q), q, t)
<1>1. PICK l \in Nat : l = Len(q)
  OBVIOUS
<1>2. PICK p \in [1..l -> 1..l] :
        /\ \A a, b \in 1..l : p[a] = p[b] => a = b
        /\ \A i \in 1..l : \E a \in 1..l : p[a] = i
        /\ t = [j \in 1..l |-> q[p[j]]]
  <2>1. SameParts(l, q, t)
    BY <1>1
  <2> QED
    BY <2>1 DEF SameParts
<1>3. \A j \in 1..l : q[p[j]] \in 1..n
  BY <1>1
<1>4. [j \in 1..l |-> q[p[j]]] \in Seq(1..n) /\ Len([j \in 1..l |-> q[p[j]]]) = l
  <2> DEFINE e(j) == q[p[j]]
  <2>1. \A j \in 1..l : e(j) \in 1..n
    BY <1>3
  <2> HIDE DEF e
  <2>2. [j \in 1..l |-> e(j)] \in Seq(1..n) /\ Len([j \in 1..l |-> e(j)]) = l
    BY <2>1
  <2> QED
    BY <2>2 DEF e
<1>5. Rearranges(p, l, q, t)
  BY <1>2 DEF Rearranges
<1> QED
  BY <1>1, <1>2, <1>4, <1>5

\* Each part with its rows in another order.
LEMMA ReorderedShares ==
  ASSUME NEW n \in Nat, NEW k \in Nat, NEW parts, ShareRows(n, k, parts),
         NEW t, t = [m \in 1..k |-> t[m]],
         \A m \in 1..k : SameParts(Len(parts[m]), parts[m], t[m])
  PROVE  ShareRows(n, k, t)
<1>11. Apart(k, parts)
  BY DEF ShareRows
<1>3. /\ parts \in [1..k -> Seq(1..n)]
      /\ \A row \in 1..n : \E m \in 1..k : \E j \in 1..Len(parts[m]) : parts[m][j] = row
      /\ k <= n => \A m \in 1..k : parts[m] # << >>
  BY DEF ShareRows
<1>1. ASSUME NEW m \in 1..k
      PROVE  /\ t[m] \in Seq(1..n) /\ Len(t[m]) = Len(parts[m])
             /\ \E p : Rearranges(p, Len(parts[m]), parts[m], t[m])
  <2>1. PICK q \in Seq(1..n) : q = parts[m]
    BY <1>3
  <2>2. SameParts(Len(q), q, t[m])
    BY <2>1
  <2>3. t[m] \in Seq(1..n) /\ Len(t[m]) = Len(q) /\ \E p : Rearranges(p, Len(q), q, t[m])
    BY <2>2, ReorderedPart
  <2> QED
    BY <2>1, <2>3
<1>4. t \in [1..k -> Seq(1..n)]
  BY <1>1
<1>5. Apart(k, t)
  <2> SUFFICES ASSUME NEW m \in 1..k, NEW l \in 1..k, NEW j \in 1..Len(t[m]),
                      NEW i \in 1..Len(t[l]), t[m][j] = t[l][i]
               PROVE  m = l /\ j = i
    BY DEF Apart
  <2>1. PICK c, d : c = Len(parts[m]) /\ d = Len(parts[l])
    OBVIOUS
  <2>2. PICK p : Rearranges(p, c, parts[m], t[m])
    BY <1>1, <2>1
  <2>3. PICK r : Rearranges(r, d, parts[l], t[l])
    BY <1>1, <2>1
  <2>4. j \in 1..c /\ i \in 1..d
    BY <1>1, <2>1
  <2>5. PICK a \in 1..c : a = p[j] /\ t[m][j] = parts[m][a]
    BY <2>2, <2>4 DEF Rearranges
  <2>6. PICK b \in 1..d : b = r[i] /\ t[l][i] = parts[l][b]
    BY <2>3, <2>4 DEF Rearranges
  <2>7. m = l /\ a = b
    <3>1. parts[m][a] = parts[l][b] /\ a \in 1..Len(parts[m]) /\ b \in 1..Len(parts[l])
      BY <2>1, <2>5, <2>6
    <3> QED
      BY <1>11, <3>1 DEF Apart
  <2>8. i \in 1..c /\ t[m][i] = parts[m][p[i]] /\ p[i] \in 1..c
    BY <2>1, <2>2, <2>4, <2>7 DEF Rearranges
  <2>9. p[i] = a
    <3>1. parts[m][p[i]] = parts[m][a] /\ a \in 1..Len(parts[m]) /\ p[i] \in 1..Len(parts[m])
      BY <2>1, <2>5, <2>7, <2>8
    <3> QED
      BY <1>11, <3>1 DEF Apart
  <2>10. j = i
    BY <2>2, <2>4, <2>5, <2>8, <2>9 DEF Rearranges
  <2> QED
    BY <2>7, <2>10
<1>6. ASSUME NEW row \in 1..n
      PROVE  \E m \in 1..k : \E j \in 1..Len(t[m]) : t[m][j] = row
  <2>1. PICK m \in 1..k : \E j \in 1..Len(parts[m]) : parts[m][j] = row
    BY <1>3
  <2>2. PICK i \in 1..Len(parts[m]) : parts[m][i] = row
    BY <2>1
  <2>3. PICK p : Rearranges(p, Len(parts[m]), parts[m], t[m])
    BY <1>1
  <2>4. PICK a \in 1..Len(parts[m]) : p[a] = i
    BY <2>3 DEF Rearranges
  <2>5. t[m][a] = row
    BY <2>2, <2>3, <2>4 DEF Rearranges
  <2>6. a \in 1..Len(t[m])
    BY <1>1
  <2> QED
    BY <2>5, <2>6
<1>7. ASSUME k <= n, NEW m \in 1..k PROVE t[m] # << >>
  <2>1. PICK q \in Seq(1..n) : q = parts[m]
    BY <1>3
  <2>2. q # << >> /\ t[m] \in Seq(1..n) /\ Len(t[m]) = Len(q)
    BY <1>1, <1>3, <1>7, <2>1
  <2> QED
    BY <2>2
<1> QED
  BY <1>4, <1>5, <1>6, <1>7 DEF ShareRows

-----------------------------------------------------------------------------
(***************************************************************************)
(* The orders of rows and of micro-batches                                 *)
(***************************************************************************)

\* sorted() by three numbers, the largest first.
LEMMA SortsByThree ==
  ASSUME NEW n \in Nat, NEW list, NEW u \in [1..n -> Nat], NEW v \in [1..n -> Nat],
         NEW w \in [1..n -> Nat], NEW order, ByThree(n, u, v, w, order)
  PROVE  SameParts(n, list, ByCount(1..n, list, Tuple(CountsOf(n, order))))
<1>1. PICK p : p = InOrder(n, order)
  OBVIOUS
<1>2. Sorts(n, order, p)
  BY <1>1, OrderedByThree, InOrderSorts
<1>3. ByCount(1..n, list, Tuple(CountsOf(n, order))) = [m \in 1..n |-> list[p[m]]]
  <2>1. ByCount(1..n, list, Tuple(CountsOf(n, order))) = Picked(n, list, InOrder(n, order))
    BY ByCountInOrder
  <2>2. Picked(n, list, InOrder(n, order)) = [m \in 1..n |-> list[p[m]]]
    BY <1>1 DEF Picked
  <2> QED
    BY <2>1, <2>2
<1> QED
  BY <1>2, <1>3 DEF Sorts, SameParts

\* sorted() of some rows.
RowCounts(d, entries) == [i \in d |-> Earlier(entries, LAMBDA a, b : a < b, i)]
RowsOrder(l, list) ==
  {e \in (1..l) \X (1..l) : \/ e[1] < e[2] /\ ~(list[e[2]] < list[e[1]])
                            \/ ~(e[1] < e[2]) /\ list[e[1]] < list[e[2]]}
RowsSorted(list) == SortBy(list, LAMBDA a, b : a < b)

LEMMA RowsSortedSame ==
  ASSUME NEW n \in Nat, NEW list \in Seq(1..n)
  PROVE  SameParts(Len(list), list, RowsSorted(list))
<1>1. PICK l \in Nat : l = Len(list)
  OBVIOUS
<1>2. \A i \in 1..l : list[i] \in 1..n
  BY <1>1
<1> DEFINE u == [i \in 1..l |-> n - list[i]]
           zero == [i \in 1..l |-> 0]
<1>3. u \in [1..l -> Nat] /\ zero \in [1..l -> Nat]
  BY <1>2
<1>4. \A i, j \in 1..l : Less(u, zero, zero, i, j) <=> list[j] < list[i]
  BY <1>2 DEF Less, Lower
<1>5. ByThree(l, u, zero, zero, RowsOrder(l, list))
  <2>1. \A i, j \in 1..l : <<i, j>> \in RowsOrder(l, list)
          <=> (i < j /\ ~(list[j] < list[i])) \/ (~(i < j) /\ list[i] < list[j])
    BY DEF RowsOrder
  <2> HIDE DEF u, zero
  <2> QED
    BY <1>4, <2>1 DEF ByThree
<1>6. SameParts(l, list, ByCount(1..l, list, Tuple(CountsOf(l, RowsOrder(l, list)))))
  <2> HIDE DEF u, zero
  <2> QED
    BY <1>3, <1>5, SortsByThree
<1>7. Tuple(list) = list /\ Indices(list) = 1..l
  <2>1. list = [i \in 1..l |-> list[i]]
    BY <1>1
  <2> QED
    BY <1>1, <2>1, TupleSame DEF Indices
<1>8. \A i \in 1..l : Earlier(list, LAMBDA a, b : a < b, i)
                        = Cardinality(Preceding(l, RowsOrder(l, list), i))
  <2> SUFFICES ASSUME NEW i \in 1..l
               PROVE  Earlier(list, LAMBDA a, b : a < b, i)
                        = Cardinality(Preceding(l, RowsOrder(l, list), i))
    OBVIOUS
  <2>1. {j \in 1..l : IF j < i THEN ~(list[i] < list[j]) ELSE list[j] < list[i]}
          = Preceding(l, RowsOrder(l, list), i)
    BY DEF Preceding, RowsOrder
  <2> QED
    BY <1>7, <2>1 DEF Earlier
<1>9. RowsSorted(list) = ByCount(1..l, list, Tuple(CountsOf(l, RowsOrder(l, list))))
  <2>1. RowsSorted(list) = ByCount(Indices(list), Tuple(list), Tuple(RowCounts(Indices(list), Tuple(list))))
    BY DEF RowsSorted, SortBy, ByCount, RowCounts
  <2>2. RowCounts(1..l, list) = CountsOf(l, RowsOrder(l, list))
    BY <1>8 DEF RowCounts, CountsOf
  <2> QED
    BY <1>7, <2>1, <2>2
<1> QED
  BY <1>1, <1>6, <1>9

\* get_seqlen_balanced_partitions.
LEMMA BalancedShares ==
  ASSUME NEW values \in Seq(Nat \ {0}), NEW k \in Nat \ {0}, values # << >>
  PROVE  ShareRows(Len(values), k, BalancedPartitions(values, k))
<1>1. PICK n \in Nat : n = Len(values)
  OBVIOUS
<1>2. PICK parts : parts = KarmarkarKarp(values, k)
  OBVIOUS
<1>3. ShareRows(n, k, parts)
  BY <1>1, <1>2, MethodSharesRows
<1>4. PICK t : t = [m \in 1..k |-> RowsSorted(parts[m])]
  OBVIOUS
<1>5. BalancedPartitions(values, k) = t
  BY <1>2, <1>4 DEF BalancedPartitions, RowsSorted
<1>6. \A m \in 1..k : SameParts(Len(parts[m]), parts[m], t[m])
  <2>1. \A m \in 1..k : parts[m] \in Seq(1..n)
    BY <1>3 DEF ShareRows
  <2> QED
    BY <1>4, <2>1, RowsSortedSame
<1>7. t = [m \in 1..k |-> t[m]]
  BY <1>4
<1> QED
  BY <1>1, <1>3, <1>5, <1>6, <1>7, ReorderedShares

\* The micro-batches by their work, as Heavier compares them.
WorkOf(work, part) == Total([j \in 1..Len(part) |-> work[part[j]]])
FirstRow(part) == IF part = << >> THEN 0 ELSE part[1]
HeavierCounts(work, d, entries) ==
  [i \in d |-> Earlier(entries, LAMBDA p, q : Heavier(work, p, q), i)]
HeavierOrder(work, k, parts) ==
  {e \in (1..k) \X (1..k) : \/ e[1] < e[2] /\ ~Heavier(work, parts[e[2]], parts[e[1]])
                            \/ ~(e[1] < e[2]) /\ Heavier(work, parts[e[1]], parts[e[2]])}
HeaviestFirst(work, parts) == SortBy(parts, LAMBDA p, q : Heavier(work, p, q))

LEMMA HeaviestFirstSame ==
  ASSUME NEW n \in Nat, NEW work \in [1..n -> Nat], NEW k \in Nat, NEW parts \in [1..k -> Seq(1..n)]
  PROVE  SameParts(k, parts, HeaviestFirst(work, parts))
<1>1. \A m \in 1..k : WorkOf(work, parts[m]) \in Nat /\ FirstRow(parts[m]) \in Nat
  <2> SUFFICES ASSUME NEW m \in 1..k
               PROVE  WorkOf(work, parts[m]) \in Nat /\ FirstRow(parts[m]) \in Nat
    OBVIOUS
  <2>1. PICK q \in Seq(1..n), l \in Nat : q = parts[m] /\ l = Len(q)
    OBVIOUS
  <2>2. \A j \in 1..l : q[j] \in 1..n /\ work[q[j]] \in Nat
    BY <2>1
  <2>3. Total([j \in 1..l |-> work[q[j]]]) \in Nat
    <3>1. [j \in 1..l |-> work[q[j]]] \in [1..l -> Nat]
      BY <2>2
    <3> QED
      BY <3>1, TotalNumber
  <2>4. q # << >> => q[1] \in Nat
    OBVIOUS
  <2> QED
    BY <2>1, <2>3, <2>4 DEF WorkOf, FirstRow
<1> DEFINE u == [m \in 1..k |-> WorkOf(work, parts[m])]
           v == [m \in 1..k |-> FirstRow(parts[m])]
           zero == [m \in 1..k |-> 0]
<1>2. u \in [1..k -> Nat] /\ v \in [1..k -> Nat] /\ zero \in [1..k -> Nat]
  BY <1>1
<1>3. \A i, j \in 1..k : Less(u, v, zero, i, j) <=> Heavier(work, parts[j], parts[i])
  <2> SUFFICES ASSUME NEW i \in 1..k, NEW j \in 1..k
               PROVE  Less(u, v, zero, i, j) <=> Heavier(work, parts[j], parts[i])
    OBVIOUS
  <2>1. Heavier(work, parts[j], parts[i])
          <=> \/ WorkOf(work, parts[j]) > WorkOf(work, parts[i])
              \/ /\ WorkOf(work, parts[j]) = WorkOf(work, parts[i])
                 /\ FirstRow(parts[j]) > FirstRow(parts[i])
    BY DEF Heavier, WorkOf, FirstRow
  <2>2. /\ u[i] = WorkOf(work, parts[i]) /\ u[j] = WorkOf(work, parts[j])
        /\ v[i] = FirstRow(parts[i]) /\ v[j] = FirstRow(parts[j])
        /\ zero[i] = 0 /\ zero[j] = 0
        /\ u[i] \in Nat /\ u[j] \in Nat /\ v[i] \in Nat /\ v[j] \in Nat
    BY <1>1
  <2> HIDE DEF u, v, zero
  <2> QED
    BY <2>1, <2>2 DEF Less, Lower
<1>4. ByThree(k, u, v, zero, HeavierOrder(work, k, parts))
  <2>1. \A i, j \in 1..k : <<i, j>> \in HeavierOrder(work, k, parts)
          <=> \/ i < j /\ ~Heavier(work, parts[j], parts[i])
              \/ ~(i < j) /\ Heavier(work, parts[i], parts[j])
    BY DEF HeavierOrder
  <2> HIDE DEF u, v, zero
  <2> QED
    BY <1>3, <2>1 DEF ByThree
<1>5. SameParts(k, parts, ByCount(1..k, parts, Tuple(CountsOf(k, HeavierOrder(work, k, parts)))))
  <2> HIDE DEF u, v, zero
  <2> QED
    BY <1>2, <1>4, SortsByThree
<1>6. Tuple(parts) = parts /\ Indices(parts) = 1..k
  <2>1. parts = [i \in 1..k |-> parts[i]]
    OBVIOUS
  <2> QED
    BY <2>1, TupleSame DEF Indices
<1>7. \A i \in 1..k : Earlier(parts, LAMBDA p, q : Heavier(work, p, q), i)
                        = Cardinality(Preceding(k, HeavierOrder(work, k, parts), i))
  <2> SUFFICES ASSUME NEW i \in 1..k
               PROVE  Earlier(parts, LAMBDA p, q : Heavier(work, p, q), i)
                        = Cardinality(Preceding(k, HeavierOrder(work, k, parts), i))
    OBVIOUS
  <2>1. {j \in 1..k : IF j < i THEN ~Heavier(work, parts[i], parts[j])
                              ELSE Heavier(work, parts[j], parts[i])}
          = Preceding(k, HeavierOrder(work, k, parts), i)
    BY DEF Preceding, HeavierOrder
  <2> QED
    BY <1>6, <2>1 DEF Earlier
<1>8. HeaviestFirst(work, parts)
        = ByCount(1..k, parts, Tuple(CountsOf(k, HeavierOrder(work, k, parts))))
  <2>1. HeaviestFirst(work, parts)
          = ByCount(Indices(parts), Tuple(parts),
                    Tuple(HeavierCounts(work, Indices(parts), Tuple(parts))))
    BY DEF HeaviestFirst, SortBy, ByCount, HeavierCounts
  <2>2. HeavierCounts(work, 1..k, parts) = CountsOf(k, HeavierOrder(work, k, parts))
    BY <1>7 DEF HeavierCounts, CountsOf
  <2> QED
    BY <1>6, <2>1, <2>2
<1> QED
  BY <1>5, <1>8

\* t is p, then q.
TwoJoined(p, q, t) ==
  /\ Len(t) = Len(p) + Len(q)
  /\ \A i \in 1..Len(p) : t[i] = p[i]
  /\ \A j \in 1..Len(q) : t[Len(p) + j] = q[j]

LEMMA TwoJoinedPlaces ==
  ASSUME NEW S, NEW p \in Seq(S), NEW q \in Seq(S)
  PROVE  p \o q \in Seq(S) /\ TwoJoined(p, q, p \o q)
  BY DEF TwoJoined

\* The place a micro-batch is taken from.
OutsideFrom(k, m) == LET c == Ceil(k, 2) IN IF m <= c THEN 2 * (c + 1 - m) - 1 ELSE 2 * (m - c)

LEMMA SmallOnesSame ==
  ASSUME NEW S, NEW k \in Nat, NEW parts \in [1..k -> S]
  PROVE  SameParts(k, parts, SmallOnesOutside(parts))
<1>1. PICK c \in Nat, d \in Nat : /\ c = Ceil(k, 2) /\ d = k \div 2 /\ c + d = k
                                  /\ (k = 2 * d \/ k = 2 * d + 1)
  <2>1. PICK c, d : c = Ceil(k, 2) /\ d = k \div 2
    OBVIOUS
  <2>2. c = (k + 1) \div 2
    BY <2>1 DEF Ceil
  <2>3. c \in Nat /\ d \in Nat /\ c + d = k /\ (k = 2 * d \/ k = 2 * d + 1)
    BY <2>1, <2>2
  <2> QED
    BY <2>1, <2>3
<1>2. Len(parts) = k /\ parts \in Seq(S)
  <2>1. parts \in Seq(S)
    OBVIOUS
  <2> QED
    BY <2>1
<1> DEFINE odd == [i \in 1..c |-> parts[2 * i - 1]]
           even == [i \in 1..d |-> parts[2 * i]]
           from == [m \in 1..k |-> OutsideFrom(k, m)]
<1>3. SmallOnesOutside(parts) = Reverse(odd) \o even
  BY <1>1, <1>2 DEF SmallOnesOutside
<1>4. odd \in Seq(S) /\ Len(odd) = c /\ even \in Seq(S) /\ Len(even) = d
  <2>1. \A i \in 1..c : 2 * i - 1 \in 1..k
    BY <1>1
  <2>2. \A i \in 1..d : 2 * i \in 1..k
    BY <1>1
  <2>3. \A i \in 1..c : parts[2 * i - 1] \in S
    BY <2>1
  <2>4. \A i \in 1..d : parts[2 * i] \in S
    BY <2>2
  <2> QED
    BY <2>3, <2>4
<1>5. \A m \in 1..k : from[m] = IF m <= c THEN 2 * (c + 1 - m) - 1 ELSE 2 * (m - c)
  BY <1>1 DEF OutsideFrom
<1>6. PICK r : r = Reverse(odd)
  OBVIOUS
<1>7. r \in Seq(S) /\ Len(r) = c /\ \A m \in 1..c : r[m] = parts[2 * (c + 1 - m) - 1]
  <2>1. r = [i \in 1..c |-> odd[(c - i) + 1]]
    BY <1>4, <1>6 DEF Reverse
  <2>2. \A i \in 1..c : (c - i) + 1 \in 1..c /\ (c - i) + 1 = c + 1 - i
    BY <1>1
  <2>3. \A i \in 1..c : odd[(c - i) + 1] \in S /\ odd[(c - i) + 1] = parts[2 * (c + 1 - i) - 1]
    <3>1. \A i \in 1..c : odd[i] \in S /\ odd[i] = parts[2 * i - 1]
      BY <1>4
    <3> HIDE DEF odd
    <3> QED
      BY <2>2, <3>1
  <2> HIDE DEF odd
  <2> QED
    BY <2>1, <2>3
<1>8. PICK t : t = r \o even
  OBVIOUS
<1>9. t = [m \in 1..k |-> parts[from[m]]]
  <2>1. /\ t \in Seq(S) /\ Len(t) = k
        /\ \A i \in 1..c : t[i] = r[i]
        /\ \A j \in 1..d : t[c + j] = even[j]
    <3>1. PICK q \in Seq(S) : q = even /\ Len(q) = d
      BY <1>4
    <3> HIDE DEF odd, even
    <3>2. r \o q \in Seq(S) /\ TwoJoined(r, q, r \o q)
      BY <1>7, TwoJoinedPlaces
    <3> QED
      BY <1>1, <1>7, <1>8, <3>1, <3>2 DEF TwoJoined
  <2>2. ASSUME NEW m \in 1..k PROVE t[m] = parts[from[m]]
    <3>1. CASE m <= c
      <4>1. m \in 1..c
        BY <3>1
      <4> QED
        BY <1>5, <1>7, <2>1, <3>1, <4>1
    <3>2. CASE ~(m <= c)
      <4>1. m - c \in 1..d /\ c + (m - c) = m
        BY <1>1, <3>2
      <4>2. t[m] = even[m - c] /\ even[m - c] = parts[2 * (m - c)]
        BY <2>1, <4>1
      <4> QED
        BY <1>5, <3>2, <4>2
    <3> QED
      BY <3>1, <3>2
  <2>3. t = [m \in 1..k |-> t[m]]
    BY <2>1
  <2> QED
    BY <2>2, <2>3
<1>14. \A m \in 1..k : /\ m <= c => from[m] = 2 * (c + 1 - m) - 1
                       /\ m > c => from[m] = 2 * (m - c)
  <2> HIDE DEF from
  <2>1. \A m \in 1..k : m > c => ~(m <= c)
    BY <1>1
  <2> QED
    BY <1>5, <2>1
<1>10. from \in [1..k -> 1..k]
  <2>1. ASSUME NEW m \in 1..k PROVE from[m] \in 1..k
    <3>1. CASE m <= c
      <4>1. 2 * (c + 1 - m) - 1 \in 1..k
        BY <1>1, <3>1
      <4> HIDE DEF from
      <4> QED
        BY <1>14, <3>1, <4>1
    <3>2. CASE m > c
      <4>1. 2 * (m - c) \in 1..k
        BY <1>1, <3>2
      <4> HIDE DEF from
      <4> QED
        BY <1>14, <3>2, <4>1
    <3> QED
      BY <1>1, <3>1, <3>2
  <2> QED
    BY <2>1
<1>11. \A a, b \in 1..k : from[a] = from[b] => a = b
  <2>2. \A x, y \in Int : 2 * (c + 1 - x) - 1 = 2 * (c + 1 - y) - 1 => x = y
    OBVIOUS
  <2>3. \A x, y \in Int : 2 * (x - c) = 2 * (y - c) => x = y
    OBVIOUS
  <2>4. \A x, y \in Int : 2 * (c + 1 - x) - 1 # 2 * (y - c)
    OBVIOUS
  <2>5. \A m \in 1..k : m \in Int /\ (m <= c \/ m > c)
    OBVIOUS
  <2> HIDE DEF from
  <2> QED
    BY <1>14, <2>2, <2>3, <2>4, <2>5
<1>12. \A i \in 1..k : \E a \in 1..k : from[a] = i
  <2> SUFFICES ASSUME NEW i \in 1..k PROVE \E a \in 1..k : from[a] = i
    OBVIOUS
  <2>1. CASE i % 2 = 1
    <3>1. PICK h \in Nat : i = 2 * h + 1
      BY <2>1
    <3>2. c - h \in 1..k /\ c - h <= c /\ 2 * (c + 1 - (c - h)) - 1 = i
      BY <1>1, <3>1
    <3> QED
      BY <1>5, <3>2
  <2>2. CASE i % 2 = 0
    <3>1. PICK h \in Nat : i = 2 * h
      BY <2>2
    <3>2. c + h \in 1..k /\ ~(c + h <= c) /\ 2 * ((c + h) - c) = i
      BY <1>1, <3>1
    <3> QED
      BY <1>5, <3>2
  <2> QED
    BY <2>1, <2>2
<1>13. SmallOnesOutside(parts) = t
  BY <1>3, <1>6, <1>8
<1> HIDE DEF from
<1> QED
  BY <1>9, <1>10, <1>11, <1>12, <1>13 DEF SameParts

Works(lengths) == [i \in Indices(lengths) |-> Workload(lengths[i])]

\* rearrange_micro_batches puts every row of the mini-batch in one of the k
\* micro-batches, once, and leaves none of them empty when there are k rows:
\* what check_and_sort_partitions asserts, and what the sum of the losses over
\* the micro-batches relies on, for all lengths and every number of parts.
THEOREM MicroBatchesShareRows ==
  ASSUME NEW lengths \in Seq(Nat \ {0}), lengths # << >>, NEW k \in Nat \ {0}
  PROVE  ShareRows(Len(lengths), k, RearrangeMicroBatches(lengths, k))
<1>1. PICK n \in Nat : n = Len(lengths) /\ Indices(lengths) = 1..n
  BY DEF Indices
<1>2. PICK work : work = [i \in 1..n |-> Workload(lengths[i])]
  OBVIOUS
<1>3. work \in Seq(Nat \ {0}) /\ Len(work) = n /\ work # << >> /\ work \in [1..n -> Nat]
  <2>1. \A l \in Nat \ {0} : Workload(l) \in Nat \ {0}
    <3> SUFFICES ASSUME NEW l \in Nat \ {0} PROVE Workload(l) \in Nat \ {0}
      OBVIOUS
    <3>1. l * l \in Nat /\ 24576 * l \in Nat \ {0}
      OBVIOUS
    <3> QED
      BY <3>1 DEF Workload
  <2>2. \A i \in 1..n : lengths[i] \in Nat \ {0}
    BY <1>1
  <2>3. \A i \in 1..n : Workload(lengths[i]) \in Nat \ {0}
    BY <2>1, <2>2
  <2>4. work \in Seq(Nat \ {0}) /\ Len(work) = n /\ work \in [1..n -> Nat]
    BY <1>2, <2>3
  <2>5. n # 0
    BY <1>1
  <2> QED
    BY <2>4, <2>5
<1>4. PICK parts : parts = BalancedPartitions(work, k)
  OBVIOUS
<1>5. ShareRows(n, k, parts)
  BY <1>3, <1>4, BalancedShares
<1>6. PICK sorted : sorted = HeaviestFirst(work, parts)
  OBVIOUS
<1>7. ShareRows(n, k, sorted)
  <2>1. parts \in [1..k -> Seq(1..n)]
    BY <1>5 DEF ShareRows
  <2>2. SameParts(k, parts, sorted)
    BY <1>3, <1>6, <2>1, HeaviestFirstSame
  <2> QED
    BY <1>5, <2>2, SameShares
<1>8. ShareRows(n, k, SmallOnesOutside(sorted))
  <2>1. sorted \in [1..k -> Seq(1..n)]
    BY <1>7 DEF ShareRows
  <2>2. SameParts(k, sorted, SmallOnesOutside(sorted))
    BY <2>1, SmallOnesSame
  <2> QED
    BY <1>7, <2>2, SameShares
<1>9. RearrangeMicroBatches(lengths, k) = SmallOnesOutside(sorted)
  <2>1. RearrangeMicroBatches(lengths, k)
          = SmallOnesOutside(HeaviestFirst(Works(lengths), BalancedPartitions(Works(lengths), k)))
    BY DEF RearrangeMicroBatches, HeaviestFirst, Works
  <2>2. Works(lengths) = work
    BY <1>1, <1>2 DEF Works
  <2> QED
    BY <1>4, <1>6, <2>1, <2>2
<1> QED
  BY <1>1, <1>8, <1>9

-----------------------------------------------------------------------------
(***************************************************************************)
(* The way back                                                            *)
(***************************************************************************)

\* Every row is at one place of the order.
OnePlaceEach(n, order) ==
  /\ order \in Seq(1..n)
  /\ Len(order) = n
  /\ \A i, j \in 1..n : order[i] = order[j] => i = j
  /\ \A row \in 1..n : \E i \in 1..n : order[i] = row

\* The entries of all are those of the parts, each part after those before it.
PutTogether(parts, all) ==
  /\ \A m \in 1..Len(parts) : \A j \in 1..Len(parts[m]) :
       Before(parts, m) + j \in 1..Len(all) /\ all[Before(parts, m) + j] = parts[m][j]
  /\ \A i \in 1..Len(all) : \E m \in 1..Len(parts) : \E j \in 1..Len(parts[m]) :
       i = Before(parts, m) + j

LEMMA ConcatPutsTogether ==
  ASSUME NEW S, NEW parts \in Seq(Seq(S)), parts # << >>
  PROVE  Concat(parts) \in Seq(S) /\ PutTogether(parts, Concat(parts))
  BY ConcatPlaces DEF PutTogether

LEMMA JoinedOnce ==
  ASSUME NEW n \in Nat, NEW k \in Nat \ {0}, NEW parts, ShareRows(n, k, parts)
  PROVE  OnePlaceEach(n, FlattenSeq(parts))
<1>1. parts \in Seq(Seq(1..n)) /\ Len(parts) = k /\ parts # << >>
  <2>1. parts \in [1..k -> Seq(1..n)]
    BY DEF ShareRows
  <2>2. parts \in Seq(Seq(1..n)) /\ Len(parts) = k
    BY <2>1
  <2> QED
    BY <2>2
<1>2. Apart(k, parts)
  BY DEF ShareRows
<1>3. PICK order : order = FlattenSeq(parts)
  OBVIOUS
<1>4. PICK from : \A m \in 1..k : from[m] = Before(parts, m)
  <2> WITNESS [m \in 1..k |-> Before(parts, m)]
  <2> QED
    OBVIOUS
<1>5. /\ order \in Seq(1..n)
      /\ \A m \in 1..k : \A j \in 1..Len(parts[m]) :
           from[m] + j \in 1..Len(order) /\ order[from[m] + j] = parts[m][j]
      /\ \A i \in 1..Len(order) : \E m \in 1..k : \E j \in 1..Len(parts[m]) : i = from[m] + j
  <2>1. Concat(parts) \in Seq(1..n) /\ PutTogether(parts, Concat(parts))
    BY <1>1, ConcatPutsTogether
  <2>2. Concat(parts) = order
    BY <1>3 DEF Concat
  <2>3. ASSUME NEW m \in 1..k, NEW j \in 1..Len(parts[m])
        PROVE  from[m] + j \in 1..Len(order) /\ order[from[m] + j] = parts[m][j]
    <3>1. m \in 1..Len(parts) /\ from[m] = Before(parts, m)
      BY <1>1, <1>4
    <3>2. /\ Before(parts, m) + j \in 1..Len(Concat(parts))
          /\ Concat(parts)[Before(parts, m) + j] = parts[m][j]
      BY <2>1, <3>1 DEF PutTogether
    <3> QED
      BY <2>2, <3>1, <3>2
  <2>4. ASSUME NEW i \in 1..Len(order)
        PROVE  \E m \in 1..k : \E j \in 1..Len(parts[m]) : i = from[m] + j
    <3>1. i \in 1..Len(Concat(parts))
      BY <2>2
    <3>2. PICK m \in 1..Len(parts) : \E j \in 1..Len(parts[m]) : i = Before(parts, m) + j
      BY <2>1, <3>1 DEF PutTogether
    <3>3. m \in 1..k /\ from[m] = Before(parts, m)
      BY <1>1, <1>4
    <3> QED
      BY <3>2, <3>3
  <2>5. order \in Seq(1..n)
    BY <2>1, <2>2
  <2> QED
    BY <2>3, <2>4, <2>5
<1>6. ASSUME NEW i \in 1..Len(order), NEW j \in 1..Len(order), order[i] = order[j] PROVE i = j
  <2>1. PICK m \in 1..k : \E a \in 1..Len(parts[m]) : i = from[m] + a
    BY <1>5
  <2>2. PICK a \in 1..Len(parts[m]) : i = from[m] + a
    BY <2>1
  <2>3. PICK l \in 1..k : \E b \in 1..Len(parts[l]) : j = from[l] + b
    BY <1>5
  <2>4. PICK b \in 1..Len(parts[l]) : j = from[l] + b
    BY <2>3
  <2>5. order[i] = parts[m][a] /\ order[j] = parts[l][b]
    BY <1>5, <2>2, <2>4
  <2>6. parts[m][a] = parts[l][b]
    BY <1>6, <2>5
  <2>7. m = l /\ a = b
    BY <1>2, <2>6 DEF Apart
  <2> QED
    BY <2>2, <2>4, <2>7
<1>7. ASSUME NEW row \in 1..n PROVE \E i \in 1..Len(order) : order[i] = row
  <2>1. PICK m \in 1..k : \E j \in 1..Len(parts[m]) : parts[m][j] = row
    BY DEF ShareRows
  <2>2. PICK j \in 1..Len(parts[m]) : parts[m][j] = row
    BY <2>1
  <2>3. from[m] + j \in 1..Len(order) /\ order[from[m] + j] = row
    BY <1>5, <2>2
  <2> QED
    BY <2>3
<1>8. Len(order) = n
  <2>1. PICK l \in Nat : l = Len(order)
    BY <1>5
  <2>2. order \in [1..l -> 1..n]
    BY <1>5, <2>1
  <2>3. order \in Bijection(1..l, 1..n)
    BY <1>6, <1>7, <2>1, <2>2 DEF Bijection, Injection, IsInjective, Surjection
  <2>4. ExistsBijection(1..l, 1..n)
    BY <2>3 DEF ExistsBijection
  <2>5. IsFiniteSet(1..l) /\ Cardinality(1..l) = l /\ Cardinality(1..n) = n
    <3>1. /\ 1 \in Int /\ l \in Int /\ (1 > l => l = 0) /\ l - 1 + 1 = l
          /\ n \in Int /\ (1 > n => n = 0) /\ n - 1 + 1 = n
      OBVIOUS
    <3> QED
      BY <3>1, FS_Interval
  <2>6. Cardinality(1..l) = Cardinality(1..n)
    BY <2>4, <2>5, FS_Bijection
  <2> QED
    BY <2>1, <2>5, <2>6
<1> QED
  BY <1>3, <1>5, <1>6, <1>7, <1>8 DEF OnePlaceEach

\* What is computed of each row, in the order of the micro-batches.
InBatchOrder(ofRow, parts) ==
  [i \in Indices(FlattenSeq(parts)) |-> ofRow[FlattenSeq(parts)[i]]]

\* restore_dynamic_batch gives every row the result computed of that row,
\* whatever the rows and however they were cut into micro-batches.
THEOREM RestoreUndoesCutting ==
  ASSUME NEW n \in Nat, NEW k \in Nat \ {0}, NEW parts, ShareRows(n, k, parts),
         NEW ofRow, ofRow = [row \in 1..n |-> ofRow[row]]
  PROVE  Restore(InBatchOrder(ofRow, parts), parts) = ofRow
<1>1. PICK order : order = FlattenSeq(parts)
  OBVIOUS
<1>2. OnePlaceEach(n, order) /\ Indices(order) = 1..n
  <2>1. OnePlaceEach(n, order)
    BY <1>1, JoinedOnce
  <2> QED
    BY <2>1 DEF OnePlaceEach, Indices
<1>3. PICK results : results = InBatchOrder(ofRow, parts)
  OBVIOUS
<1>4. \A i \in 1..n : results[i] = ofRow[order[i]]
  BY <1>1, <1>2, <1>3 DEF InBatchOrder
<1>5. PICK place : place = ReverseIndex(order)
  OBVIOUS
<1>6. \A row \in 1..n : place[row] \in 1..n /\ order[place[row]] = row
  <2> SUFFICES ASSUME NEW row \in 1..n PROVE place[row] \in 1..n /\ order[place[row]] = row
    OBVIOUS
  <2>1. place[row] = CHOOSE i \in 1..n : order[i] = row
    BY <1>2, <1>5 DEF ReverseIndex
  <2>2. \E i \in 1..n : order[i] = row
    BY <1>2 DEF OnePlaceEach
  <2> QED
    BY <2>1, <2>2, Zenon
<1>7. DOMAIN place = 1..n
  BY <1>2, <1>5 DEF ReverseIndex
<1>8. Restore(results, parts) = [row \in 1..n |-> results[place[row]]]
  BY <1>1, <1>5, <1>7 DEF Restore
<1>9. \A row \in 1..n : results[place[row]] = ofRow[row]
  BY <1>4, <1>6
<1> QED
  BY <1>3, <1>8, <1>9

=============================================================================
