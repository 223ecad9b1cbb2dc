---------------------------- MODULE DataFlowProofs ----------------------------
(***************************************************************************)
(* What DataProto makes of the rows of a batch, for every batch and every  *)
(* number of workers: padding and taking it off again, dealing rows out,   *)
(* putting the parts together.  What a recursive definition computes is    *)
(* proved by induction over a set of numbers (Induction).                  *)
(***************************************************************************)
EXTENDS DataFlow, FiniteSetTheorems, TLAPS

\* A remainder is below its divisor.
LEMMA Remainder ==
  ASSUME NEW length \in Nat, NEW divisor \in Nat \ {0}
  PROVE  length % divisor \in 0..(divisor - 1)
  OBVIOUS

\* The padding is shorter than the number of workers.
LEMMA PadSizeBounds ==
  ASSUME NEW length \in Nat, NEW divisor \in Nat \ {0}
  PROVE  PadSize(length, divisor) \in 0..(divisor - 1)
  BY Remainder DEF PadSize

\* Every place of the padded batch takes its row from one of the batch.
LEMMA SourceOfPlace ==
  ASSUME NEW n \in Nat \ {0}, NEW i \in Nat \ {0}
  PROVE  ((i - 1) % n) + 1 \in 1..n
<1>1. i - 1 \in Nat
  OBVIOUS
<1>2. (i - 1) % n \in 0..(n - 1)
  BY <1>1, Remainder
<1> QED
  BY <1>2

\* Length and padding are a multiple of the number of workers.
LEMMA PaddedLength ==
  ASSUME NEW n \in Nat, NEW divisor \in Nat \ {0}
  PROVE  (n + PadSize(n, divisor)) % divisor = 0
<1>1. CASE n % divisor = 0
  <2>1. PadSize(n, divisor) = 0
    BY <1>1 DEF PadSize
  <2> QED
    BY <1>1, <2>1
<1>2. CASE n % divisor # 0
  <2>1. PICK q \in Nat, r \in 0..(divisor - 1) : n = q * divisor + r /\ r = n % divisor
    <3> WITNESS n \div divisor \in Nat, n % divisor \in 0..(divisor - 1)
    <3> QED
      OBVIOUS
  <2>2. n + PadSize(n, divisor) = (q + 1) * divisor
    BY <1>2, <2>1 DEF PadSize
  <2> QED
    BY <2>1, <2>2
<1> QED
  BY <1>1, <1>2

\* pad_dataproto_to_divisor makes a batch that the workers can share equally.
THEOREM PaddedIsDivisible ==
  ASSUME NEW S, NEW rows \in Seq(S), rows # << >>, NEW divisor \in Nat \ {0}
  PROVE  /\ Pad(rows, divisor) \in Seq(S)
         /\ Len(Pad(rows, divisor)) = Len(rows) + PadSize(Len(rows), divisor)
         /\ Len(Pad(rows, divisor)) % divisor = 0
<1>1. PICK n \in Nat \ {0} : n = Len(rows)
  OBVIOUS
<1>2. PICK size \in Nat : size = PadSize(n, divisor)
  BY PadSizeBounds
<1>3. \A i \in 1..(n + size) : rows[((i - 1) % n) + 1] \in S
  BY <1>1, SourceOfPlace
<1>4. Pad(rows, divisor) = [i \in 1..(n + size) |-> rows[((i - 1) % n) + 1]]
  BY <1>1, <1>2 DEF Pad
<1>5. Pad(rows, divisor) \in Seq(S) /\ Len(Pad(rows, divisor)) = n + size
  BY <1>3, <1>4
<1> QED
  BY <1>1, <1>2, <1>5, PaddedLength

\* unpad_dataproto gives back the rows that pad_dataproto_to_divisor was
\* given, in their order, whatever the number of workers (trainer.py:234-248
\* of the RL recipe joins them with the prompts by position).
THEOREM UnpadOfPad ==
  ASSUME NEW S, NEW rows \in Seq(S), rows # << >>, NEW divisor \in Nat \ {0}
  PROVE  Unpad(Pad(rows, divisor), PadSize(Len(rows), divisor)) = rows
<1> DEFINE n == Len(rows)
           size == PadSize(n, divisor)
           padded == Pad(rows, divisor)
<1>1. n \in Nat \ {0} /\ size \in Nat
  BY PadSizeBounds
<1>2. padded \in Seq(S) /\ Len(padded) = n + size
  BY PaddedIsDivisible
<1>3. Unpad(padded, size) = [i \in 1..n |-> padded[i]]
  BY <1>1, <1>2 DEF Unpad
<1>4. \A i \in 1..n : padded[i] = rows[i]
  <2> TAKE i \in 1..n
  <2>1. (i - 1) % n = i - 1
    BY <1>1
  <2> QED
    BY <1>1, <2>1 DEF Pad
<1> QED
  BY <1>1, <1>3, <1>4

\* The set of a sequence.
LEMMA ToSetRange ==
  ASSUME NEW S, NEW s \in Seq(S)
  PROVE  ToSet(s) = {s[i] : i \in 1..Len(s)} /\ ToSet(s) \subseteq S
<1>1. DOMAIN s = 1..Len(s) /\ \A i \in 1..Len(s) : s[i] \in S
  OBVIOUS
<1> QED
  BY <1>1 DEF ToSet

-----------------------------------------------------------------------------
\* A product grows with its factor.
LEMMA FactorGrows ==
  ASSUME NEW a \in Nat, NEW b \in Nat, NEW size \in Nat, a <= b
  PROVE  a * size <= b * size /\ a * size \in Nat /\ b * size \in Nat
<1>1. PICK d \in Nat : b = a + d
  <2> WITNESS b - a \in Nat
  <2> QED
    OBVIOUS
<1>2. b * size = a * size + d * size /\ a * size \in Nat /\ d * size \in Nat
  BY <1>1
<1> QED
  BY <1>2

\* So many parts of this size make up the whole.
EqualParts(n, chunks, size) == n = chunks * size

LEMMA ExactDivision ==
  ASSUME NEW n \in Nat, NEW c \in Nat \ {0}, n % c = 0
  PROVE  n \div c \in Nat /\ EqualParts(n, c, n \div c)
<1>1. PICK q \in Nat, r \in 0..(c - 1) : n = q * c + r /\ r = n % c /\ q = n \div c
  <2> WITNESS n \div c \in Nat, n % c \in 0..(c - 1)
  <2> QED
    OBVIOUS
<1> QED
  BY <1>1 DEF EqualParts

\* The rows before the k-th part of this size.
Skipped(k, size) == (k - 1) * size

LEMMA PartWithin ==
  ASSUME NEW n \in Nat, NEW c \in Nat \ {0}, NEW size \in Nat, EqualParts(n, c, size),
         NEW k \in 1..c
  PROVE  /\ Skipped(k, size) \in Nat /\ k * size = Skipped(k, size) + size
         /\ Skipped(k, size) + size <= n
<1>1. k - 1 \in Nat /\ k = (k - 1) + 1
  OBVIOUS
<1>2. (k - 1) * size \in Nat /\ k * size = (k - 1) * size + size
  BY <1>1
<1>3. k * size <= c * size /\ c * size \in Nat
  BY FactorGrows
<1> QED
  BY <1>2, <1>3 DEF Skipped, EqualParts

\* Every place belongs to a part.
LEMMA PlaceInPart ==
  ASSUME NEW n \in Nat, NEW c \in Nat \ {0}, NEW size \in Nat, EqualParts(n, c, size),
         NEW i \in 1..n
  PROVE  \E k \in 1..c : i \in (Skipped(k, size) + 1)..(Skipped(k, size) + size)
<1>1. size # 0 /\ n = c * size
  BY DEF EqualParts
<1>2. PICK q \in Nat, r \in 0..(size - 1) : i - 1 = q * size + r
  <2>1. PICK m \in Nat, d \in Nat \ {0} : m = i - 1 /\ d = size
    BY <1>1
  <2>2. m \div d \in Nat /\ m % d \in 0..(d - 1) /\ m = (m \div d) * d + (m % d)
    OBVIOUS
  <2> QED
    BY <2>1, <2>2
<1>3. q * size \in Nat
  BY <1>2
<1>4. q < c
  <2>1. CASE c <= q
    <3>1. c * size <= q * size
      BY <2>1, FactorGrows
    <3> QED
      BY <1>1, <1>2, <1>3, <3>1
  <2> QED
    BY <2>1
<1>5. q + 1 \in 1..c /\ Skipped(q + 1, size) = q * size
  BY <1>4 DEF Skipped
<1>6. i \in (Skipped(q + 1, size) + 1)..(Skipped(q + 1, size) + size)
  BY <1>1, <1>2, <1>3, <1>5
<1> QED
  BY <1>5, <1>6

\* Two parts have no place in common.
LEMMA PartsDisjoint ==
  ASSUME NEW size \in Nat, NEW k \in Nat \ {0}, NEW m \in Nat \ {0}, NEW i \in Int,
         i \in (Skipped(k, size) + 1)..(Skipped(k, size) + size),
         i \in (Skipped(m, size) + 1)..(Skipped(m, size) + size)
  PROVE  k = m
<1>1. ASSUME NEW a \in Nat \ {0}, NEW b \in Nat \ {0}, a < b,
             i \in (Skipped(a, size) + 1)..(Skipped(a, size) + size),
             i \in (Skipped(b, size) + 1)..(Skipped(b, size) + size)
      PROVE  FALSE
  <2>1. b - 1 \in Nat \ {0} /\ a \in 1..(b - 1)
    BY <1>1
  <2>2. Skipped(b, size) \in Nat /\ EqualParts(Skipped(b, size), b - 1, size)
    BY <2>1 DEF Skipped, EqualParts
  <2>3. Skipped(a, size) \in Nat /\ Skipped(a, size) + size <= Skipped(b, size)
    BY <2>1, <2>2, PartWithin
  <2> QED
    BY <1>1, <2>2, <2>3
<1> QED
  BY <1>1

\* The size of the parts.
LEMMA PartSize ==
  ASSUME NEW n \in Nat, NEW c \in Nat \ {0}, NEW size \in Nat, EqualParts(n, c, size)
  PROVE  n % c = 0 /\ n \div c = size
  BY DEF EqualParts

\* A part of a sequence.
LEMMA SubSeqPlaces ==
  ASSUME NEW S, NEW s \in Seq(S), NEW a \in Nat, NEW size \in Nat, a + size <= Len(s)
  PROVE  /\ SubSeq(s, a + 1, a + size) \in Seq(S) /\ Len(SubSeq(s, a + 1, a + size)) = size
         /\ \A j \in 1..size : /\ a + j \in 1..Len(s)
                               /\ SubSeq(s, a + 1, a + size)[j] = s[a + j]
<1>1. SubSeq(s, a + 1, a + size) = [j \in 1..size |-> s[a + j]]
  OBVIOUS
<1>2. \A j \in 1..size : a + j \in 1..Len(s) /\ s[a + j] \in S
  OBVIOUS
<1> QED
  BY <1>1, <1>2

\* An interval, moved.
LEMMA MovedInterval ==
  ASSUME NEW b \in Nat, NEW size \in Nat
  PROVE  {b + j : j \in 1..size} = (b + 1)..(b + size)
<1>1. \A j \in (b + 1)..(b + size) : j - b \in 1..size /\ b + (j - b) = j
  OBVIOUS
<1> QED
  BY <1>1

\* Entry j of part k is the row that so many others precede.
DealtInOrder(rows, chunks, size) ==
  \A k \in 1..chunks : \A j \in 1..size :
    /\ Skipped(k, size) + j \in 1..Len(rows)
    /\ Chunk(rows, chunks)[k][j] = rows[Skipped(k, size) + j]

\* chunk() deals the rows of a batch out in equal parts, in their order: every
\* row goes to one part, and the parts hold nothing else (DataProto.chunk,
\* which asserts that the length is a multiple of the number of parts).
THEOREM ChunksShareRows ==
  ASSUME NEW S, NEW rows \in Seq(S), NEW chunks \in Nat \ {0},
         NEW size \in Nat, EqualParts(Len(rows), chunks, size)
  PROVE  /\ \A k \in 1..chunks :
              Chunk(rows, chunks)[k] \in Seq(S) /\ Len(Chunk(rows, chunks)[k]) = size
         /\ DealtInOrder(rows, chunks, size)
         /\ \A i \in 1..Len(rows) : \E k \in 1..chunks :
              i \in (Skipped(k, size) + 1)..(Skipped(k, size) + size)
<1>1. Len(rows) \in Nat /\ Len(rows) \div chunks = size
  BY PartSize
<1>2. ASSUME NEW k \in 1..chunks
      PROVE  /\ Chunk(rows, chunks)[k] \in Seq(S) /\ Len(Chunk(rows, chunks)[k]) = size
             /\ \A j \in 1..size :
                  /\ Skipped(k, size) + j \in 1..Len(rows)
                  /\ Chunk(rows, chunks)[k][j] = rows[Skipped(k, size) + j]
  <2>1. PICK a \in Nat : a = Skipped(k, size) /\ k * size = a + size /\ a + size <= Len(rows)
    BY <1>1, PartWithin
  <2>2. Chunk(rows, chunks)[k] = SubSeq(rows, a + 1, a + size)
    BY <1>1, <2>1 DEF Chunk, Skipped
  <2>3. /\ SubSeq(rows, a + 1, a + size) \in Seq(S) /\ Len(SubSeq(rows, a + 1, a + size)) = size
        /\ \A j \in 1..size : /\ a + j \in 1..Len(rows)
                              /\ SubSeq(rows, a + 1, a + size)[j] = rows[a + j]
    <3>1. a + size <= Len(rows)
      BY <2>1
    <3> QED
      BY <3>1, SubSeqPlaces
  <2> QED
    BY <2>1, <2>2, <2>3
<1>3. \A i \in 1..Len(rows) : \E k \in 1..chunks :
        i \in (Skipped(k, size) + 1)..(Skipped(k, size) + size)
  BY <1>1, PlaceInPart
<1> QED
  BY <1>2, <1>3 DEF DealtInOrder

\* The parts of a list of places are intervals, one after the other.
PartOfPlaces(n, chunks, k) == Chunk([i \in 1..n |-> i], chunks)[k]

LEMMA ChunksOfPlaces ==
  ASSUME NEW n \in Nat, NEW chunks \in Nat \ {0}, NEW size \in Nat, EqualParts(n, chunks, size)
  PROVE  /\ \A k \in 1..chunks :
              /\ PartOfPlaces(n, chunks, k) \in Seq(1..n) /\ Len(PartOfPlaces(n, chunks, k)) = size
              /\ \A j \in 1..size : PartOfPlaces(n, chunks, k)[j] = Skipped(k, size) + j
              /\ ToSet(PartOfPlaces(n, chunks, k))
                   = (Skipped(k, size) + 1)..(Skipped(k, size) + size)
              /\ IsFiniteSet(ToSet(PartOfPlaces(n, chunks, k)))
              /\ Cardinality(ToSet(PartOfPlaces(n, chunks, k))) = size
         /\ \A i \in 1..n : \E k \in 1..chunks : i \in ToSet(PartOfPlaces(n, chunks, k))
<1>1. PICK all \in Seq(1..n) : all = [i \in 1..n |-> i]
  <2>1. [i \in 1..n |-> i] \in Seq(1..n)
    OBVIOUS
  <2> QED
    BY <2>1
<1>2. Len(all) = n /\ \A i \in 1..n : all[i] = i
  BY <1>1
<1>3. \A k \in 1..chunks : PartOfPlaces(n, chunks, k) = Chunk(all, chunks)[k]
  BY <1>1 DEF PartOfPlaces
<1>4. /\ \A k \in 1..chunks :
           /\ Chunk(all, chunks)[k] \in Seq(1..n) /\ Len(Chunk(all, chunks)[k]) = size
           /\ \A j \in 1..size : /\ Skipped(k, size) + j \in 1..n
                                 /\ Chunk(all, chunks)[k][j] = all[Skipped(k, size) + j]
      /\ \A i \in 1..n : \E k \in 1..chunks :
           i \in (Skipped(k, size) + 1)..(Skipped(k, size) + size)
  <2>1. EqualParts(Len(all), chunks, size)
    BY <1>2
  <2>2. /\ \A k \in 1..chunks :
             Chunk(all, chunks)[k] \in Seq(1..n) /\ Len(Chunk(all, chunks)[k]) = size
        /\ DealtInOrder(all, chunks, size)
        /\ \A i \in 1..Len(all) : \E k \in 1..chunks :
             i \in (Skipped(k, size) + 1)..(Skipped(k, size) + size)
    BY <2>1, ChunksShareRows
  <2> QED
    BY <1>2, <2>2 DEF DealtInOrder
<1>5. ASSUME NEW k \in 1..chunks
      PROVE  /\ PartOfPlaces(n, chunks, k) \in Seq(1..n) /\ Len(PartOfPlaces(n, chunks, k)) = size
             /\ \A j \in 1..size : PartOfPlaces(n, chunks, k)[j] = Skipped(k, size) + j
             /\ ToSet(PartOfPlaces(n, chunks, k))
                  = (Skipped(k, size) + 1)..(Skipped(k, size) + size)
             /\ IsFiniteSet(ToSet(PartOfPlaces(n, chunks, k)))
             /\ Cardinality(ToSet(PartOfPlaces(n, chunks, k))) = size
  <2>1. PICK b \in Nat : b = Skipped(k, size)
    BY PartWithin
  <2>2. PICK part \in Seq(1..n) : part = PartOfPlaces(n, chunks, k) /\ Len(part) = size
    BY <1>3, <1>4
  <2>3. \A j \in 1..size : part[j] = b + j
    <3> SUFFICES ASSUME NEW j \in 1..size PROVE part[j] = b + j
      OBVIOUS
    <3>1. Skipped(k, size) + j \in 1..n /\ part[j] = all[Skipped(k, size) + j]
      BY <1>3, <1>4, <2>2, Zenon
    <3> QED
      BY <1>2, <2>1, <3>1
  <2>4. ToSet(part) = (b + 1)..(b + size)
    <3>1. ToSet(part) = {part[j] : j \in 1..Len(part)}
      BY ToSetRange, Zenon
    <3>2. {part[j] : j \in 1..Len(part)} = {b + j : j \in 1..size}
      BY <2>2, <2>3
    <3> QED
      BY <3>1, <3>2, MovedInterval
  <2>5. IsFiniteSet((b + 1)..(b + size)) /\ Cardinality((b + 1)..(b + size)) = size
    <3>1. b + 1 \in Int /\ b + size \in Int /\ (b + 1 > b + size => size = 0)
          /\ (b + size) - (b + 1) + 1 = size
      OBVIOUS
    <3>2. Cardinality((b + 1)..(b + size))
            = IF b + 1 > b + size THEN 0 ELSE (b + size) - (b + 1) + 1
      BY <3>1, FS_Interval
    <3> QED
      BY <3>1, <3>2, FS_Interval
  <2> QED
    BY <2>1, <2>2, <2>3, <2>4, <2>5
<1> QED
  BY <1>4, <1>5

-----------------------------------------------------------------------------
(***************************************************************************)
(* Induction, and what it says of sequences put one after the other        *)
(***************************************************************************)
\* A set of natural numbers that is not empty has a least element.
LEMMA LeastNumber ==
  ASSUME NEW T \in SUBSET Nat, T # {}
  PROVE  \E m \in T : \A k \in T : m <= k
<1>1. IsWellFoundedOn(OpToRel(<, Nat), Nat)
  BY NatLessThanWellFounded
<1>2. PICK m \in T : \A k \in T : ~(<<k, m>> \in OpToRel(<, Nat))
  BY <1>1, WFMin
<1>3. \A k \in T : ~(k < m)
  BY <1>2 DEF OpToRel
<1> QED
  BY <1>3

\* Induction, for a set of numbers in the place of a predicate.
LEMMA Induction ==
  ASSUME NEW T, 0 \in T, \A n \in Nat : n \in T => n + 1 \in T
  PROVE  Nat \subseteq T
<1>1. ASSUME Nat \ T # {} PROVE FALSE
  <2>1. PICK m \in Nat \ T : \A k \in Nat \ T : m <= k
    BY <1>1, LeastNumber
  <2>2. m # 0 /\ m - 1 \in Nat /\ m - 1 \in T
    BY <2>1
  <2>3. (m - 1) + 1 = m
    BY <2>1
  <2> QED
    BY <2>1, <2>2, <2>3
<1> QED
  BY <1>1

\* The function by which parts are put one after the other.
JoinStep(parts, joined, k) == IF k = 1 THEN parts[k] ELSE joined[k - 1] \o parts[k]
Joins(parts, joined) == joined = [k \in 1..Len(parts) |-> JoinStep(parts, joined, k)]
JoinedUpTo(parts) == CHOOSE joined : Joins(parts, joined)

LEMMA ConcatIsJoined ==
  ASSUME NEW S, NEW parts \in Seq(S), parts # << >>
  PROVE  Concat(parts) = JoinedUpTo(parts)[Len(parts)]
<1>1. Len(parts) # 0
  OBVIOUS
<1> QED
  BY <1>1 DEF Concat, FlattenSeq, JoinedUpTo, Joins, JoinStep

LEMMA JoinedExists ==
  ASSUME NEW S, NEW parts \in Seq(S)
  PROVE  Joins(parts, JoinedUpTo(parts))
<1> DEFINE Upto(n, g) == g = [k \in 1..n |-> JoinStep(parts, g, k)]
           T == {n \in Nat : \E g : Upto(n, g)}
<1>1. 0 \in T
  <2>1. Upto(0, << >>)
    OBVIOUS
  <2> QED
    BY <2>1
<1>2. ASSUME NEW n \in Nat, n \in T PROVE n + 1 \in T
  <2>1. PICK g : Upto(n, g)
    BY <1>2
  <2> DEFINE h == [k \in 1..(n + 1) |-> IF k <= n THEN g[k] ELSE JoinStep(parts, g, k)]
  <2>2. \A k \in 1..n : h[k] = g[k]
    OBVIOUS
  <2>3. \A k \in 1..(n + 1) : k # 1 => k - 1 \in 1..n
    OBVIOUS
  <2>4. \A k \in 1..(n + 1) : JoinStep(parts, h, k) = JoinStep(parts, g, k)
    <3> HIDE DEF h
    <3> QED
      BY <2>2, <2>3 DEF JoinStep
  <2>5. \A k \in 1..n : g[k] = JoinStep(parts, g, k)
    BY <2>1
  <2>6. Upto(n + 1, h)
    BY <2>4, <2>5
  <2>7. n + 1 \in Nat
    OBVIOUS
  <2> HIDE DEF h, Upto
  <2> QED
    BY <2>6, <2>7
<1>3. Len(parts) \in T
  <2> HIDE DEF T
  <2> QED
    BY <1>1, <1>2, Induction
<1>4. \E g : Joins(parts, g)
  BY <1>3 DEF Joins
<1> QED
  BY <1>4 DEF JoinedUpTo

LEMMA JoinedSteps ==
  ASSUME NEW S, NEW parts \in Seq(S)
  PROVE  /\ parts # << >> => 1 \in 1..Len(parts) /\ JoinedUpTo(parts)[1] = parts[1]
         /\ \A k \in Nat \ {0} : k + 1 \in 1..Len(parts) =>
              JoinedUpTo(parts)[k + 1] = JoinedUpTo(parts)[k] \o parts[k + 1]
<1>1. \A k \in 1..Len(parts) : JoinedUpTo(parts)[k] = JoinStep(parts, JoinedUpTo(parts), k)
  <2>1. JoinedUpTo(parts) = [k \in 1..Len(parts) |-> JoinStep(parts, JoinedUpTo(parts), k)]
    BY JoinedExists DEF Joins
  <2> QED
    BY <2>1, Zenon
<1>2. parts # << >> => 1 \in 1..Len(parts)
  OBVIOUS
<1>3. \A k \in Nat \ {0} : k + 1 # 1 /\ (k + 1) - 1 = k
  OBVIOUS
<1> QED
  BY <1>1, <1>2, <1>3 DEF JoinStep

\* Where the k-th part begins, and what there is when k parts have been joined.
Before(parts, k) == IF k = 1 THEN 0 ELSE Len(JoinedUpTo(parts)[k - 1])

JoinedSoFar(parts, S, n) ==
  /\ JoinedUpTo(parts)[n] \in Seq(S)
  /\ Len(JoinedUpTo(parts)[n]) = Before(parts, n) + Len(parts[n])
  /\ \A k \in 1..n : Before(parts, k) \in Nat
  /\ \A k \in 1..n : \A j \in 1..Len(parts[k]) :
       /\ Before(parts, k) + j \in 1..Len(JoinedUpTo(parts)[n])
       /\ JoinedUpTo(parts)[n][Before(parts, k) + j] = parts[k][j]
  /\ \A i \in 1..Len(JoinedUpTo(parts)[n]) : \E k \in 1..n : \E j \in 1..Len(parts[k]) :
       i = Before(parts, k) + j

\* The places of two sequences, one after the other.
LEMMA PlacesOfBoth ==
  ASSUME NEW S, NEW p \in Seq(S), NEW q \in Seq(S)
  PROVE  /\ p \o q \in Seq(S) /\ Len(p \o q) = Len(p) + Len(q)
         /\ \A i \in 1..Len(p) : (p \o q)[i] = p[i]
         /\ \A j \in 1..Len(q) : (p \o q)[Len(p) + j] = q[j]
  OBVIOUS

LEMMA JoinedPlaces ==
  ASSUME NEW S, NEW parts \in Seq(Seq(S))
  PROVE  \A n \in 1..Len(parts) : JoinedSoFar(parts, S, n)
<1> DEFINE T == {n \in Nat : n + 1 \in 1..Len(parts) => JoinedSoFar(parts, S, n + 1)}
<1>1. 0 \in T
  <2> SUFFICES ASSUME 1 \in 1..Len(parts) PROVE JoinedSoFar(parts, S, 1)
    OBVIOUS
  <2>1. JoinedUpTo(parts)[1] = parts[1] /\ parts[1] \in Seq(S)
    <3>1. parts # << >> /\ parts[1] \in Seq(S)
      OBVIOUS
    <3> QED
      BY <3>1, JoinedSteps
  <2>2. Before(parts, 1) = 0 /\ 1..1 = {1}
    BY DEF Before
  <2>3. PICK p \in Seq(S) : p = parts[1]
    BY <2>1
  <2>4. \A k \in 1..1 : k = 1
    OBVIOUS
  <2>5. 0 + Len(p) = Len(p) /\ \A j \in 1..Len(p) : 0 + j = j
    OBVIOUS
  <2>6. \A j \in 1..Len(p) : \E k \in 1..1 : \E i \in 1..Len(parts[k]) : j = Before(parts, k) + i
    BY <2>2, <2>3, <2>5
  <2> QED
    BY <2>1, <2>2, <2>3, <2>4, <2>5, <2>6 DEF JoinedSoFar
<1>2. ASSUME NEW m \in Nat, m \in T PROVE m + 1 \in T
  <2> SUFFICES ASSUME (m + 1) + 1 \in 1..Len(parts) PROVE JoinedSoFar(parts, S, (m + 1) + 1)
    OBVIOUS
  <2>1. PICK n \in Nat \ {0} : n = m + 1 /\ n \in 1..Len(parts) /\ n + 1 \in 1..Len(parts)
    <3> WITNESS m + 1 \in Nat \ {0}
    <3> QED
      OBVIOUS
  <2>2. JoinedSoFar(parts, S, n)
    BY <1>2, <2>1
  <2>3. PICK p \in Seq(S), q \in Seq(S) : p = JoinedUpTo(parts)[n] /\ q = parts[n + 1]
    BY <2>1, <2>2 DEF JoinedSoFar
  <2>4. JoinedUpTo(parts)[n + 1] = p \o q
    BY <2>1, <2>3, JoinedSteps
  <2>5. Before(parts, n + 1) = Len(p)
    <3>1. n + 1 # 1 /\ (n + 1) - 1 = n
      BY <2>1
    <3> QED
      BY <2>3, <3>1 DEF Before
  <2> DEFINE r == p \o q
  <2>6. /\ r \in Seq(S) /\ Len(r) = Len(p) + Len(q)
        /\ \A i \in 1..Len(p) : r[i] = p[i]
        /\ \A j \in 1..Len(q) : r[Len(p) + j] = q[j]
    BY PlacesOfBoth
  <2>7. JoinedUpTo(parts)[n + 1] = r
    BY <2>4
  <2> HIDE DEF r
  <2>8. \A k \in 1..(n + 1) : k \in 1..n \/ k = n + 1
    BY <2>1
  <2>9. \A k \in 1..(n + 1) : Before(parts, k) \in Nat
    BY <2>2, <2>5, <2>8 DEF JoinedSoFar
  <2>10. ASSUME NEW k \in 1..(n + 1), NEW j \in 1..Len(parts[k])
        PROVE  /\ Before(parts, k) + j \in 1..Len(r)
               /\ r[Before(parts, k) + j] = parts[k][j]
    <3>1. CASE k \in 1..n
      <4>1. Before(parts, k) + j \in 1..Len(p) /\ p[Before(parts, k) + j] = parts[k][j]
        BY <2>2, <2>3, <3>1 DEF JoinedSoFar
      <4>2. 1..Len(p) \subseteq 1..Len(r)
        BY <2>6
      <4> QED
        BY <2>6, <4>1, <4>2
    <3>2. CASE k = n + 1
      <4>1. j \in 1..Len(q) /\ Before(parts, k) = Len(p) /\ parts[k] = q
        BY <2>3, <2>5, <3>2
      <4>2. Len(p) + j \in 1..Len(r)
        BY <2>6, <4>1
      <4> QED
        BY <2>6, <4>1, <4>2
    <3> QED
      BY <2>8, <3>1, <3>2
  <2>11. ASSUME NEW i \in 1..Len(r)
         PROVE  \E k \in 1..(n + 1) : \E j \in 1..Len(parts[k]) : i = Before(parts, k) + j
    <3>1. CASE i <= Len(p)
      <4>1. i \in 1..Len(p)
        BY <2>6, <3>1
      <4>2. PICK k \in 1..n : \E j \in 1..Len(parts[k]) : i = Before(parts, k) + j
        BY <2>2, <2>3, <4>1 DEF JoinedSoFar
      <4>3. k \in 1..(n + 1)
        OBVIOUS
      <4> QED
        BY <4>2, <4>3
    <3>2. CASE ~(i <= Len(p))
      <4>1. i - Len(p) \in 1..Len(q) /\ i = Len(p) + (i - Len(p))
        <5>1. Len(r) = Len(p) + Len(q) /\ Len(p) \in Nat /\ Len(q) \in Nat
          BY <2>6
        <5>2. i \in 1..Len(r) /\ ~(i <= Len(p))
          BY <3>2
        <5> QED
          BY <5>1, <5>2
      <4>2. PICK j \in 1..Len(q) : i = Len(p) + j
        BY <4>1
      <4>3. n + 1 \in 1..(n + 1) /\ j \in 1..Len(parts[n + 1]) /\ i = Before(parts, n + 1) + j
        BY <2>3, <2>5, <4>2
      <4> QED
        BY <4>3
    <3> QED
      BY <3>1, <3>2
  <2>12. JoinedSoFar(parts, S, n + 1)
    BY <2>3, <2>5, <2>6, <2>9, <2>10, <2>7, <2>11 DEF JoinedSoFar
  <2> QED
    BY <2>1, <2>12
<1>3. Nat \subseteq T
  <2> HIDE DEF T
  <2> QED
    BY <1>1, <1>2, Induction
<1>4. \A n \in 1..Len(parts) : n - 1 \in Nat /\ (n - 1) + 1 = n
  OBVIOUS
<1> QED
  BY <1>3, <1>4

\* What concatenation leaves of each part: its entries, from where the parts
\* before it end, and nothing else (DataProto.concat).
LEMMA ConcatPlaces ==
  ASSUME NEW S, NEW parts \in Seq(Seq(S)), parts # << >>
  PROVE  /\ Concat(parts) \in Seq(S)
         /\ Len(Concat(parts)) = Before(parts, Len(parts)) + Len(parts[Len(parts)])
         /\ \A k \in 1..Len(parts) : Before(parts, k) \in Nat
         /\ \A k \in 1..Len(parts) : \A j \in 1..Len(parts[k]) :
              /\ Before(parts, k) + j \in 1..Len(Concat(parts))
              /\ Concat(parts)[Before(parts, k) + j] = parts[k][j]
         /\ \A i \in 1..Len(Concat(parts)) : \E k \in 1..Len(parts) : \E j \in 1..Len(parts[k]) :
              i = Before(parts, k) + j
<1>1. Len(parts) \in 1..Len(parts)
  OBVIOUS
<1>2. JoinedSoFar(parts, S, Len(parts))
  BY <1>1, JoinedPlaces
<1>3. Concat(parts) = JoinedUpTo(parts)[Len(parts)]
  BY ConcatIsJoined
<1> QED
  BY <1>2, <1>3 DEF JoinedSoFar

\* The next part begins where the last one ends.
LEMMA BeforeNext ==
  ASSUME NEW S, NEW parts \in Seq(Seq(S)), NEW k \in Nat \ {0}, k + 1 \in 1..Len(parts)
  PROVE  Before(parts, 1) = 0 /\ Before(parts, k + 1) = Before(parts, k) + Len(parts[k])
<1>1. k + 1 # 1 /\ (k + 1) - 1 = k /\ k \in 1..Len(parts)
  OBVIOUS
<1>2. JoinedSoFar(parts, S, k)
  BY <1>1, JoinedPlaces
<1> QED
  BY <1>1, <1>2 DEF Before, JoinedSoFar

LEMMA BeforeEqual ==
  ASSUME NEW S, NEW parts \in Seq(Seq(S)), NEW size \in Nat,
         \A k \in 1..Len(parts) : Len(parts[k]) = size
  PROVE  \A k \in 1..Len(parts) : Before(parts, k) = Skipped(k, size)
<1> DEFINE T == {n \in Nat : n + 1 \in 1..Len(parts) => Before(parts, n + 1) = n * size}
<1>1. 0 \in T
  BY DEF Before
<1>2. ASSUME NEW n \in Nat, n \in T PROVE n + 1 \in T
  <2> SUFFICES ASSUME (n + 1) + 1 \in 1..Len(parts)
               PROVE  Before(parts, (n + 1) + 1) = (n + 1) * size
    OBVIOUS
  <2>1. n + 1 \in Nat \ {0} /\ n + 1 \in 1..Len(parts)
    OBVIOUS
  <2>2. Before(parts, n + 1) = n * size
    BY <1>2, <2>1
  <2>3. Before(parts, (n + 1) + 1) = Before(parts, n + 1) + Len(parts[n + 1])
    BY <2>1, BeforeNext
  <2>4. (n + 1) * size = n * size + size
    OBVIOUS
  <2> QED
    BY <2>1, <2>2, <2>3, <2>4
<1>3. Nat \subseteq T
  <2> HIDE DEF T
  <2> QED
    BY <1>1, <1>2, Induction
<1>4. \A k \in 1..Len(parts) : k - 1 \in Nat /\ (k - 1) + 1 = k
  OBVIOUS
<1> QED
  BY <1>3, <1>4 DEF Skipped

\* Entry j of part k comes after k - 1 times the size others.
KeepsPlaces(parts, size, all) ==
  \A k \in 1..Len(parts) : \A j \in 1..size :
    /\ Skipped(k, size) + j \in 1..Len(all)
    /\ all[Skipped(k, size) + j] = parts[k][j]

\* Parts of one size keep their places when they are joined, so that the driver
\* finds the result of a row where the row was (DataProto.concat of what equal
\* chunks come to).
THEOREM ConcatOfEqualParts ==
  ASSUME NEW S, NEW parts \in Seq(Seq(S)), parts # << >>, NEW size \in Nat,
         \A k \in 1..Len(parts) : Len(parts[k]) = size
  PROVE  /\ Concat(parts) \in Seq(S) /\ EqualParts(Len(Concat(parts)), Len(parts), size)
         /\ KeepsPlaces(parts, size, Concat(parts))
<1>1. Len(parts) \in 1..Len(parts) /\ Len(parts) \in Nat \ {0}
  OBVIOUS
<1>2. \A k \in 1..Len(parts) : Before(parts, k) = Skipped(k, size)
  BY BeforeEqual
<1>3. /\ Concat(parts) \in Seq(S)
      /\ Len(Concat(parts)) = Skipped(Len(parts), size) + size
      /\ \A k \in 1..Len(parts) : \A j \in 1..size :
              /\ Skipped(k, size) + j \in 1..Len(Concat(parts))
              /\ Concat(parts)[Skipped(k, size) + j] = parts[k][j]
  <2>1. /\ Concat(parts) \in Seq(S)
        /\ Len(Concat(parts)) = Before(parts, Len(parts)) + Len(parts[Len(parts)])
        /\ \A k \in 1..Len(parts) : \A j \in 1..Len(parts[k]) :
             /\ Before(parts, k) + j \in 1..Len(Concat(parts))
             /\ Concat(parts)[Before(parts, k) + j] = parts[k][j]
    BY ConcatPlaces
  <2> HIDE DEF Concat
  <2> QED
    BY <1>1, <1>2, <2>1
<1>4. Skipped(Len(parts), size) + size = Len(parts) * size
  <2>1. PICK n \in Nat \ {0} : n = Len(parts)
    BY <1>1
  <2>2. (n - 1) * size + size = n * size
    OBVIOUS
  <2> QED
    BY <2>1, <2>2 DEF Skipped
<1> QED
  BY <1>3, <1>4 DEF EqualParts, KeepsPlaces

\* What was dealt out and collected is what it was: no row is lost, repeated or
\* moved between chunk() and concat().
THEOREM ConcatOfChunks ==
  ASSUME NEW S, NEW rows \in Seq(S), NEW chunks \in Nat \ {0},
         NEW size \in Nat, EqualParts(Len(rows), chunks, size)
  PROVE  Concat(Chunk(rows, chunks)) = rows
<1>1. /\ \A k \in 1..chunks :
           Chunk(rows, chunks)[k] \in Seq(S) /\ Len(Chunk(rows, chunks)[k]) = size
      /\ DealtInOrder(rows, chunks, size)
      /\ \A i \in 1..Len(rows) : \E k \in 1..chunks :
           i \in (Skipped(k, size) + 1)..(Skipped(k, size) + size)
  BY ChunksShareRows
<1>2. PICK parts : parts = Chunk(rows, chunks)
  OBVIOUS
<1>3. parts \in Seq(Seq(S)) /\ Len(parts) = chunks /\ parts # << >>
  <2>1. parts = [k \in 1..chunks |-> parts[k]]
    BY <1>2 DEF Chunk
  <2>2. \A k \in 1..chunks : parts[k] \in Seq(S)
    BY <1>1, <1>2
  <2>3. /\ [k \in 1..chunks |-> parts[k]] \in Seq(Seq(S))
        /\ Len([k \in 1..chunks |-> parts[k]]) = chunks
    BY <2>2
  <2>4. parts \in Seq(Seq(S)) /\ Len(parts) = chunks
    BY <2>1, <2>3
  <2> QED
    BY <2>4
<1>4. PICK all : /\ all = Concat(parts) /\ all \in Seq(S) /\ EqualParts(Len(all), chunks, size)
                 /\ \A k \in 1..chunks : \A j \in 1..size :
                      all[Skipped(k, size) + j] = parts[k][j]
  <2>1. \A k \in 1..Len(parts) : Len(parts[k]) = size
    BY <1>1, <1>2, <1>3
  <2>2. /\ Concat(parts) \in Seq(S) /\ EqualParts(Len(Concat(parts)), Len(parts), size)
        /\ KeepsPlaces(parts, size, Concat(parts))
    BY <1>3, <2>1, ConcatOfEqualParts
  <2>3. PICK all : all = Concat(parts)
    OBVIOUS
  <2> QED
    BY <1>3, <2>2, <2>3 DEF KeepsPlaces
<1>5. Len(all) = Len(rows)
  BY <1>4 DEF EqualParts
<1>6. ASSUME NEW i \in 1..Len(rows) PROVE all[i] = rows[i]
  <2>1. PICK k \in 1..chunks : i \in (Skipped(k, size) + 1)..(Skipped(k, size) + size)
    BY <1>1
  <2>2. Skipped(k, size) \in Nat
    BY PartWithin
  <2>3. PICK j \in 1..size : i = Skipped(k, size) + j
    <3>1. i - Skipped(k, size) \in 1..size /\ i = Skipped(k, size) + (i - Skipped(k, size))
      BY <2>1, <2>2
    <3> QED
      BY <3>1
  <2> QED
    BY <1>1, <1>2, <1>4, <2>3 DEF DealtInOrder
<1> QED
  BY <1>2, <1>4, <1>5, <1>6

\* The size of the m-th part: width, and what is left over in the last.
PartLength(length, width, m) ==
  IF Skipped(m, width) + width < length THEN width ELSE length - Skipped(m, width)

\* So many rows come before each part, and after the last there are none.
SplitInOrder(rows, width, parts) ==
  /\ Len(parts) = CeilDiv(Len(rows), width) /\ Len(parts) \in Nat \ {0}
  /\ \A m \in 1..Len(parts) :
       /\ Skipped(m, width) \in Nat
       /\ Len(parts[m]) = PartLength(Len(rows), width, m) /\ Len(parts[m]) \in 1..width
       /\ Skipped(m, width) + Len(parts[m]) <= Len(rows)
       /\ \A j \in 1..Len(parts[m]) : parts[m][j] = rows[Skipped(m, width) + j]
       /\ m < Len(parts) => Len(parts[m]) = width
       /\ m = Len(parts) => Skipped(m, width) + Len(parts[m]) = Len(rows)

LEMMA Ceiling ==
  ASSUME NEW a \in Nat \ {0}, NEW b \in Nat \ {0}
  PROVE  \E c \in Nat \ {0} : CeilDiv(a, b) = c /\ Skipped(c, b) < a /\ a <= c * b
<1>1. PICK q \in Nat, r \in 0..(b - 1) : a + b - 1 = q * b + r /\ q = (a + b - 1) \div b
  <2>1. PICK m \in Nat : m = a + b - 1
    OBVIOUS
  <2>2. m \div b \in Nat /\ m % b \in 0..(b - 1) /\ m = (m \div b) * b + (m % b)
    OBVIOUS
  <2> QED
    BY <2>1, <2>2
<1>2. q # 0
  <2>1. q = 0 => q * b = 0
    OBVIOUS
  <2> QED
    BY <1>1, <2>1
<1>3. (q - 1) * b = q * b - b /\ q * b \in Nat
  BY <1>1
<1>4. (q - 1) * b < a /\ a <= q * b
  BY <1>1, <1>3
<1> QED
  BY <1>1, <1>2, <1>4 DEF CeilDiv, Skipped

\* split() cuts the rows of a batch into parts of the width it is given, in
\* their order, of which only the last may be shorter, and none is empty
\* (DataProto.split).
THEOREM SplitKeepsOrder ==
  ASSUME NEW S, NEW rows \in Seq(S), rows # << >>, NEW width \in Nat \ {0}
  PROVE  SplitInOrder(rows, width, Split(rows, width)) /\ Split(rows, width) \in Seq(Seq(S))
<1>1. PICK n \in Nat \ {0} : n = Len(rows)
  OBVIOUS
<1>2. PICK c \in Nat \ {0} : CeilDiv(n, width) = c /\ Skipped(c, width) < n /\ n <= c * width
  BY Ceiling
<1>3. PICK parts : parts = Split(rows, width)
  OBVIOUS
<1>4. parts = [k \in 1..c |-> SubSeq(rows, (k - 1) * width + 1,
                                      IF k * width < n THEN k * width ELSE n)]
  BY <1>1, <1>2, <1>3 DEF Split
<1>5. ASSUME NEW m \in 1..c
      PROVE  /\ Skipped(m, width) \in Nat
             /\ parts[m] \in Seq(S) /\ Len(parts[m]) = PartLength(n, width, m)
             /\ Len(parts[m]) \in 1..width /\ Skipped(m, width) + Len(parts[m]) <= n
             /\ \A j \in 1..Len(parts[m]) : parts[m][j] = rows[Skipped(m, width) + j]
             /\ m < c => Len(parts[m]) = width
             /\ m = c => Skipped(m, width) + Len(parts[m]) = n
  <2>1. PICK s \in Nat : s = Skipped(m, width) /\ m * width = s + width
    <3>1. m - 1 \in Nat /\ m = (m - 1) + 1
      OBVIOUS
    <3>2. (m - 1) * width \in Nat /\ m * width = (m - 1) * width + width
      BY <3>1
    <3> QED
      BY <3>2 DEF Skipped
  <2>2. s < n /\ (m < c => s + width < n)
    <3>1. Skipped(c, width) \in Nat
      <4>1. c - 1 \in Nat
        OBVIOUS
      <4> QED
        BY <4>1 DEF Skipped
    <3>2. s <= Skipped(c, width)
      <4>1. m - 1 \in Nat /\ c - 1 \in Nat /\ m - 1 <= c - 1
        OBVIOUS
      <4> QED
        BY <2>1, <4>1, FactorGrows DEF Skipped
    <3>3. m < c => s + width <= Skipped(c, width)
      <4>1. m \in Nat /\ c - 1 \in Nat /\ (m < c => m <= c - 1)
        OBVIOUS
      <4>2. m < c => m * width <= (c - 1) * width
        BY <4>1, FactorGrows
      <4> QED
        BY <2>1, <4>2 DEF Skipped
    <3> QED
      BY <1>2, <3>1, <3>2, <3>3
  <2>3. PICK size \in 1..width : size = PartLength(n, width, m)
    <3>1. PartLength(n, width, m) = IF s + width < n THEN width ELSE n - s
      BY <2>1 DEF PartLength
    <3>2. (IF s + width < n THEN width ELSE n - s) \in 1..width
      BY <2>2
    <3> QED
      BY <3>1, <3>2
  <2>4. /\ s + size <= n /\ (m < c => size = width)
        /\ s + size = IF m * width < n THEN m * width ELSE n
    <3>1. size = IF s + width < n THEN width ELSE n - s
      BY <2>1, <2>3 DEF PartLength
    <3> QED
      BY <2>1, <2>2, <3>1
  <2>5. parts[m] = SubSeq(rows, s + 1, s + size)
    BY <1>4, <2>1, <2>4 DEF Skipped
  <2>6. /\ parts[m] \in Seq(S) /\ Len(parts[m]) = size
        /\ \A j \in 1..size : parts[m][j] = rows[s + j]
    BY <1>1, <2>4, <2>5, SubSeqPlaces
  <2>7. m = c => s + size = n
    BY <1>2, <2>4
  <2> QED
    BY <2>1, <2>3, <2>4, <2>6, <2>7
<1>6. parts \in Seq(Seq(S)) /\ Len(parts) = c
  <2>1. parts \in [1..c -> Seq(S)]
    BY <1>4, <1>5
  <2> QED
    BY <2>1
<1> QED
  BY <1>1, <1>2, <1>3, <1>5, <1>6 DEF SplitInOrder

=============================================================================
