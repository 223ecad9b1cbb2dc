---------------------------- MODULE AcrosticProofs ----------------------------
(***************************************************************************)
(* Proofs about AcrosticController, for every vocabulary, secret and       *)
(* bound. First the extractor as a function of the text; then the          *)
(* controller, the replay and the detector, which read the same letters in *)
(* portions of their own.                                                  *)
(***************************************************************************)
EXTENDS AcrosticController, DataFlowProofs, SequenceTheorems

-----------------------------------------------------------------------------
(***************************************************************************)
(* Folds. The library defines FoldLeft by a recursive function over sets   *)
(* of indexes: what it is for a longer sequence follows from what it is    *)
(* for a shorter one.                                                      *)
(***************************************************************************)
\* The two folds over captured letters: that of the controller and that of
\* the detector.
FoldBy(kind, acc, letter) ==
  IF kind = "walk" THEN WalkStep(acc, letter) ELSE Resolve(acc, letter)
FoldStep(kind, start, s, g, S) ==
  IF S = {} THEN start ELSE FoldBy(kind, g[S \ {Max(S)}], s[Max(S)])
FoldsOver(kind, start, s, D, g) == g = [S \in SUBSET D |-> FoldStep(kind, start, s, g, S)]
FoldTable(kind, start, s) == CHOOSE g : FoldsOver(kind, start, s, DOMAIN s, g)
Folded(kind, start, s) == FoldTable(kind, start, s)[DOMAIN s]

LEMMA FoldsAre ==
  ASSUME NEW start, NEW s
  PROVE  /\ FoldLeft(Resolve, start, s) = Folded("resolve", start, s)
         /\ FoldLeft(WalkStep, start, s) = Folded("walk", start, s)
<1>1. FoldLeft(Resolve, start, s) = Folded("resolve", start, s)
  BY DEF FoldLeft, MapThenFoldSet, Folded, FoldTable, FoldsOver, FoldStep, FoldBy
<1>2. FoldLeft(WalkStep, start, s) = Folded("walk", start, s)
  BY DEF FoldLeft, MapThenFoldSet, Folded, FoldTable, FoldsOver, FoldStep, FoldBy
<1> QED
  BY <1>1, <1>2

LEMMA LargestOf ==
  ASSUME NEW n \in Nat
  PROVE  /\ \A S \in SUBSET (1..n) : S # {} => Max(S) \in S
         /\ \A S \in SUBSET (1..(n + 1)) : n + 1 \in S => Max(S) = n + 1
<1>1. ASSUME NEW S \in SUBSET (1..n), S # {} PROVE Max(S) \in S
  <2> DEFINE T == {n - k : k \in S}
  <2>0. \A k \in S : k \in Int /\ n - k \in Nat
    BY <1>1
  <2>1. T \in SUBSET Nat /\ T # {}
    BY <1>1, <2>0
  <2>2. PICK m \in T : \A k \in T : m <= k
    BY <2>1, LeastNumber
  <2>3. PICK x \in S : m = n - x
    BY <2>2
  <2>4. \A y \in S : n - x <= n - y
    BY <2>2, <2>3
  <2>5. \A y \in S : x >= y
    <3> TAKE y \in S
    <3>1. x \in Int /\ y \in Int /\ n - x <= n - y
      BY <2>0, <2>4
    <3> QED
      BY <3>1
  <2> HIDE DEF T
  <2>6. \E z \in S : \A y \in S : z >= y
    BY <2>5
  <2> QED
    BY <2>6 DEF Max
<1>2. ASSUME NEW S \in SUBSET (1..(n + 1)), n + 1 \in S PROVE Max(S) = n + 1
  <2>1. \A y \in S : n + 1 >= y
    OBVIOUS
  <2>2. Max(S) \in S /\ \A y \in S : Max(S) >= y
    BY <1>2, <2>1 DEF Max
  <2>3. Max(S) \in Int
    <3>1. \A y \in S : y \in Int
      OBVIOUS
    <3> QED
      BY <2>2, <3>1
  <2> QED
    BY <1>2, <2>1, <2>2, <2>3
<1> QED
  BY <1>1, <1>2

LEMMA FoldTableExists ==
  ASSUME NEW kind, NEW start, NEW V, NEW s \in Seq(V)
  PROVE  FoldsOver(kind, start, s, DOMAIN s, FoldTable(kind, start, s))
<1> DEFINE T == {n \in Nat : \E g : FoldsOver(kind, start, s, 1..n, g)}
<1>1. 0 \in T
  <2> DEFINE h == [S \in SUBSET (1..0) |-> start]
  <2>1. \A S \in SUBSET (1..0) : S = {}
    OBVIOUS
  <2>2. \A S \in SUBSET (1..0) : FoldStep(kind, start, s, h, S) = start
    BY <2>1 DEF FoldStep
  <2>3. FoldsOver(kind, start, s, 1..0, h)
    BY <2>2 DEF FoldsOver
  <2> HIDE DEF h
  <2> QED
    BY <2>3
<1>2. ASSUME NEW n \in Nat, n \in T PROVE n + 1 \in T
  <2>1. PICK g : FoldsOver(kind, start, s, 1..n, g)
    BY <1>2
  <2> DEFINE h == [S \in SUBSET (1..(n + 1)) |->
                     IF n + 1 \in S THEN FoldBy(kind, g[S \ {n + 1}], s[n + 1]) ELSE g[S]]
  <2>2. \A S \in SUBSET (1..n) : h[S] = g[S]
    <3>1. \A S \in SUBSET (1..n) : S \in SUBSET (1..(n + 1)) /\ n + 1 \notin S
      OBVIOUS
    <3> QED
      BY <3>1
  <2>3. ASSUME NEW S \in SUBSET (1..(n + 1))
        PROVE  h[S] = FoldStep(kind, start, s, h, S)
    <3>1. CASE n + 1 \in S
      <4>1. Max(S) = n + 1
        BY <3>1, LargestOf
      <4>2. S \ {n + 1} \in SUBSET (1..n)
        OBVIOUS
      <4>3. h[S \ {n + 1}] = g[S \ {n + 1}]
        BY <2>2, <4>2
      <4>4. h[S] = FoldBy(kind, g[S \ {n + 1}], s[n + 1])
        BY <3>1
      <4> HIDE DEF h
      <4> QED
        BY <3>1, <4>1, <4>3, <4>4 DEF FoldStep
    <3>2. CASE n + 1 \notin S
      <4>1. S \in SUBSET (1..n)
        BY <3>2
      <4>2. h[S] = g[S]
        BY <2>2, <4>1
      <4>3. g[S] = FoldStep(kind, start, s, g, S)
        BY <2>1, <4>1, Zenon DEF FoldsOver
      <4>4. S # {} => S \ {Max(S)} \in SUBSET (1..n)
        BY <4>1
      <4>5. S # {} => h[S \ {Max(S)}] = g[S \ {Max(S)}]
        BY <2>2, <4>4
      <4> HIDE DEF h
      <4> QED
        BY <4>2, <4>3, <4>5 DEF FoldStep
    <3> QED
      BY <3>1, <3>2
  <2>4. h = [S \in SUBSET (1..(n + 1)) |-> h[S]]
    OBVIOUS
  <2> HIDE DEF h
  <2>5. FoldsOver(kind, start, s, 1..(n + 1), h)
    BY <2>3, <2>4, Zenon DEF FoldsOver
  <2>6. n + 1 \in Nat
    OBVIOUS
  <2> QED
    BY <2>5, <2>6
<1>3. Len(s) \in Nat /\ DOMAIN s = 1..Len(s)
  OBVIOUS
<1> HIDE DEF T
<1>4. Len(s) \in T
  BY <1>1, <1>2, <1>3, Induction
<1>5. \E g : FoldsOver(kind, start, s, DOMAIN s, g)
  BY <1>3, <1>4 DEF T
<1> QED
  BY <1>5 DEF FoldTable

LEMMA FoldTableSteps ==
  ASSUME NEW kind, NEW start, NEW V, NEW s \in Seq(V)
  PROVE  /\ FoldTable(kind, start, s)[{}] = start
         /\ \A n \in Nat : n + 1 <= Len(s) =>
              FoldTable(kind, start, s)[1..(n + 1)]
                = FoldBy(kind, FoldTable(kind, start, s)[1..n], s[n + 1])
<1> DEFINE g == FoldTable(kind, start, s)
<1>1. g = [S \in SUBSET DOMAIN s |-> FoldStep(kind, start, s, g, S)]
  <2>1. FoldsOver(kind, start, s, DOMAIN s, g)
    BY FoldTableExists
  <2> HIDE DEF g
  <2> QED
    BY <2>1, Zenon DEF FoldsOver
<1> HIDE DEF g
<1>2. \A S \in SUBSET DOMAIN s : g[S] = FoldStep(kind, start, s, g, S)
  BY <1>1, Zenon
<1>3. g[{}] = start
  BY <1>2 DEF FoldStep
<1>4. ASSUME NEW n \in Nat, n + 1 <= Len(s)
      PROVE  g[1..(n + 1)] = FoldBy(kind, g[1..n], s[n + 1])
  <2>1. 1..(n + 1) \in SUBSET DOMAIN s /\ n + 1 \in 1..(n + 1)
    BY <1>4
  <2>2. Max(1..(n + 1)) = n + 1
    BY <2>1, LargestOf
  <2>3. (1..(n + 1)) \ {n + 1} = 1..n
    OBVIOUS
  <2>4. g[1..(n + 1)] = FoldStep(kind, start, s, g, 1..(n + 1))
    BY <1>2, <2>1
  <2>5. 1..(n + 1) # {}
    BY <2>1
  <2> QED
    BY <2>2, <2>3, <2>4, <2>5 DEF FoldStep
<1> QED
  BY <1>3, <1>4 DEF g

\* A fold goes on from where it was.
LEMMA FoldedAppend ==
  ASSUME NEW kind, NEW start, NEW V, NEW s \in Seq(V), NEW x \in V
  PROVE  /\ Folded(kind, start, << >>) = start
         /\ Folded(kind, start, Append(s, x)) = FoldBy(kind, Folded(kind, start, s), x)
<1> DEFINE u == Append(s, x)
           g == FoldTable(kind, start, s)
           h == FoldTable(kind, start, u)
           T == {n \in Nat : n <= Len(s) => h[1..n] = g[1..n]}
<1>1. /\ u \in Seq(V) /\ Len(u) = Len(s) + 1 /\ Len(s) \in Nat /\ u[Len(s) + 1] = x
      /\ \A i \in 1..Len(s) : u[i] = s[i]
      /\ DOMAIN s = 1..Len(s) /\ DOMAIN u = 1..(Len(s) + 1)
  OBVIOUS
<1> HIDE DEF u, g, h
<1>2. 1..0 = {}
  OBVIOUS
<1>3. 0 \in T
  <2>1. h[{}] = start /\ g[{}] = start
    BY <1>1, FoldTableSteps DEF g, h
  <2> QED
    BY <1>2, <2>1
<1>4. ASSUME NEW n \in Nat, n \in T PROVE n + 1 \in T
  <2>1. ASSUME n + 1 <= Len(s) PROVE h[1..(n + 1)] = g[1..(n + 1)]
    <3>1. n + 1 \in 1..Len(s) /\ n <= Len(s) /\ n + 1 <= Len(u)
      BY <1>1, <2>1
    <3>2. h[1..n] = g[1..n] /\ u[n + 1] = s[n + 1]
      BY <1>1, <1>4, <3>1
    <3>3. g[1..(n + 1)] = FoldBy(kind, g[1..n], s[n + 1])
      BY <2>1, FoldTableSteps DEF g
    <3>4. h[1..(n + 1)] = FoldBy(kind, h[1..n], u[n + 1])
      BY <1>1, <3>1, FoldTableSteps DEF h
    <3> QED
      BY <3>2, <3>3, <3>4
  <2>2. n + 1 \in Nat
    OBVIOUS
  <2> QED
    BY <2>1, <2>2
<1>5. Len(s) \in T
  <2> HIDE DEF T
  <2> QED
    BY <1>1, <1>3, <1>4, Induction
<1>6. h[1..Len(s)] = g[1..Len(s)]
  BY <1>1, <1>5
<1>7. h[1..(Len(s) + 1)] = FoldBy(kind, h[1..Len(s)], u[Len(s) + 1])
  BY <1>1, FoldTableSteps DEF h
<1>8. Folded(kind, start, << >>) = start
  <2>0. << >> \in Seq(V)
    OBVIOUS
  <2>1. PICK e \in Seq(V) : e = << >>
    BY <2>0
  <2>2. DOMAIN e = {}
    BY <2>1
  <2>3. FoldTable(kind, start, e)[{}] = start
    BY FoldTableSteps
  <2> QED
    BY <2>1, <2>2, <2>3 DEF Folded
<1>9. Folded(kind, start, u) = FoldBy(kind, Folded(kind, start, s), x)
  BY <1>1, <1>6, <1>7 DEF Folded, g, h
<1> QED
  BY <1>8, <1>9 DEF u

-----------------------------------------------------------------------------
(***************************************************************************)
(* Tokens and the text they decode to.                                     *)
(***************************************************************************)
LEMMA TokenType ==
  ASSUME NEW t \in Tokens
  PROVE  t \in Seq(Characters)
  BY TokensAssumption

\* What is joined so far does not depend on what comes later.
LEMMA JoinedPrefix ==
  ASSUME NEW a \in Seq(Tokens), NEW t \in Tokens, NEW k \in 1..Len(a)
  PROVE  JoinedUpTo(Append(a, t))[k] = JoinedUpTo(a)[k]
<1> DEFINE u == Append(a, t)
           g == JoinedUpTo(a)
           h == JoinedUpTo(u)
           T == {n \in Nat : n + 1 <= Len(a) => h[n + 1] = g[n + 1]}
<1>1. /\ u \in Seq(Tokens) /\ Len(u) = Len(a) + 1 /\ Len(a) \in Nat
      /\ \A i \in 1..Len(a) : u[i] = a[i]
      /\ u # << >>
  OBVIOUS
<1> HIDE DEF u, g, h
<1>2. 0 \in T
  <2>1. ASSUME 0 + 1 <= Len(a) PROVE h[0 + 1] = g[0 + 1]
    <3>1. a # << >> /\ 1 \in 1..Len(a)
      BY <1>1, <2>1
    <3>2. h[1] = u[1] /\ g[1] = a[1]
      BY <1>1, <3>1, JoinedSteps DEF g, h
    <3> QED
      BY <1>1, <3>1, <3>2
  <2> QED
    BY <2>1
<1>3. ASSUME NEW n \in Nat, n \in T PROVE n + 1 \in T
  <2>1. ASSUME (n + 1) + 1 <= Len(a) PROVE h[(n + 1) + 1] = g[(n + 1) + 1]
    <3>1. PICK m \in Nat \ {0} : m = n + 1
      OBVIOUS
    <3>2. m + 1 \in 1..Len(a) /\ m + 1 \in 1..Len(u) /\ n + 1 <= Len(a)
      BY <1>1, <2>1, <3>1
    <3>3. h[m] = g[m]
      BY <1>3, <3>1, <3>2
    <3>4. h[m + 1] = h[m] \o u[m + 1]
      BY <1>1, <3>2, JoinedSteps DEF h
    <3>5. g[m + 1] = g[m] \o a[m + 1]
      BY <3>2, JoinedSteps DEF g
    <3> QED
      BY <1>1, <3>1, <3>2, <3>3, <3>4, <3>5
  <2>2. n + 1 \in Nat
    OBVIOUS
  <2> QED
    BY <2>1, <2>2
<1>4. PICK n \in Nat : k = n + 1
  <2>1. k - 1 \in Nat /\ k = (k - 1) + 1
    BY <1>1
  <2> QED
    BY <2>1
<1>5. n \in T
  <2> HIDE DEF T
  <2> QED
    BY <1>2, <1>3, Induction
<1>6. h[k] = g[k]
  BY <1>4, <1>5
<1> QED
  BY <1>6 DEF g, h, u

LEMMA DecodeAppend ==
  ASSUME NEW a \in Seq(Tokens), NEW t \in Tokens, Decode(a) \in Seq(Characters)
  PROVE  Decode(Append(a, t)) = Decode(a) \o t
<1> DEFINE u == Append(a, t)
<1>1. /\ u \in Seq(Tokens) /\ u # << >> /\ Len(u) = Len(a) + 1 /\ u[Len(a) + 1] = t
      /\ Len(a) \in Nat
  OBVIOUS
<1> HIDE DEF u
<1>2. Decode(u) = JoinedUpTo(u)[Len(a) + 1]
  BY <1>1, ConcatIsJoined DEF Decode, Concat
<1>3. CASE a = << >>
  <2>1. Decode(a) = << >>
    BY <1>3 DEF Decode, FlattenSeq
  <2>2. JoinedUpTo(u)[1] = u[1]
    BY <1>1, JoinedSteps
  <2>3. Len(a) + 1 = 1
    BY <1>3
  <2>4. t \in Seq(Characters)
    BY TokenType
  <2>5. << >> \o t = t
    BY <2>4
  <2> QED
    BY <1>1, <1>2, <2>1, <2>2, <2>3, <2>5 DEF u
<1>4. CASE a # << >>
  <2>1. Len(a) \in Nat \ {0} /\ Len(a) \in 1..Len(a) /\ Len(a) + 1 \in 1..Len(u)
    BY <1>1, <1>4
  <2>2. JoinedUpTo(u)[Len(a) + 1] = JoinedUpTo(u)[Len(a)] \o u[Len(a) + 1]
    BY <1>1, <2>1, JoinedSteps
  <2>3. JoinedUpTo(u)[Len(a)] = JoinedUpTo(a)[Len(a)]
    BY <2>1, JoinedPrefix DEF u
  <2>4. Decode(a) = JoinedUpTo(a)[Len(a)]
    BY <1>4, ConcatIsJoined DEF Decode, Concat
  <2> QED
    BY <1>1, <1>2, <2>2, <2>3, <2>4 DEF u
<1> QED
  BY <1>3, <1>4

LEMMA DecodeEmpty == Decode(<< >>) = << >>
  BY DEF Decode, FlattenSeq

LEMMA JoinAssociative ==
  \A S : \A x, y, z \in Seq(S) : (x \o y) \o z = x \o (y \o z) /\ y \o z \in Seq(S)
<1> SUFFICES ASSUME NEW S, NEW x \in Seq(S), NEW y \in Seq(S), NEW z \in Seq(S)
             PROVE  (x \o y) \o z = x \o (y \o z) /\ y \o z \in Seq(S)
  OBVIOUS
<1> QED
  BY ConcatAssociative

\* Tokens decode one after the other.
LEMMA DecodeJoin ==
  ASSUME NEW a \in Seq(Tokens), Decode(a) \in Seq(Characters), NEW b \in Seq(Tokens)
  PROVE  Decode(b) \in Seq(Characters) /\ Decode(a \o b) = Decode(a) \o Decode(b)
<1> DEFINE Joins_(c) == Decode(c) \in Seq(Characters) /\ Decode(a \o c) = Decode(a) \o Decode(c)
           T == {n \in Nat : \A c \in Seq(Tokens) : Len(c) = n => Joins_(c)}
<1>1. 0 \in T
  <2>1. ASSUME NEW c \in Seq(Tokens), Len(c) = 0 PROVE Joins_(c)
    <3>1. c = << >> /\ a \o c = a
      BY <2>1
    <3>2. Decode(c) = << >>
      BY <3>1, DecodeEmpty
    <3>3. Decode(a) \o << >> = Decode(a) /\ << >> \in Seq(Characters)
      OBVIOUS
    <3> QED
      BY <3>1, <3>2, <3>3
  <2> HIDE DEF Joins_
  <2> QED
    BY <2>1
<1>2. ASSUME NEW n \in Nat, n \in T PROVE n + 1 \in T
  <2>1. ASSUME NEW c \in Seq(Tokens), Len(c) = n + 1 PROVE Joins_(c)
    <3>1. PICK d \in Seq(Tokens), t \in Tokens : c = Append(d, t) /\ Len(d) = n
      <4>1. SubSeq(c, 1, n) \in Seq(Tokens) /\ c[n + 1] \in Tokens
            /\ c = Append(SubSeq(c, 1, n), c[n + 1]) /\ Len(SubSeq(c, 1, n)) = n
        BY <2>1
      <4> QED
        BY <4>1
    <3>2. Joins_(d)
      BY <1>2, <3>1
    <3>3. Decode(c) = Decode(d) \o t
      BY <3>1, <3>2, DecodeAppend
    <3>4. t \in Seq(Characters)
      BY TokenType
    <3>5. a \o c = Append(a \o d, t) /\ a \o d \in Seq(Tokens)
      BY <3>1
    <3>6. Decode(a \o d) \in Seq(Characters)
      BY <3>2
    <3>7. Decode(a \o c) = Decode(a \o d) \o t
      BY <3>5, <3>6, DecodeAppend
    <3>8. \A x, y, z \in Seq(Characters) :
            (x \o y) \o z = x \o (y \o z) /\ y \o z \in Seq(Characters)
      BY JoinAssociative
    <3>9. Decode(d) \in Seq(Characters)
      BY <3>2
    <3>10. (Decode(a) \o Decode(d)) \o t = Decode(a) \o (Decode(d) \o t)
          /\ Decode(d) \o t \in Seq(Characters)
      BY <3>4, <3>8, <3>9, Zenon
    <3> QED
      BY <3>2, <3>3, <3>7, <3>10
  <2>2. n + 1 \in Nat
    OBVIOUS
  <2> HIDE DEF Joins_
  <2> QED
    BY <2>1, <2>2
<1>3. Len(b) \in T
  <2>1. Len(b) \in Nat
    OBVIOUS
  <2> HIDE DEF T
  <2> QED
    BY <1>1, <1>2, <2>1, Induction
<1>4. Joins_(b)
  BY <1>3
<1> QED
  BY <1>4

LEMMA DecodeType ==
  ASSUME NEW a \in Seq(Tokens)
  PROVE  Decode(a) \in Seq(Characters)
<1>1. << >> \in Seq(Tokens) /\ << >> \in Seq(Characters)
  OBVIOUS
<1> QED
  BY <1>1, DecodeEmpty, DecodeJoin

\* What a controller appends to its text is what it has not absorbed.
LEMMA DecodeRest ==
  ASSUME NEW a \in Seq(Tokens), NEW k \in 0..Len(a)
  PROVE  /\ SubSeq(a, 1, k) \in Seq(Tokens) /\ SubSeq(a, k + 1, Len(a)) \in Seq(Tokens)
         /\ a = SubSeq(a, 1, k) \o SubSeq(a, k + 1, Len(a))
         /\ Decode(a) = Decode(SubSeq(a, 1, k)) \o Decode(SubSeq(a, k + 1, Len(a)))
<1>1. /\ SubSeq(a, 1, k) \in Seq(Tokens) /\ SubSeq(a, k + 1, Len(a)) \in Seq(Tokens)
      /\ a = SubSeq(a, 1, k) \o SubSeq(a, k + 1, Len(a))
  <2> DEFINE p == SubSeq(a, 1, k)
             q == SubSeq(a, k + 1, Len(a))
  <2>1. /\ p \in Seq(Tokens) /\ Len(p) = k /\ \A i \in 1..k : p[i] = a[i]
        /\ q \in Seq(Tokens) /\ Len(q) = Len(a) - k
        /\ \A i \in 1..(Len(a) - k) : q[i] = a[k + i]
    OBVIOUS
  <2> HIDE DEF p, q
  <2>2. Len(p \o q) = Len(a) /\ p \o q \in Seq(Tokens)
    BY <2>1
  <2>3. ASSUME NEW i \in 1..Len(a) PROVE (p \o q)[i] = a[i]
    <3>1. CASE i <= k
      BY <2>1, <3>1
    <3>2. CASE i > k
      <4>1. i - k \in 1..(Len(a) - k) /\ k + (i - k) = i
        BY <3>2
      <4>2. (p \o q)[i] = q[i - k]
        BY <2>1, <3>2
      <4> QED
        BY <2>1, <4>1, <4>2
    <3>3. i <= k \/ i > k
      OBVIOUS
    <3> QED
      BY <3>1, <3>2, <3>3
  <2>4. a = p \o q
    <3>1. PICK w \in Seq(Tokens) : w = p \o q /\ Len(w) = Len(a)
      BY <2>2
    <3>4. w = [i \in 1..Len(w) |-> w[i]]
      OBVIOUS
    <3>2. w = [i \in 1..Len(a) |-> w[i]] /\ a = [i \in 1..Len(a) |-> a[i]]
      BY <3>1, <3>4
    <3>3. \A i \in 1..Len(a) : w[i] = a[i]
      BY <2>3, <3>1
    <3> QED
      BY <3>1, <3>2, <3>3
  <2> QED
    BY <2>1, <2>4 DEF p, q
<1>2. \A b, c \in Seq(Tokens) : Decode(b \o c) = Decode(b) \o Decode(c)
  BY DecodeType, DecodeJoin
<1> QED
  BY <1>1, <1>2

-----------------------------------------------------------------------------
(***************************************************************************)
(* _md_preprocess. What is cut out of a text is found once, from left to   *)
(* right; a text without code and tags is left as it is.                   *)
(***************************************************************************)
ClosingAt(t, close, barrier, least, p) ==
  {n \in p + 1 + least..Len(t) :
     t[n] = close /\ \A i \in p + 1..n - 1 : t[i] \notin barrier \cup {close}}
ElideFrom(t, open, close, barrier, least, patch, g, p) ==
  IF p > Len(t) THEN <<>>
  ELSE IF t[p] = open /\ ClosingAt(t, close, barrier, least, p) # {}
  THEN patch \o g[(CHOOSE n \in ClosingAt(t, close, barrier, least, p) : TRUE) + 1]
  ELSE <<t[p]>> \o g[p + 1]
Elides(t, open, close, barrier, least, patch, low, g) ==
  g = [p \in low..Len(t) + 1 |-> ElideFrom(t, open, close, barrier, least, patch, g, p)]
Elided(t, open, close, barrier, least, patch) ==
  CHOOSE g : Elides(t, open, close, barrier, least, patch, 1, g)

LEMMA ElideIs ==
  ASSUME NEW t, NEW open, NEW close, NEW barrier, NEW least, NEW patch
  PROVE  Elide(t, open, close, barrier, least, patch)
           = Elided(t, open, close, barrier, least, patch)[1]
  BY DEF Elide, Elided, Elides, ElideFrom, ClosingAt

ElidesTyped(t, open, close, barrier, least, patch, low, g) ==
  /\ Elides(t, open, close, barrier, least, patch, low, g)
  /\ \A p \in low..Len(t) + 1 : g[p] \in Seq(Characters)

LEMMA ElidedExists ==
  ASSUME NEW t \in Seq(Characters), NEW open, NEW close, NEW barrier, NEW least \in Nat,
         NEW patch \in Seq(Characters)
  PROVE  \E g : ElidesTyped(t, open, close, barrier, least, patch, 1, g)
<1> DEFINE len == Len(t)
           Step(g, p) == ElideFrom(t, open, close, barrier, least, patch, g, p)
           Good(low, g) == ElidesTyped(t, open, close, barrier, least, patch, low, g)
           T == {k \in Nat : k <= len => \E g : Good(len + 1 - k, g)}
           end(p) == CHOOSE n \in ClosingAt(t, close, barrier, least, p) : TRUE
<1>1. len \in Nat /\ \A i \in 1..len : t[i] \in Characters
  OBVIOUS
<1>2. 0 \in T
  <2> DEFINE h == [p \in (len + 1)..(len + 1) |-> << >>]
  <2>1. \A p \in (len + 1)..(len + 1) : p > len
    BY <1>1
  <2>2. \A p \in (len + 1)..(len + 1) : Step(h, p) = << >>
    BY <2>1 DEF ElideFrom
  <2>3. << >> \in Seq(Characters)
    OBVIOUS
  <2>4. h = [p \in (len + 1)..(len + 1) |-> Step(h, p)]
    BY <2>2
  <2>5. \A p \in (len + 1)..(len + 1) : h[p] \in Seq(Characters)
    BY <2>3
  <2>6. len + 1 - 0 = len + 1
    BY <1>1
  <2> HIDE DEF h, len
  <2>7. Good(len + 1, h)
    BY <2>4, <2>5 DEF ElidesTyped, Elides, len
  <2> HIDE DEF Good
  <2> QED
    BY <2>6, <2>7
<1>3. ASSUME NEW k \in Nat, k \in T PROVE k + 1 \in T
  <2>1. ASSUME k + 1 <= len PROVE \E g : Good(len + 1 - (k + 1), g)
    <3>1. PICK q \in 1..len : q = len - k /\ q + 1 = len + 1 - k /\ q = len + 1 - (k + 1)
      <4>1. len - k \in 1..len /\ (len - k) + 1 = len + 1 - k /\ len - k = len + 1 - (k + 1)
        BY <1>1, <2>1
      <4> QED
        BY <4>1
    <3>2. PICK g : Good(q + 1, g)
      BY <1>1, <1>3, <2>1, <3>1
    <3> DEFINE h == [p \in q..(len + 1) |-> IF p = q THEN Step(g, q) ELSE g[p]]
    <3>3. \A p \in (q + 1)..(len + 1) : h[p] = g[p] /\ p \in q..(len + 1)
      BY <1>1
    <3>4. \A p \in q..len : ClosingAt(t, close, barrier, least, p) # {} =>
                               end(p) + 1 \in (q + 1)..(len + 1)
      <4> SUFFICES ASSUME NEW p \in q..len, ClosingAt(t, close, barrier, least, p) # {}
                   PROVE  end(p) + 1 \in (q + 1)..(len + 1)
        OBVIOUS
      <4>1. end(p) \in ClosingAt(t, close, barrier, least, p)
        OBVIOUS
      <4>2. end(p) \in (p + 1 + least)..len
        BY <4>1 DEF ClosingAt
      <4> HIDE DEF end
      <4> QED
        BY <1>1, <4>2
    <3>5. \A p \in q..(len + 1) : Step(h, p) = Step(g, p)
      <4> SUFFICES ASSUME NEW p \in q..(len + 1) PROVE Step(h, p) = Step(g, p)
        OBVIOUS
      <4>1. CASE p > len
        BY <4>1 DEF ElideFrom
      <4>2. CASE p <= len
        <5>1. p \in q..len /\ p + 1 \in (q + 1)..(len + 1)
          BY <1>1, <4>2
        <5>2. h[p + 1] = g[p + 1]
          BY <3>3, <5>1
        <5>3. ClosingAt(t, close, barrier, least, p) # {} => h[end(p) + 1] = g[end(p) + 1]
          BY <3>3, <3>4, <5>1
        <5> HIDE DEF h
        <5> QED
          BY <5>2, <5>3 DEF ElideFrom
      <4> QED
        BY <1>1, <4>1, <4>2
    <3>6. \A p \in (q + 1)..(len + 1) : g[p] = Step(g, p) /\ g[p] \in Seq(Characters)
      <4>1. g = [p \in (q + 1)..(len + 1) |-> Step(g, p)]
        BY <3>2 DEF ElidesTyped, Elides
      <4>2. \A p \in (q + 1)..(len + 1) : g[p] \in Seq(Characters)
        BY <3>2 DEF ElidesTyped
      <4> HIDE DEF Step, len
      <4> QED
        BY <4>1, <4>2, Zenon
    <3>7. Step(g, q) \in Seq(Characters)
      <4>1. q \in q..len /\ q + 1 \in (q + 1)..(len + 1) /\ ~(q > len)
        BY <1>1
      <4>2. g[q + 1] \in Seq(Characters)
        BY <3>6, <4>1
      <4>3. ClosingAt(t, close, barrier, least, q) # {} => g[end(q) + 1] \in Seq(Characters)
        BY <3>4, <3>6, <4>1
      <4>4. t[q] \in Characters
        BY <1>1
      <4>5. <<t[q]>> \o g[q + 1] \in Seq(Characters)
        BY <4>2, <4>4
      <4>6. ClosingAt(t, close, barrier, least, q) # {} => patch \o g[end(q) + 1] \in Seq(Characters)
        BY <4>3
      <4> QED
        BY <4>1, <4>5, <4>6 DEF ElideFrom
    <3>8. \A p \in q..(len + 1) : p = q \/ p \in (q + 1)..(len + 1)
      BY <1>1
    <3>9. q \in q..(len + 1)
      BY <1>1
    <3>10. \A p \in q..(len + 1) : h[p] = Step(h, p) /\ h[p] \in Seq(Characters)
      <4> HIDE DEF Step
      <4>1. h[q] = Step(g, q)
        BY <3>9
      <4> HIDE DEF h
      <4> QED
        BY <3>3, <3>5, <3>6, <3>7, <3>8, <4>1
    <3>11. h = [p \in q..(len + 1) |-> h[p]]
      OBVIOUS
    <3> HIDE DEF h, len
    <3>12. h = [p \in q..(len + 1) |-> Step(h, p)]
      <4> HIDE DEF Step
      <4> QED
        BY <3>10, <3>11, Zenon
    <3>13. Good(q, h)
      BY <3>10, <3>12 DEF ElidesTyped, Elides, len
    <3> HIDE DEF Good
    <3> QED
      BY <3>1, <3>13
  <2>2. k + 1 \in Nat
    OBVIOUS
  <2> HIDE DEF Good, len
  <2> QED
    BY <2>1, <2>2
<1>4. len \in T
  <2> HIDE DEF T, len
  <2> QED
    BY <1>1, <1>2, <1>3, Induction
<1>5. len + 1 - len = 1 /\ len <= len
  BY <1>1
<1> HIDE DEF len
<1>6. \E g : Good(1, g)
  BY <1>4, <1>5
<1> QED
  BY <1>6

LEMMA ElidesUnique ==
  ASSUME NEW t \in Seq(Characters), NEW open, NEW close, NEW barrier, NEW least \in Nat,
         NEW patch, NEW g, NEW h,
         Elides(t, open, close, barrier, least, patch, 1, g),
         Elides(t, open, close, barrier, least, patch, 1, h)
  PROVE  g[1] = h[1]
<1> DEFINE len == Len(t)
           Step(f, p) == ElideFrom(t, open, close, barrier, least, patch, f, p)
           Same(low) == \A p \in low..(len + 1) : g[p] = h[p]
           T == {k \in Nat : k <= len => Same(len + 1 - k)}
           end(p) == CHOOSE n \in ClosingAt(t, close, barrier, least, p) : TRUE
<1>1. len \in Nat
  OBVIOUS
<1>2. \A p \in 1..(len + 1) : g[p] = Step(g, p) /\ h[p] = Step(h, p)
  <2>1. g = [p \in 1..(len + 1) |-> Step(g, p)] /\ h = [p \in 1..(len + 1) |-> Step(h, p)]
    BY DEF Elides
  <2> HIDE DEF Step, len
  <2> QED
    BY <2>1, Zenon
<1>3. 0 \in T
  <2>1. len + 1 - 0 = len + 1 /\ len + 1 \in 1..(len + 1) /\ len + 1 > len
        /\ \A p \in (len + 1)..(len + 1) : p = len + 1
    BY <1>1
  <2>2. Step(g, len + 1) = << >> /\ Step(h, len + 1) = << >>
    BY <2>1 DEF ElideFrom
  <2> HIDE DEF Step, len
  <2>3. Same(len + 1)
    BY <1>2, <2>1, <2>2
  <2> QED
    BY <2>1, <2>3
<1>4. ASSUME NEW k \in Nat, k \in T PROVE k + 1 \in T
  <2>1. ASSUME k + 1 <= len PROVE Same(len + 1 - (k + 1))
    <3>1. PICK q \in 1..len : q + 1 = len + 1 - k /\ q = len + 1 - (k + 1)
      <4>1. len - k \in 1..len /\ (len - k) + 1 = len + 1 - k /\ len - k = len + 1 - (k + 1)
        BY <1>1, <2>1
      <4> QED
        BY <4>1
    <3>2. Same(q + 1)
      BY <1>1, <1>4, <2>1, <3>1
    <3>3. g[q + 1] = h[q + 1]
      BY <1>1, <3>2
    <3>4. ClosingAt(t, close, barrier, least, q) # {} => g[end(q) + 1] = h[end(q) + 1]
      <4> SUFFICES ASSUME ClosingAt(t, close, barrier, least, q) # {}
                   PROVE  g[end(q) + 1] = h[end(q) + 1]
        OBVIOUS
      <4>1. end(q) \in ClosingAt(t, close, barrier, least, q)
        OBVIOUS
      <4>2. end(q) \in (q + 1 + least)..len
        BY <4>1 DEF ClosingAt
      <4>3. end(q) + 1 \in (q + 1)..(len + 1)
        <5> HIDE DEF end
        <5> QED
          BY <1>1, <4>2
      <4> QED
        BY <3>2, <4>3
    <3>5. Step(g, q) = Step(h, q)
      BY <3>3, <3>4 DEF ElideFrom
    <3>6. q \in 1..(len + 1) /\ \A p \in q..(len + 1) : p = q \/ p \in (q + 1)..(len + 1)
      BY <1>1
    <3>7. Same(q)
      <4> HIDE DEF Step, len
      <4> QED
        BY <1>2, <3>2, <3>5, <3>6
    <3> QED
      BY <3>1, <3>7
  <2>2. k + 1 \in Nat
    OBVIOUS
  <2> HIDE DEF Same, len
  <2> QED
    BY <2>1, <2>2
<1>5. len \in T
  <2> HIDE DEF T, len
  <2> QED
    BY <1>1, <1>3, <1>4, Induction
<1>6. len + 1 - len = 1 /\ 1 \in 1..(len + 1) /\ len <= len
  BY <1>1
<1>7. Same(1)
  <2> HIDE DEF Same, len
  <2> QED
    BY <1>5, <1>6
<1> QED
  BY <1>6, <1>7

LEMMA ElideGives ==
  ASSUME NEW t \in Seq(Characters), NEW open, NEW close, NEW barrier, NEW least \in Nat,
         NEW patch, NEW g, Elides(t, open, close, barrier, least, patch, 1, g)
  PROVE  Elide(t, open, close, barrier, least, patch) = g[1]
<1>1. Elides(t, open, close, barrier, least, patch, 1,
             Elided(t, open, close, barrier, least, patch))
  BY DEF Elided
<1> QED
  BY <1>1, ElideIs, ElidesUnique

LEMMA ElideType ==
  ASSUME NEW t \in Seq(Characters), NEW open, NEW close, NEW barrier, NEW least \in Nat,
         NEW patch \in Seq(Characters)
  PROVE  Elide(t, open, close, barrier, least, patch) \in Seq(Characters)
<1>1. PICK g : ElidesTyped(t, open, close, barrier, least, patch, 1, g)
  BY ElidedExists
<1>2. Elide(t, open, close, barrier, least, patch) = g[1]
  BY <1>1, ElideGives DEF ElidesTyped
<1>3. 1 \in 1..Len(t) + 1
  OBVIOUS
<1> QED
  BY <1>1, <1>2, <1>3 DEF ElidesTyped

\* Nothing is cut out of a text in which nothing is opened.
LEMMA ElideNothing ==
  ASSUME NEW t \in Seq(Characters), NEW open, NEW close, NEW barrier, NEW least \in Nat,
         NEW patch, \A i \in 1..Len(t) : t[i] # open
  PROVE  Elide(t, open, close, barrier, least, patch) = t
<1> DEFINE len == Len(t)
           g == [p \in 1..len + 1 |-> SubSeq(t, p, len)]
           Step(p) == ElideFrom(t, open, close, barrier, least, patch, g, p)
<1>1. len \in Nat
  OBVIOUS
<1>2. ASSUME NEW p \in 1..len + 1
      PROVE  g[p] = Step(p)
  <2>1. CASE p > len
    <3>1. SubSeq(t, p, len) = << >>
      BY <1>1, <2>1
    <3> QED
      BY <2>1, <3>1 DEF ElideFrom
  <2>2. CASE p <= len
    <3>1. p \in 1..len /\ p + 1 \in 1..len + 1
      BY <1>1, <2>2
    <3>2. g[p + 1] = SubSeq(t, p + 1, len)
      BY <3>1
    <3>3. <<t[p]>> \o SubSeq(t, p + 1, len) = SubSeq(t, p, len)
      <4> DEFINE u == <<t[p]>> \o SubSeq(t, p + 1, len)
                 v == SubSeq(t, p, len)
      <4>1. SubSeq(t, p + 1, len) \in Seq(Characters) /\ Len(SubSeq(t, p + 1, len)) = len - p
            /\ \A i \in 1..len - p : SubSeq(t, p + 1, len)[i] = t[p + i]
        BY <1>1, <3>1
      <4>2. u \in Seq(Characters) /\ Len(u) = len - p + 1 /\ u[1] = t[p]
            /\ \A i \in 1..len - p : u[i + 1] = t[p + i]
        BY <1>1, <3>1, <4>1
      <4>3. v \in Seq(Characters) /\ Len(v) = len - p + 1
            /\ \A i \in 1..len - p + 1 : v[i] = t[p + i - 1]
        BY <1>1, <3>1
      <4> HIDE DEF u, v
      <4>4. ASSUME NEW i \in 1..len - p + 1 PROVE u[i] = v[i]
        <5>1. CASE i = 1
          BY <1>1, <3>1, <4>2, <4>3, <5>1
        <5>2. CASE i # 1
          <6>1. i - 1 \in 1..len - p /\ (i - 1) + 1 = i /\ p + (i - 1) = p + i - 1
            BY <1>1, <3>1, <5>2
          <6> QED
            BY <4>2, <4>3, <6>1
        <5> QED
          BY <5>1, <5>2
      <4>5. u = [i \in 1..Len(u) |-> u[i]] /\ v = [i \in 1..Len(v) |-> v[i]]
        BY <4>2, <4>3
      <4>6. u = v
        BY <4>2, <4>3, <4>4, <4>5
      <4> QED
        BY <4>6 DEF u, v
    <3>4. t[p] # open
      BY <3>1
    <3>5. ~(p > len)
      BY <1>1, <3>1
    <3>6. Step(p) = <<t[p]>> \o g[p + 1]
      <4> HIDE DEF g
      <4> QED
        BY <3>4, <3>5 DEF ElideFrom
    <3> QED
      BY <3>2, <3>3, <3>6
  <2> QED
    BY <1>1, <2>1, <2>2
<1>3. g = [p \in 1..len + 1 |-> g[p]] /\ g[1] = t
  <2>1. 1 \in 1..len + 1 /\ SubSeq(t, 1, len) = t
    BY <1>1
  <2> QED
    BY <2>1
<1> HIDE DEF g
<1>4. g = [p \in 1..len + 1 |-> Step(p)]
  <2> HIDE DEF Step, len
  <2> QED
    BY <1>2, <1>3, Zenon
<1>5. Elides(t, open, close, barrier, least, patch, 1, g)
  BY <1>4 DEF Elides
<1> QED
  BY <1>3, <1>5, ElideGives

LEMMA PreprocessType ==
  ASSUME NEW t \in Seq(Characters)
  PROVE  Preprocess(t) \in Seq(Characters)
<1>1. <<"nl">> \in Seq(Characters) /\ << >> \in Seq(Characters)
  <2>1. \A x \in Characters : <<x>> \in Seq(Characters)
    OBVIOUS
  <2>2. "nl" \in Characters
    BY DEF Characters, Marks
  <2>3. << >> \in Seq(Characters)
    OBVIOUS
  <2> QED
    BY <2>1, <2>2, <2>3
<1>2. Elide(t, "fence", "fence", {}, 0, <<"nl">>) \in Seq(Characters)
  BY <1>1, ElideType
<1>3. \A u \in Seq(Characters) : Elide(u, "tick", "tick", {"nl"}, 1, << >>) \in Seq(Characters)
                             /\ Elide(u, "<", ">", {"nl"}, 1, << >>) \in Seq(Characters)
  BY <1>1, ElideType
<1> QED
  BY <1>2, <1>3 DEF Preprocess

\* A text without code and tags.
PlainText(t) == t \in Seq(Characters) /\ \A i \in 1..Len(t) : t[i] \notin {"fence", "tick", "<"}

LEMMA PreprocessPlain ==
  ASSUME NEW t, PlainText(t)
  PROVE  Preprocess(t) = t
<1>1. \A i \in 1..Len(t) : t[i] # "fence" /\ t[i] # "tick" /\ t[i] # "<"
  BY DEF PlainText
<1>2. t \in Seq(Characters)
  BY DEF PlainText
<1>3. Elide(t, "fence", "fence", {}, 0, <<"nl">>) = t
  BY <1>1, <1>2, ElideNothing
<1>4. Elide(t, "tick", "tick", {"nl"}, 1, << >>) = t
  BY <1>1, <1>2, ElideNothing
<1>5. Elide(t, "<", ">", {"nl"}, 1, << >>) = t
  BY <1>1, <1>2, ElideNothing
<1> QED
  BY <1>3, <1>4, <1>5 DEF Preprocess

-----------------------------------------------------------------------------
(***************************************************************************)
(* The letters of a text, collected place by place.                        *)
(***************************************************************************)
LettersStep(t, found, g, n) ==
  IF n = 0 THEN <<>> ELSE IF n \in found THEN Append(g[n - 1], t[n]) ELSE g[n - 1]
LettersOver(t, found, m, g) == g = [n \in 0..m |-> LettersStep(t, found, g, n)]
LettersUpTo(t, found) == CHOOSE g : LettersOver(t, found, Len(t), g)

LEMMA FirstLettersAre ==
  ASSUME NEW text
  PROVE  FirstLetters(text) = LettersUpTo(Preprocess(text), LetterPlaces(Preprocess(text)))
                                [Len(Preprocess(text))]
  BY DEF FirstLetters, LettersUpTo, LettersOver, LettersStep

LEMMA LettersExist ==
  ASSUME NEW t \in Seq(Characters), NEW found
  PROVE  LettersOver(t, found, Len(t), LettersUpTo(t, found))
<1> DEFINE T == {m \in Nat : \E g : LettersOver(t, found, m, g)}
<1>1. 0 \in T
  <2> DEFINE h == [n \in 0..0 |-> << >>]
  <2>1. \A n \in 0..0 : n = 0 /\ LettersStep(t, found, h, n) = << >>
    BY DEF LettersStep
  <2>2. LettersOver(t, found, 0, h)
    BY <2>1 DEF LettersOver
  <2> HIDE DEF h
  <2> QED
    BY <2>2
<1>2. ASSUME NEW m \in Nat, m \in T PROVE m + 1 \in T
  <2>1. PICK g : LettersOver(t, found, m, g)
    BY <1>2
  <2> DEFINE h == [n \in 0..m + 1 |-> IF n <= m THEN g[n] ELSE LettersStep(t, found, g, n)]
  <2>2. \A n \in 0..m : h[n] = g[n]
    OBVIOUS
  <2>3. \A n \in 0..m + 1 : n # 0 => n - 1 \in 0..m
    OBVIOUS
  <2>4. \A n \in 0..m + 1 : LettersStep(t, found, h, n) = LettersStep(t, found, g, n)
    <3> HIDE DEF h
    <3> QED
      BY <2>2, <2>3 DEF LettersStep
  <2>5. \A n \in 0..m : g[n] = LettersStep(t, found, g, n)
    <3>1. g = [n \in 0..m |-> LettersStep(t, found, g, n)]
      BY <2>1 DEF LettersOver
    <3> QED
      BY <3>1, Zenon
  <2>6. \A n \in 0..m + 1 : h[n] = LettersStep(t, found, h, n)
    BY <2>4, <2>5
  <2>7. h = [n \in 0..m + 1 |-> h[n]]
    OBVIOUS
  <2> HIDE DEF h
  <2>8. LettersOver(t, found, m + 1, h)
    BY <2>6, <2>7, Zenon DEF LettersOver
  <2>9. m + 1 \in Nat
    OBVIOUS
  <2> QED
    BY <2>8, <2>9
<1>3. Len(t) \in T
  <2>1. Len(t) \in Nat
    OBVIOUS
  <2> HIDE DEF T
  <2> QED
    BY <1>1, <1>2, <2>1, Induction
<1> QED
  BY <1>3 DEF LettersUpTo

LEMMA LettersSteps ==
  ASSUME NEW t \in Seq(Characters), NEW found
  PROVE  /\ LettersUpTo(t, found)[0] = << >>
         /\ \A n \in 1..Len(t) : LettersUpTo(t, found)[n] =
              IF n \in found THEN Append(LettersUpTo(t, found)[n - 1], t[n])
              ELSE LettersUpTo(t, found)[n - 1]
<1> DEFINE g == LettersUpTo(t, found)
<1>1. g = [n \in 0..Len(t) |-> LettersStep(t, found, g, n)]
  <2>1. LettersOver(t, found, Len(t), g)
    BY LettersExist
  <2> HIDE DEF g
  <2> QED
    BY <2>1, Zenon DEF LettersOver
<1> HIDE DEF g
<1>2. \A n \in 0..Len(t) : g[n] = LettersStep(t, found, g, n)
  BY <1>1, Zenon
<1>3. 0 \in 0..Len(t) /\ \A n \in 1..Len(t) : n \in 0..Len(t) /\ n # 0
  OBVIOUS
<1>4. g[0] = << >> /\ \A n \in 1..Len(t) :
        g[n] = IF n \in found THEN Append(g[n - 1], t[n]) ELSE g[n - 1]
  BY <1>2, <1>3 DEF LettersStep
<1> QED
  BY <1>4 DEF g

\* The letters up to a place.
LEMMA LettersGrow ==
  ASSUME NEW t \in Seq(Characters), NEW found, NEW m \in 0..Len(t), NEW n \in m..Len(t)
  PROVE  /\ LettersUpTo(t, found)[m] \in Seq(Characters)
         /\ LettersUpTo(t, found)[n] \in Seq(Characters)
         /\ IsPrefix(LettersUpTo(t, found)[m], LettersUpTo(t, found)[n])
<1> DEFINE g == LettersUpTo(t, found)
           Typed(k) == k <= Len(t) => g[k] \in Seq(Characters)
           Grows(k) == m + k <= Len(t) => IsPrefix(g[m], g[m + k])
           T == {k \in Nat : Typed(k)}
           U == {k \in Nat : Grows(k)}
<1>1. Len(t) \in Nat /\ \A i \in 1..Len(t) : t[i] \in Characters
  OBVIOUS
<1>2. g[0] = << >> /\ \A k \in 1..Len(t) :
        g[k] = IF k \in found THEN Append(g[k - 1], t[k]) ELSE g[k - 1]
  BY LettersSteps
<1> HIDE DEF g
<1>3. 0 \in T
  <2>1. << >> \in Seq(Characters)
    OBVIOUS
  <2> QED
    BY <1>2, <2>1
<1>4. ASSUME NEW k \in Nat, k \in T PROVE k + 1 \in T
  <2>1. ASSUME k + 1 <= Len(t) PROVE g[k + 1] \in Seq(Characters)
    <3>1. k + 1 \in 1..Len(t) /\ (k + 1) - 1 = k /\ k <= Len(t)
      BY <1>1, <2>1
    <3>2. g[k] \in Seq(Characters)
      BY <1>4, <3>1
    <3>3. g[k + 1] = IF k + 1 \in found THEN Append(g[k], t[k + 1]) ELSE g[k]
      BY <1>2, <3>1
    <3> QED
      BY <1>1, <3>1, <3>2, <3>3
  <2>2. k + 1 \in Nat
    OBVIOUS
  <2> QED
    BY <2>1, <2>2
<1>5. Nat \subseteq T
  <2> HIDE DEF T
  <2> QED
    BY <1>3, <1>4, Induction
<1>6. \A k \in 0..Len(t) : g[k] \in Seq(Characters)
  <2>1. \A k \in 0..Len(t) : k \in Nat /\ k <= Len(t)
    BY <1>1
  <2> QED
    BY <1>5, <2>1
<1>7. m \in Nat /\ m + 0 = m /\ m \in 0..Len(t)
  BY <1>1
<1>8. 0 \in U
  <2>1. IsPrefix(g[m], g[m])
    <3>1. Len(g[m]) \in Nat
      BY <1>6
    <3> QED
      BY <3>1 DEF IsPrefix
  <2> QED
    BY <1>7, <2>1
<1>9. ASSUME NEW k \in Nat, k \in U PROVE k + 1 \in U
  <2>1. ASSUME m + (k + 1) <= Len(t) PROVE IsPrefix(g[m], g[m + (k + 1)])
    <3>1. PICK j \in 1..Len(t) : j = m + (k + 1) /\ j - 1 = m + k
      <4>1. m + (k + 1) \in 1..Len(t) /\ (m + (k + 1)) - 1 = m + k
        BY <1>1, <1>7, <2>1
      <4> QED
        BY <4>1
    <3>2. m + k <= Len(t) /\ j - 1 \in 0..Len(t)
      BY <1>1, <1>7, <2>1, <3>1
    <3>3. IsPrefix(g[m], g[j - 1])
      BY <1>9, <3>1, <3>2
    <3>4. g[j] = IF j \in found THEN Append(g[j - 1], t[j]) ELSE g[j - 1]
      BY <1>2
    <3>5. g[m] \in Seq(Characters) /\ g[j - 1] \in Seq(Characters) /\ t[j] \in Characters
      BY <1>1, <1>6, <1>7, <3>2
    <3>6. IsPrefix(g[m], Append(g[j - 1], t[j]))
      <4>1. \A x, y \in Seq(Characters) : \A c \in Characters :
              Len(x) <= Len(y) => SubSeq(Append(y, c), 1, Len(x)) = SubSeq(y, 1, Len(x))
                                  /\ Len(x) <= Len(Append(y, c))
        OBVIOUS
      <4> QED
        BY <3>3, <3>5, <4>1 DEF IsPrefix
    <3> QED
      BY <3>1, <3>3, <3>4, <3>6
  <2>2. k + 1 \in Nat
    OBVIOUS
  <2> QED
    BY <2>1, <2>2
<1>10. Nat \subseteq U
  <2> HIDE DEF U
  <2> QED
    BY <1>8, <1>9, Induction
<1>11. n - m \in Nat /\ m + (n - m) = n /\ n <= Len(t) /\ n \in 0..Len(t)
  BY <1>1, <1>7
<1>12. IsPrefix(g[m], g[n])
  BY <1>10, <1>11
<1> QED
  BY <1>6, <1>7, <1>11, <1>12 DEF g

LEMMA FirstLettersType ==
  ASSUME NEW text \in Seq(Characters)
  PROVE  FirstLetters(text) \in Seq(Characters)
<1>1. PICK t \in Seq(Characters) : t = Preprocess(text)
  BY PreprocessType
<1>2. Len(t) \in 0..Len(t) /\ Len(t) \in Len(t)..Len(t)
  OBVIOUS
<1>3. LettersUpTo(t, LetterPlaces(t))[Len(t)] \in Seq(Characters)
  BY <1>2, LettersGrow
<1> QED
  BY <1>1, <1>3, FirstLettersAre

LEMMA FirstLettersEmpty == FirstLetters(<< >>) = << >>
<1>1. PICK e \in Seq(Characters) : e = << >>
  <2>1. << >> \in Seq(Characters)
    OBVIOUS
  <2> QED
    BY <2>1
<1>5. PlainText(e)
  <2>1. \A i \in 1..Len(e) : FALSE
    BY <1>1
  <2> QED
    BY <2>1 DEF PlainText
<1>2. Preprocess(e) = e
  BY <1>5, PreprocessPlain
<1>3. LettersUpTo(e, LetterPlaces(e))[0] = << >>
  BY LettersSteps
<1>4. Len(e) = 0
  BY <1>1
<1> QED
  BY <1>1, <1>2, <1>3, <1>4, FirstLettersAre

-----------------------------------------------------------------------------
(***************************************************************************)
(* Runs of marks. Two texts that agree up to a letter: a run that starts   *)
(* before the letter ends at or before it, at the same place in both.      *)
(***************************************************************************)
\* The first position from p on whose character is not in C.
Skips(s, p, C, n) ==
  /\ n \in p..Len(s) + 1
  /\ n <= Len(s) => s[n] \notin C
  /\ \A i \in p..n - 1 : s[i] \in C

LEMMA SkipRunIs ==
  ASSUME NEW s \in Seq(Characters), NEW p \in 1..Len(s) + 1, NEW C
  PROVE  /\ Skips(s, p, C, SkipRun(s, p, C))
         /\ \A n : Skips(s, p, C, n) => n = SkipRun(s, p, C)
<1> DEFINE T == {n \in Nat : n >= p /\ (n <= Len(s) => s[n] \notin C)}
<1>1. Len(s) \in Nat /\ p \in Nat
  OBVIOUS
<1>2. Len(s) + 1 \in T
  BY <1>1
<1>3. PICK n \in T : \A k \in T : n <= k
  <2>1. T \in SUBSET Nat /\ T # {}
    BY <1>2
  <2> HIDE DEF T
  <2> QED
    BY <2>1, LeastNumber
<1>4. Skips(s, p, C, n)
  <2>1. n \in p..Len(s) + 1
    BY <1>1, <1>2, <1>3
  <2>2. ASSUME NEW i \in p..n - 1 PROVE s[i] \in C
    <3>1. i \in Nat /\ i >= p /\ ~(n <= i)
      BY <1>1, <2>1
    <3>2. i \notin T
      BY <1>3, <3>1
    <3> QED
      BY <3>1, <3>2
  <2> QED
    BY <1>3, <2>1, <2>2 DEF Skips
<1>6. Skips(s, p, C, SkipRun(s, p, C))
  <2>1. \E x \in p..Len(s) + 1 :
          (x <= Len(s) => s[x] \notin C) /\ (\A i \in p..x - 1 : s[i] \in C)
    BY <1>4 DEF Skips
  <2> HIDE DEF T
  <2> QED
    BY <2>1, Zenon DEF SkipRun, Skips
<1>7. ASSUME NEW x, NEW y, Skips(s, p, C, x), Skips(s, p, C, y) PROVE x = y
  <2>1. x \in p..Len(s) + 1 /\ y \in p..Len(s) + 1
    BY <1>7 DEF Skips
  <2>2. ASSUME x < y PROVE FALSE
    <3>1. x \in p..y - 1 /\ x <= Len(s)
      BY <1>1, <2>1, <2>2
    <3> QED
      BY <1>7, <3>1 DEF Skips
  <2>3. ASSUME y < x PROVE FALSE
    <3>1. y \in p..x - 1 /\ y <= Len(s)
      BY <1>1, <2>1, <2>3
    <3> QED
      BY <1>7, <3>1 DEF Skips
  <2> QED
    BY <1>1, <2>1, <2>2, <2>3
<1> QED
  BY <1>6, <1>7

\* Two texts that agree up to a letter.
Agree(s, w, k) ==
  /\ s \in Seq(Characters) /\ w \in Seq(Characters)
  /\ k \in 1..Len(s) /\ k \in 1..Len(w)
  /\ \A i \in 1..k : s[i] = w[i]
  /\ s[k] \in Letters

LEMMA AgreeBack ==
  ASSUME NEW s, NEW w, NEW k, Agree(s, w, k)
  PROVE  Agree(w, s, k)
  BY DEF Agree

LEMMA LetterNoMark ==
  ASSUME NEW c \in Letters
  PROVE  c \notin Marks
  BY LettersAssumption

LEMMA SomeMarks ==
  /\ White \subseteq Marks /\ {" "} \subseteq Marks /\ {"#"} \subseteq Marks
  /\ {"q"} \subseteq Marks /\ {"*", ">"} \subseteq Marks /\ White \cup {"q", "*"} \subseteq Marks
  /\ {"nl"} \subseteq Marks /\ {"."} \subseteq Marks
  BY DEF Marks, White

\* A run of marks ends before the letter, in both.
LEMMA SkipAgree ==
  ASSUME NEW s, NEW w, NEW k, Agree(s, w, k), NEW p \in 1..k, NEW C, C \subseteq Marks
  PROVE  SkipRun(s, p, C) \in p..k /\ SkipRun(w, p, C) = SkipRun(s, p, C)
<1>1. /\ s \in Seq(Characters) /\ w \in Seq(Characters)
      /\ k \in 1..Len(s) /\ k \in 1..Len(w) /\ k \in Nat
      /\ \A i \in 1..k : s[i] = w[i]
      /\ s[k] \notin C /\ p \in Nat
  BY LetterNoMark DEF Agree
<1>2. PICK n : n = SkipRun(s, p, C)
  OBVIOUS
<1>3. p \in 1..Len(s) + 1 /\ p \in 1..Len(w) + 1
  BY <1>1
<1>4. Skips(s, p, C, n)
  BY <1>1, <1>2, <1>3, SkipRunIs
<1>5. n \in p..Len(s) + 1 /\ (n <= Len(s) => s[n] \notin C) /\ \A i \in p..n - 1 : s[i] \in C
  BY <1>4 DEF Skips
<1>6. n <= k
  <2>1. ASSUME ~(n <= k) PROVE FALSE
    <3>1. k \in p..n - 1
      BY <1>1, <1>5, <2>1
    <3> QED
      BY <1>1, <1>5, <3>1
  <2> QED
    BY <2>1
<1>7. n \in 1..k /\ n <= Len(s) /\ n \in p..k /\ n \in p..Len(w) + 1
      /\ \A i \in p..n - 1 : i \in 1..k
  BY <1>1, <1>5, <1>6
<1>8. Skips(w, p, C, n)
  BY <1>1, <1>5, <1>7 DEF Skips
<1> QED
  BY <1>1, <1>2, <1>3, <1>7, <1>8, SkipRunIs

LEMMA SkipWithin ==
  ASSUME NEW s \in Seq(Characters), NEW p \in 1..Len(s) + 1, NEW C
  PROVE  SkipRun(s, p, C) \in p..Len(s) + 1
  BY SkipRunIs DEF Skips

LEMMA Nested ==
  ASSUME NEW n \in Nat, NEW p \in 1..n, NEW i \in p..n, NEW j \in i..n, NEW e \in j..n
  PROVE  e \in p..n /\ p \in p..n /\ j \in 1..n /\ i \in 1..n /\ e \in 1..n
  OBVIOUS

MarkerFrom(s, i) ==
  IF i > Len(s) THEN i
  ELSE IF s[i] = "#" THEN SkipRun(s, i, {"#"})
  ELSE IF s[i] \in {"*", ">"} THEN i + 1 ELSE i

LEMMA MarkerIs ==
  ASSUME NEW s, NEW p
  PROVE  MarkerUnit(s, p) =
           LET i == SkipRun(s, p, {" "})
               k == SkipRun(s, MarkerFrom(s, i), White)
           IN  IF MarkerFrom(s, i) > i /\ k > MarkerFrom(s, i) THEN k ELSE p
  BY DEF MarkerUnit, MarkerFrom

LEMMA MarkerWithin ==
  ASSUME NEW s \in Seq(Characters), NEW p \in 1..Len(s) + 1
  PROVE  MarkerUnit(s, p) \in p..Len(s) + 1
<1>1. Len(s) \in Nat /\ p \in Nat
  OBVIOUS
<1>2. PICK i \in p..Len(s) + 1 : i = SkipRun(s, p, {" "})
  BY SkipWithin
<1>3. i \in 1..Len(s) + 1
  BY <1>1
<1>4. MarkerFrom(s, i) \in i..Len(s) + 1
  <2>1. SkipRun(s, i, {"#"}) \in i..Len(s) + 1
    BY <1>3, SkipWithin
  <2>2. ~(i > Len(s)) => i + 1 \in i..Len(s) + 1
    BY <1>1, <1>3
  <2>3. i \in i..Len(s) + 1
    BY <1>1, <1>3
  <2> QED
    BY <2>1, <2>2, <2>3 DEF MarkerFrom
<1>5. PICK j \in i..Len(s) + 1 : j = MarkerFrom(s, i)
  BY <1>4
<1>6. j \in 1..Len(s) + 1
  BY <1>1, <1>3
<1>7. PICK k \in j..Len(s) + 1 : k = SkipRun(s, j, White)
  BY <1>6, SkipWithin
<1>8. MarkerUnit(s, p) = IF j > i /\ k > j THEN k ELSE p
  BY <1>2, <1>5, <1>7, MarkerIs
<1>9. k \in p..Len(s) + 1 /\ p \in p..Len(s) + 1
  <2>1. Len(s) + 1 \in Nat
    BY <1>1
  <2> QED
    BY <2>1, Nested
<1> QED
  BY <1>8, <1>9

LEMMA MarkerAgree ==
  ASSUME NEW s, NEW w, NEW k, Agree(s, w, k), NEW p \in 1..k
  PROVE  MarkerUnit(s, p) \in p..k /\ MarkerUnit(w, p) = MarkerUnit(s, p)
<1>1. /\ s \in Seq(Characters) /\ w \in Seq(Characters)
      /\ k \in 1..Len(s) /\ k \in 1..Len(w) /\ k \in Nat
      /\ \A i \in 1..k : s[i] = w[i]
      /\ s[k] \notin Marks /\ p \in Nat
  BY LetterNoMark DEF Agree
<1>2. PICK i \in p..k : i = SkipRun(s, p, {" "}) /\ i = SkipRun(w, p, {" "})
  <2>1. SkipRun(s, p, {" "}) \in p..k /\ SkipRun(w, p, {" "}) = SkipRun(s, p, {" "})
    <3>1. \A C : C \subseteq Marks =>
            SkipRun(s, p, C) \in p..k /\ SkipRun(w, p, C) = SkipRun(s, p, C)
      BY SkipAgree
    <3> QED
      BY <3>1, SomeMarks, Zenon
  <2> QED
    BY <2>1
<1>3. i \in 1..k /\ s[i] = w[i] /\ ~(i > Len(s)) /\ ~(i > Len(w))
  BY <1>1
<1>4. MarkerFrom(s, i) \in i..k /\ MarkerFrom(w, i) = MarkerFrom(s, i)
  <2>1. SkipRun(s, i, {"#"}) \in i..k /\ SkipRun(w, i, {"#"}) = SkipRun(s, i, {"#"})
    <3>1. PICK C : C = {"#"} /\ C \subseteq Marks
      BY SomeMarks
    <3>2. SkipRun(s, i, C) \in i..k /\ SkipRun(w, i, C) = SkipRun(s, i, C)
      BY <1>3, <3>1, SkipAgree
    <3> QED
      BY <3>1, <3>2
  <2>2. s[i] \in {"*", ">"} => i # k
    BY <1>1, SomeMarks
  <2>3. s[i] \in {"*", ">"} => i + 1 \in i..k
    BY <1>1, <1>3, <2>2
  <2>4. i \in i..k
    BY <1>1, <1>3
  <2> QED
    BY <1>3, <2>1, <2>3, <2>4 DEF MarkerFrom
<1>5. PICK j \in i..k : j = MarkerFrom(s, i) /\ j = MarkerFrom(w, i)
  BY <1>4
<1>6. j \in 1..k
  BY <1>1, <1>3
<1>7. PICK e \in j..k : e = SkipRun(s, j, White) /\ e = SkipRun(w, j, White)
  <2>1. SkipRun(s, j, White) \in j..k /\ SkipRun(w, j, White) = SkipRun(s, j, White)
    <3>1. PICK C : C = White /\ C \subseteq Marks
      BY SomeMarks
    <3>2. SkipRun(s, j, C) \in j..k /\ SkipRun(w, j, C) = SkipRun(s, j, C)
      BY <1>6, <3>1, SkipAgree
    <3> QED
      BY <3>1, <3>2
  <2> QED
    BY <2>1
<1>8. /\ MarkerUnit(s, p) = IF j > i /\ e > j THEN e ELSE p
      /\ MarkerUnit(w, p) = IF j > i /\ e > j THEN e ELSE p
  BY <1>2, <1>5, <1>7, MarkerIs
<1>9. e \in p..k /\ p \in p..k
  BY <1>1, Nested
<1> QED
  BY <1>8, <1>9

-----------------------------------------------------------------------------
(***************************************************************************)
(* Markers at the start of a block, and parts of two texts that agree.     *)
(***************************************************************************)
RestStep(s, R, p) == IF MarkerUnit(s, p) = p THEN p ELSE R[MarkerUnit(s, p)]
RestOver(s, R) == R = [p \in 1..Len(s) + 1 |-> RestStep(s, R, p)]
RestTable(s) == CHOOSE R : RestOver(s, R)

LEMMA AfterMarkersIs ==
  ASSUME NEW s
  PROVE  AfterMarkers(s) = RestTable(s)[1]
  BY DEF AfterMarkers, RestTable, RestOver, RestStep

LEMMA RestExists ==
  ASSUME NEW s \in Seq(Characters)
  PROVE  \A p \in 1..Len(s) + 1 : RestTable(s)[p] = RestStep(s, RestTable(s), p)
<1>1. PICK N \in Nat : N = Len(s) + 1
  OBVIOUS
<1>2. \A p \in 1..N : MarkerUnit(s, p) \in p..N
  BY <1>1, MarkerWithin
<1> DEFINE Right(R, d) == \A p \in 1..N : p + d >= N => R[p] = RestStep(s, R, p)
           T == {d \in Nat : \E R : Right(R, d)}
<1>3. 0 \in T
  <2> DEFINE h == [p \in 1..N |-> p]
  <2>1. ASSUME NEW p \in 1..N, p + 0 >= N PROVE h[p] = RestStep(s, h, p)
    <3>1. MarkerUnit(s, p) = p
      BY <1>2, <2>1
    <3> QED
      BY <3>1 DEF RestStep
  <2>2. Right(h, 0)
    BY <2>1
  <2> QED
    BY <2>2
<1>4. ASSUME NEW d \in Nat, d \in T PROVE d + 1 \in T
  <2>1. PICK R : Right(R, d)
    BY <1>4
  <2> DEFINE h == [p \in 1..N |-> IF p + d >= N THEN R[p] ELSE RestStep(s, R, p)]
  <2>2. \A p \in 1..N : h[p] = IF p + d >= N THEN R[p] ELSE RestStep(s, R, p)
    OBVIOUS
  <2> HIDE DEF h
  <2>3. ASSUME NEW p \in 1..N, p + (d + 1) >= N PROVE h[p] = RestStep(s, h, p)
    <3>1. PICK q \in p..N : q = MarkerUnit(s, p)
      BY <1>2
    <3>2. q # p => q \in 1..N /\ q + d >= N
      BY <2>3
    <3>3. q # p => h[q] = R[q]
      BY <2>2, <3>2
    <3>4. RestStep(s, h, p) = RestStep(s, R, p)
      BY <3>1, <3>3 DEF RestStep
    <3>5. p + d >= N => R[p] = RestStep(s, R, p)
      BY <2>1
    <3> QED
      BY <2>2, <3>4, <3>5
  <2>4. d + 1 \in Nat /\ Right(h, d + 1)
    BY <2>3
  <2> HIDE DEF Right
  <2> QED
    BY <2>4
<1>5. N \in T
  <2> HIDE DEF T
  <2> QED
    BY <1>3, <1>4, Induction
<1>6. PICK R : Right(R, N)
  BY <1>5
<1> DEFINE h == [p \in 1..N |-> R[p]]
<1>7. \A p \in 1..N : h[p] = R[p]
  OBVIOUS
<1>8. h = [p \in 1..N |-> h[p]]
  OBVIOUS
<1> HIDE DEF h
<1>9. ASSUME NEW p \in 1..N PROVE h[p] = RestStep(s, h, p)
  <2>1. R[p] = RestStep(s, R, p)
    <3>1. p + N >= N
      OBVIOUS
    <3> QED
      BY <1>6, <3>1
  <2>2. PICK q \in 1..N : q = MarkerUnit(s, p)
    <3>1. \A x \in p..N : x \in 1..N
      OBVIOUS
    <3> QED
      BY <1>2, <3>1
  <2>3. h[q] = R[q] /\ h[p] = R[p]
    BY <1>7
  <2> QED
    BY <2>1, <2>2, <2>3 DEF RestStep
<1>10. RestOver(s, h)
  BY <1>1, <1>8, <1>9 DEF RestOver
<1>11. RestOver(s, RestTable(s))
  BY <1>10 DEF RestTable
<1> DEFINE g == RestTable(s)
<1>12. g = [p \in 1..N |-> RestStep(s, g, p)]
  <2> HIDE DEF g
  <2> QED
    BY <1>1, <1>11 DEF RestOver, g
<1> HIDE DEF g
<1>13. \A p \in 1..N : g[p] = RestStep(s, g, p)
  BY <1>12, Zenon
<1> QED
  BY <1>1, <1>13 DEF g

LEMMA AfterMarkersAgree ==
  ASSUME NEW s, NEW w, NEW k, Agree(s, w, k)
  PROVE  AfterMarkers(s) \in 1..k /\ AfterMarkers(w) = AfterMarkers(s)
<1>1. /\ s \in Seq(Characters) /\ w \in Seq(Characters)
      /\ k \in 1..Len(s) /\ k \in 1..Len(w) /\ k \in Nat /\ 1 \in 1..k
  BY DEF Agree
<1> DEFINE g == RestTable(s)
           h == RestTable(w)
           Same(p) == g[p] \in 1..k /\ h[p] = g[p]
           T == {d \in Nat : \A p \in 1..k : p + d >= k => Same(p)}
<1>2. \A p \in 1..k : p \in 1..Len(s) + 1 /\ p \in 1..Len(w) + 1
  BY <1>1
<1>3. \A p \in 1..k : g[p] = RestStep(s, g, p)
  BY <1>1, <1>2, RestExists
<1>4. \A p \in 1..k : h[p] = RestStep(w, h, p)
  BY <1>1, <1>2, RestExists
<1> HIDE DEF g, h
<1>5. \A p \in 1..k : MarkerUnit(s, p) \in p..k /\ MarkerUnit(w, p) = MarkerUnit(s, p)
  BY MarkerAgree
<1>6. 0 \in T
  <2>1. ASSUME NEW p \in 1..k, p + 0 >= k PROVE Same(p)
    <3>1. MarkerUnit(s, p) = p /\ MarkerUnit(w, p) = p
      BY <1>1, <1>5, <2>1
    <3> QED
      BY <1>3, <1>4, <3>1 DEF RestStep
  <2> QED
    BY <2>1
<1>7. ASSUME NEW d \in Nat, d \in T PROVE d + 1 \in T
  <2>1. ASSUME NEW p \in 1..k, p + (d + 1) >= k PROVE Same(p)
    <3>1. PICK q \in p..k : q = MarkerUnit(s, p) /\ q = MarkerUnit(w, p)
      BY <1>5
    <3>2. q # p => q \in 1..k /\ q + d >= k
      BY <1>1, <2>1
    <3>3. q # p => Same(q)
      BY <1>7, <3>2
    <3>4. g[p] = RestStep(s, g, p) /\ h[p] = RestStep(w, h, p)
      BY <1>3, <1>4
    <3> QED
      BY <3>1, <3>3, <3>4 DEF RestStep
  <2>2. d + 1 \in Nat
    OBVIOUS
  <2> HIDE DEF Same
  <2> QED
    BY <2>1, <2>2
<1>8. k \in T
  <2> HIDE DEF T
  <2> QED
    BY <1>1, <1>6, <1>7, Induction
<1>9. Same(1)
  <2>1. 1 + k >= k
    BY <1>1
  <2> QED
    BY <1>1, <1>8, <2>1
<1> QED
  BY <1>9, AfterMarkersIs DEF g, h

\* Parts of two texts that agree.
LEMMA PartsAgree ==
  ASSUME NEW s, NEW w, NEW k, Agree(s, w, k), NEW p \in 1..k,
         NEW d \in k + 1..Len(s) + 1, NEW e \in k + 1..Len(w) + 1
  PROVE  /\ Agree(SubSeq(s, p, d - 1), SubSeq(w, p, e - 1), k - p + 1)
         /\ SubSeq(s, p, d - 1)[k - p + 1] = s[k]
         /\ k - p + 1 >= 1
<1>1. /\ s \in Seq(Characters) /\ w \in Seq(Characters)
      /\ k \in 1..Len(s) /\ k \in 1..Len(w) /\ k \in Nat /\ p \in Nat
      /\ \A i \in 1..k : s[i] = w[i]
      /\ s[k] \in Letters
  BY DEF Agree
<1>2. PICK m \in Nat : m = k - p + 1 /\ m >= 1 /\ (m + p) - 1 = k
  <2>1. k - p + 1 \in Nat /\ k - p + 1 >= 1 /\ ((k - p + 1) + p) - 1 = k
    BY <1>1
  <2> QED
    BY <2>1
<1>3. /\ SubSeq(s, p, d - 1) \in Seq(Characters) /\ Len(SubSeq(s, p, d - 1)) = d - p
      /\ \A i \in 1..(d - p) : SubSeq(s, p, d - 1)[i] = s[(i + p) - 1]
  BY <1>1
<1>4. /\ SubSeq(w, p, e - 1) \in Seq(Characters) /\ Len(SubSeq(w, p, e - 1)) = e - p
      /\ \A i \in 1..(e - p) : SubSeq(w, p, e - 1)[i] = w[(i + p) - 1]
  BY <1>1
<1>5. m \in 1..(d - p) /\ m \in 1..(e - p)
  BY <1>1, <1>2
<1>6. \A i \in 1..m : i \in 1..(d - p) /\ i \in 1..(e - p) /\ (i + p) - 1 \in 1..k
  BY <1>1, <1>2
<1>7. \A i \in 1..m : SubSeq(s, p, d - 1)[i] = SubSeq(w, p, e - 1)[i]
  BY <1>1, <1>3, <1>4, <1>6
<1>8. SubSeq(s, p, d - 1)[m] = s[k]
  BY <1>2, <1>3, <1>5
<1>9. Agree(SubSeq(s, p, d - 1), SubSeq(w, p, e - 1), m)
  BY <1>1, <1>3, <1>4, <1>5, <1>7, <1>8 DEF Agree
<1> QED
  BY <1>2, <1>8, <1>9

LEMMA PartsSame ==
  ASSUME NEW s, NEW w, NEW k, Agree(s, w, k), NEW p \in 1..k, NEW e \in p..k
  PROVE  SubSeq(s, p, e - 1) = SubSeq(w, p, e - 1)
<1>1. /\ s \in Seq(Characters) /\ w \in Seq(Characters)
      /\ k \in 1..Len(s) /\ k \in 1..Len(w) /\ k \in Nat /\ p \in Nat
      /\ \A i \in 1..k : s[i] = w[i]
  BY DEF Agree
<1>2. \A i \in 1..(e - p) : (i + p) - 1 \in 1..k
  BY <1>1
<1>3. PICK x \in Seq(Characters) : x = SubSeq(s, p, e - 1) /\ Len(x) = e - p
        /\ \A i \in 1..(e - p) : x[i] = s[(i + p) - 1]
  <2>1. SubSeq(s, p, e - 1) \in Seq(Characters) /\ Len(SubSeq(s, p, e - 1)) = e - p
        /\ \A i \in 1..(e - p) : SubSeq(s, p, e - 1)[i] = s[(i + p) - 1]
    BY <1>1
  <2> QED
    BY <2>1
<1>4. PICK y \in Seq(Characters) : y = SubSeq(w, p, e - 1) /\ Len(y) = e - p
        /\ \A i \in 1..(e - p) : y[i] = w[(i + p) - 1]
  <2>1. SubSeq(w, p, e - 1) \in Seq(Characters) /\ Len(SubSeq(w, p, e - 1)) = e - p
        /\ \A i \in 1..(e - p) : SubSeq(w, p, e - 1)[i] = w[(i + p) - 1]
    BY <1>1
  <2> QED
    BY <2>1
<1>5. \A i \in 1..(e - p) : x[i] = y[i]
  BY <1>1, <1>2, <1>3, <1>4
<1>6. x = [i \in 1..Len(x) |-> x[i]] /\ y = [i \in 1..Len(y) |-> y[i]]
  OBVIOUS
<1>7. x = [i \in 1..(e - p) |-> x[i]] /\ y = [i \in 1..(e - p) |-> y[i]]
  BY <1>3, <1>4, <1>6
<1>8. x = y
  BY <1>5, <1>7
<1> QED
  BY <1>3, <1>4, <1>8

-----------------------------------------------------------------------------
(***************************************************************************)
(* Lines. A line that starts before the letter is the same in both texts   *)
(* or holds the letter in both; so it is a marker line, a blank line, or   *)
(* the start of a block in both or in none.                                *)
(***************************************************************************)
Breaks(s, p, n) ==
  /\ n \in p..Len(s) + 1
  /\ n <= Len(s) => s[n] = "nl"
  /\ \A i \in p..n - 1 : s[i] # "nl"

LEMMA LineEndIs ==
  ASSUME NEW s \in Seq(Characters), NEW p \in 1..Len(s) + 1
  PROVE  /\ Breaks(s, p, LineEnd(s, p))
         /\ \A n : Breaks(s, p, n) => n = LineEnd(s, p)
<1> DEFINE C == Characters \ {"nl"}
<1>1. Len(s) \in Nat /\ p \in Nat /\ \A i \in 1..Len(s) : s[i] \in Characters
  OBVIOUS
<1>2. ASSUME NEW n PROVE Breaks(s, p, n) <=> Skips(s, p, C, n)
  <2>1. CASE n \in p..Len(s) + 1
    <3>1. \A i \in p..n - 1 : i \in 1..Len(s)
      BY <1>1, <2>1
    <3>2. \A i \in p..n - 1 : s[i] # "nl" <=> s[i] \in C
      BY <1>1, <3>1
    <3>3. n <= Len(s) => (s[n] = "nl" <=> s[n] \notin C)
      <4>1. n <= Len(s) => n \in 1..Len(s)
        BY <1>1, <2>1
      <4> QED
        BY <1>1, <4>1
    <3> HIDE DEF C
    <3> QED
      BY <3>2, <3>3 DEF Breaks, Skips
  <2>2. CASE n \notin p..Len(s) + 1
    BY <2>2 DEF Breaks, Skips
  <2> QED
    BY <2>1, <2>2
<1> HIDE DEF C
<1>3. /\ Skips(s, p, C, SkipRun(s, p, C))
      /\ \A n : Skips(s, p, C, n) => n = SkipRun(s, p, C)
  BY SkipRunIs
<1>4. Breaks(s, p, LineEnd(s, p))
  <2>1. \E n \in p..Len(s) + 1 : (n <= Len(s) => s[n] = "nl") /\ \A i \in p..n - 1 : s[i] # "nl"
    BY <1>2, <1>3 DEF Breaks
  <2> QED
    BY <2>1, Zenon DEF LineEnd, Breaks
<1> QED
  BY <1>2, <1>3, <1>4

\* The line of a place before the letter is the same in both or holds the
\* letter in both.
LEMMA LinesAgree ==
  ASSUME NEW s, NEW w, NEW k, Agree(s, w, k), NEW p \in 1..k
  PROVE  \/ Line(s, p) = Line(w, p)
         \/ Agree(Line(s, p), Line(w, p), k - p + 1)
<1>1. /\ s \in Seq(Characters) /\ w \in Seq(Characters)
      /\ k \in 1..Len(s) /\ k \in 1..Len(w) /\ k \in Nat /\ p \in Nat
      /\ \A i \in 1..k : s[i] = w[i]
      /\ s[k] \in Letters
  BY DEF Agree
<1>2. s[k] # "nl" /\ w[k] # "nl"
  <2>1. "nl" \in Marks
    BY DEF Marks
  <2> QED
    BY <1>1, <2>1, LetterNoMark
<1>3. p \in 1..Len(s) + 1 /\ p \in 1..Len(w) + 1
  BY <1>1
<1>4. PICK d : d = LineEnd(s, p)
  OBVIOUS
<1>5. PICK e : e = LineEnd(w, p)
  OBVIOUS
<1>6. Breaks(s, p, d) /\ \A n : Breaks(s, p, n) => n = d
  BY <1>1, <1>3, <1>4, LineEndIs
<1>7. Breaks(w, p, e) /\ \A n : Breaks(w, p, n) => n = e
  BY <1>1, <1>3, <1>5, LineEndIs
<1>8. /\ d \in p..Len(s) + 1 /\ (d <= Len(s) => s[d] = "nl")
      /\ \A i \in p..d - 1 : s[i] # "nl"
  BY <1>6 DEF Breaks
<1>9. /\ e \in p..Len(w) + 1 /\ (e <= Len(w) => w[e] = "nl")
      /\ \A i \in p..e - 1 : w[i] # "nl"
  BY <1>7 DEF Breaks
<1>10. CASE d <= k
  <2>1. d \in 1..k /\ d \in p..k /\ d <= Len(s) /\ d \in p..Len(w) + 1
        /\ \A i \in p..d - 1 : i \in 1..k
    BY <1>1, <1>8, <1>10
  <2>2. Breaks(w, p, d)
    BY <1>1, <1>8, <2>1 DEF Breaks
  <2>3. d = e
    BY <1>7, <2>2
  <2>4. SubSeq(s, p, d - 1) = SubSeq(w, p, d - 1)
    BY <2>1, PartsSame
  <2> QED
    BY <1>4, <1>5, <2>3, <2>4 DEF Line
<1>11. CASE e <= k
  <2>1. e \in 1..k /\ e \in p..k /\ e <= Len(w) /\ e \in p..Len(s) + 1
        /\ \A i \in p..e - 1 : i \in 1..k
    BY <1>1, <1>9, <1>11
  <2>2. Breaks(s, p, e)
    BY <1>1, <1>9, <2>1 DEF Breaks
  <2>3. d = e
    BY <1>6, <2>2
  <2>4. SubSeq(s, p, e - 1) = SubSeq(w, p, e - 1)
    BY <2>1, PartsSame
  <2> QED
    BY <1>4, <1>5, <2>3, <2>4 DEF Line
<1>12. CASE ~(d <= k) /\ ~(e <= k)
  <2>1. d \in k + 1..Len(s) + 1 /\ e \in k + 1..Len(w) + 1
    BY <1>1, <1>8, <1>9, <1>12
  <2>2. Agree(SubSeq(s, p, d - 1), SubSeq(w, p, e - 1), k - p + 1)
    BY <2>1, PartsAgree
  <2> QED
    BY <1>4, <1>5, <2>2 DEF Line
<1> QED
  BY <1>10, <1>11, <1>12

LEMMA LineKindAgrees ==
  ASSUME NEW s, NEW w, NEW k, Agree(s, w, k), NEW p \in 1..k
  PROVE  /\ IsMarkerLine(Line(s, p)) <=> IsMarkerLine(Line(w, p))
         /\ Blank(Line(s, p)) <=> Blank(Line(w, p))
<1>1. CASE Line(s, p) = Line(w, p)
  BY <1>1
<1>2. CASE Agree(Line(s, p), Line(w, p), k - p + 1)
  <2>1. PICK x, y, m : x = Line(s, p) /\ y = Line(w, p) /\ Agree(x, y, m)
    BY <1>2
  <2>2. m \in Nat /\ 1 \in 1..m /\ m \in 1..Len(x) /\ m \in 1..Len(y)
        /\ x[m] = y[m] /\ x[m] \in Letters
    BY <2>1 DEF Agree
  <2>3. MarkerUnit(x, 1) = MarkerUnit(y, 1)
    BY <2>1, <2>2, MarkerAgree
  <2>4. x[m] \notin White
    BY <2>2, LetterNoMark, SomeMarks
  <2>5. ~Blank(x) /\ ~Blank(y)
    BY <2>2, <2>4 DEF Blank
  <2> QED
    BY <2>1, <2>3, <2>5 DEF IsMarkerLine
<1> QED
  BY <1>1, <1>2, LinesAgree

LEMMA StartsAgree ==
  ASSUME NEW s, NEW w, NEW k, Agree(s, w, k), NEW p \in 1..k
  PROVE  p \in LineStarts(s) <=> p \in LineStarts(w)
<1>1. /\ k \in 1..Len(s) /\ k \in 1..Len(w) /\ k \in Nat /\ s \in Seq(Characters)
      /\ w \in Seq(Characters)
      /\ \A i \in 1..k : s[i] = w[i]
  BY DEF Agree
<1>2. p \in 1..Len(s) + 1 /\ p \in 1..Len(w) + 1 /\ (p # 1 => p - 1 \in 1..k)
  BY <1>1
<1>3. p # 1 => s[p - 1] = w[p - 1]
  BY <1>1, <1>2
<1> QED
  BY <1>2, <1>3 DEF LineStarts

Previous(s, p, n) == n \in LineStarts(s) /\ n < p /\ \A m \in LineStarts(s) : m < p => m <= n

LEMMA PreviousIs ==
  ASSUME NEW s \in Seq(Characters), NEW p \in Nat, 1 < p
  PROVE  /\ Previous(s, p, PreviousLine(s, p))
         /\ \A n : Previous(s, p, n) => n = PreviousLine(s, p)
<1> DEFINE S == {n \in LineStarts(s) : n < p}
           T == {p - n : n \in S}
<1>1. Len(s) \in Nat /\ \A n \in LineStarts(s) : n \in Nat
  BY DEF LineStarts
<1>2. 1 \in S
  <2>1. 1 \in 1..Len(s) + 1
    BY <1>1
  <2> QED
    BY <2>1 DEF LineStarts
<1>3. \A n \in S : n \in Nat /\ n < p /\ p - n \in Nat /\ n \in LineStarts(s)
  BY <1>1
<1>4. T \in SUBSET Nat /\ T # {}
  BY <1>2, <1>3
<1>5. PICK x \in T : \A y \in T : x <= y
  <2> HIDE DEF T
  <2> QED
    BY <1>4, LeastNumber
<1>6. PICK n \in S : x = p - n
  BY <1>5
<1>7. ASSUME NEW m \in LineStarts(s), m < p PROVE m <= n
  <2>1. m \in S
    BY <1>7
  <2>2. p - n <= p - m
    BY <1>5, <1>6, <2>1
  <2> QED
    BY <1>3, <2>1, <2>2
<1>8. Previous(s, p, n)
  BY <1>3, <1>7 DEF Previous
<1>9. ASSUME NEW a, NEW b, Previous(s, p, a), Previous(s, p, b) PROVE a = b
  <2>1. a \in Nat /\ b \in Nat /\ a <= b /\ b <= a
    BY <1>1, <1>9 DEF Previous
  <2> QED
    BY <2>1
<1>10. Previous(s, p, PreviousLine(s, p))
  <2>1. \E a \in LineStarts(s) : a < p /\ \A m \in LineStarts(s) : m < p => m <= a
    BY <1>8 DEF Previous
  <2> HIDE DEF S, T
  <2> QED
    BY <2>1, Zenon DEF PreviousLine, Previous
<1> QED
  BY <1>9, <1>10

LEMMA OpensAgree ==
  ASSUME NEW s, NEW w, NEW k, Agree(s, w, k), NEW p \in 1..k
  PROVE  OpensBlock(s, p) <=> OpensBlock(w, p)
<1>1. /\ s \in Seq(Characters) /\ w \in Seq(Characters)
      /\ k \in 1..Len(s) /\ k \in 1..Len(w) /\ k \in Nat
  BY DEF Agree
<1>2. /\ IsMarkerLine(Line(s, p)) <=> IsMarkerLine(Line(w, p))
      /\ Blank(Line(s, p)) <=> Blank(Line(w, p))
  BY LineKindAgrees
<1>3. CASE p = 1
  BY <1>2, <1>3 DEF OpensBlock
<1>4. CASE p # 1
  <2>1. p \in Nat /\ 1 < p
    BY <1>1, <1>4
  <2>2. PICK n : n = PreviousLine(s, p)
    OBVIOUS
  <2>3. Previous(s, p, n)
    BY <1>1, <2>1, <2>2, PreviousIs
  <2>4. \A m \in LineStarts(s) : m \in Nat /\ (m < p => m \in 1..k)
    BY <1>1 DEF LineStarts
  <2>5. \A m \in LineStarts(w) : m \in Nat /\ (m < p => m \in 1..k)
    BY <1>1 DEF LineStarts
  <2>6. \A m \in 1..k : m \in LineStarts(s) <=> m \in LineStarts(w)
    BY StartsAgree
  <2>7. n \in 1..k
    BY <2>3, <2>4 DEF Previous
  <2>8. Previous(w, p, n)
    BY <2>3, <2>4, <2>5, <2>6 DEF Previous
  <2>9. n = PreviousLine(w, p)
    BY <1>1, <2>1, <2>8, PreviousIs
  <2>10. /\ IsMarkerLine(Line(s, n)) <=> IsMarkerLine(Line(w, n))
         /\ Blank(Line(s, n)) <=> Blank(Line(w, n))
    BY <2>7, LineKindAgrees
  <2> QED
    BY <1>2, <1>4, <2>2, <2>9, <2>10 DEF OpensBlock
<1> QED
  BY <1>3, <1>4

-----------------------------------------------------------------------------
(***************************************************************************)
(* Blocks, and the acrostic positions in a block.                          *)
(***************************************************************************)
Stops(s, p) == {n \in LineStarts(s) : n > p /\ (OpensBlock(s, n) \/ Blank(Line(s, n)))}

LEMMA BlockEndIs ==
  ASSUME NEW s \in Seq(Characters), NEW p \in 1..Len(s) + 1
  PROVE  /\ BlockEnd(s, p) \in p..Len(s) + 1
         /\ BlockEnd(s, p) = Len(s) + 1 \/ BlockEnd(s, p) \in Stops(s, p)
         /\ \A n \in Stops(s, p) : BlockEnd(s, p) <= n
<1>1. Len(s) \in Nat /\ \A n \in Stops(s, p) : n \in Nat /\ n \in p..Len(s) + 1
  BY DEF Stops, LineStarts
<1>2. CASE Stops(s, p) = {}
  <2>1. BlockEnd(s, p) = Len(s) + 1
    BY <1>2, Zenon DEF BlockEnd, Stops
  <2> QED
    BY <1>1, <1>2, <2>1
<1>3. CASE Stops(s, p) # {}
  <2>1. PICK x \in Stops(s, p) : \A m \in Stops(s, p) : x <= m
    BY <1>1, <1>3, LeastNumber
  <2>2. BlockEnd(s, p) = CHOOSE n \in Stops(s, p) : \A m \in Stops(s, p) : n <= m
    BY <1>3, Zenon DEF BlockEnd, Stops
  <2>3. BlockEnd(s, p) \in Stops(s, p) /\ \A m \in Stops(s, p) : BlockEnd(s, p) <= m
    BY <2>1, <2>2, Zenon
  <2> QED
    BY <1>1, <2>3
<1> QED
  BY <1>2, <1>3

LEMMA BlocksAgree ==
  ASSUME NEW s, NEW w, NEW k, Agree(s, w, k), NEW p \in 1..k, BlockEnd(s, p) > k
  PROVE  /\ Agree(Block(s, p), Block(w, p), k - p + 1)
         /\ BlockEnd(w, p) > k
<1>1. /\ s \in Seq(Characters) /\ w \in Seq(Characters)
      /\ k \in 1..Len(s) /\ k \in 1..Len(w) /\ k \in Nat /\ p \in Nat
  BY DEF Agree
<1>2. p \in 1..Len(s) + 1 /\ p \in 1..Len(w) + 1
  BY <1>1
<1>3. PICK d \in p..Len(s) + 1 : d = BlockEnd(s, p) /\ \A n \in Stops(s, p) : d <= n
  BY <1>1, <1>2, BlockEndIs
<1>4. PICK e \in p..Len(w) + 1 : e = BlockEnd(w, p) /\ (e = Len(w) + 1 \/ e \in Stops(w, p))
  BY <1>1, <1>2, BlockEndIs
<1>5. e > k
  <2>1. ASSUME ~(e > k) PROVE FALSE
    <3>1. e \in 1..k /\ e # Len(w) + 1
      BY <1>1, <2>1
    <3>2. e \in Stops(w, p)
      BY <1>4, <3>1
    <3>3. /\ e \in LineStarts(s) <=> e \in LineStarts(w)
          /\ OpensBlock(s, e) <=> OpensBlock(w, e)
          /\ Blank(Line(s, e)) <=> Blank(Line(w, e))
      BY <3>1, StartsAgree, OpensAgree, LineKindAgrees
    <3>4. e \in Stops(s, p)
      BY <3>2, <3>3 DEF Stops
    <3>5. d <= e /\ d > k
      BY <1>3, <3>4
    <3> QED
      BY <1>1, <3>1, <3>5
  <2> QED
    BY <2>1
<1>6. d \in k + 1..Len(s) + 1 /\ e \in k + 1..Len(w) + 1
  BY <1>1, <1>3, <1>5
<1>7. Agree(SubSeq(s, p, d - 1), SubSeq(w, p, e - 1), k - p + 1)
  BY <1>6, PartsAgree
<1> QED
  BY <1>3, <1>4, <1>5, <1>7 DEF Block

LEMMA AfterMarkersWithin ==
  ASSUME NEW s \in Seq(Characters)
  PROVE  AfterMarkers(s) \in 1..Len(s) + 1
<1>1. PICK N \in Nat : N = Len(s) + 1 /\ 1 \in 1..N
  OBVIOUS
<1> DEFINE g == RestTable(s)
           T == {d \in Nat : \A p \in 1..N : p + d >= N => g[p] \in 1..N}
<1>2. \A p \in 1..N : g[p] = RestStep(s, g, p)
  BY <1>1, RestExists
<1> HIDE DEF g
<1>3. \A p \in 1..N : MarkerUnit(s, p) \in p..N
  BY <1>1, MarkerWithin
<1>4. 0 \in T
  <2>1. ASSUME NEW p \in 1..N, p + 0 >= N PROVE g[p] \in 1..N
    <3>1. MarkerUnit(s, p) = p
      BY <1>3, <2>1
    <3> QED
      BY <1>2, <3>1 DEF RestStep
  <2> QED
    BY <2>1
<1>5. ASSUME NEW d \in Nat, d \in T PROVE d + 1 \in T
  <2>1. ASSUME NEW p \in 1..N, p + (d + 1) >= N PROVE g[p] \in 1..N
    <3>1. PICK q \in p..N : q = MarkerUnit(s, p)
      BY <1>3
    <3>2. q # p => q \in 1..N /\ q + d >= N
      BY <2>1
    <3>3. q # p => g[q] \in 1..N
      BY <1>5, <3>2
    <3> QED
      BY <1>2, <3>1, <3>3 DEF RestStep
  <2>2. d + 1 \in Nat
    OBVIOUS
  <2> QED
    BY <2>1, <2>2
<1>6. N \in T
  <2> HIDE DEF T
  <2> QED
    BY <1>4, <1>5, Induction
<1>7. g[1] \in 1..N
  <2>1. 1 + N >= N
    BY <1>1
  <2> QED
    BY <1>1, <1>6, <2>1
<1> QED
  BY <1>1, <1>7, AfterMarkersIs DEF g

Content(b) == IF IsMarkerLine(Line(b, 1)) THEN AfterMarkers(b) ELSE 1
ClosedAt(b, i) == SkipRun(b, i + 1, {"q"})

LEMMA PositionsAre ==
  ASSUME NEW b
  PROVE  AcrosticPositions(b) =
           {Content(b)} \cup
           {SkipRun(b, ClosedAt(b, i), White) :
              i \in {n \in Content(b)..Len(b) : /\ b[n] = "." /\ ClosedAt(b, n) <= Len(b)
                                               /\ b[ClosedAt(b, n)] \in White}}
  BY Zenon DEF AcrosticPositions, SentenceStarts, Content, ClosedAt

\* A position is where the content starts or follows the end of a sentence.
LEMMA PositionCases ==
  ASSUME NEW b, NEW c
  PROVE  c \in AcrosticPositions(b) <=>
           \/ c = Content(b)
           \/ \E i \in Content(b)..Len(b) :
                /\ b[i] = "." /\ ClosedAt(b, i) <= Len(b) /\ b[ClosedAt(b, i)] \in White
                /\ c = SkipRun(b, ClosedAt(b, i), White)
  BY PositionsAre

LEMMA PositionsWithin ==
  ASSUME NEW b \in Seq(Characters), NEW c \in AcrosticPositions(b)
  PROVE  c \in 1..Len(b) + 1
<1>1. Len(b) \in Nat /\ 1 \in 1..Len(b) + 1
  OBVIOUS
<1>2. Content(b) \in 1..Len(b) + 1
  BY <1>1, AfterMarkersWithin DEF Content
<1>3. ASSUME NEW i \in Content(b)..Len(b), ClosedAt(b, i) <= Len(b),
             c = SkipRun(b, ClosedAt(b, i), White)
      PROVE  c \in 1..Len(b) + 1
  <2>1. i + 1 \in 1..Len(b) + 1
    BY <1>1, <1>2
  <2>2. PICK n \in i + 1..Len(b) + 1 : n = ClosedAt(b, i)
    BY <2>1, SkipWithin DEF ClosedAt
  <2>3. n \in 1..Len(b) + 1
    BY <1>1, <1>2, <2>1
  <2>4. SkipRun(b, n, White) \in n..Len(b) + 1
    BY <2>3, SkipWithin
  <2>5. \A x \in n..Len(b) + 1 : x \in 1..Len(b) + 1
    BY <1>1, <2>3
  <2> QED
    BY <1>3, <2>2, <2>4, <2>5
<1> QED
  BY <1>2, <1>3, PositionCases

LEMMA ContentAgrees ==
  ASSUME NEW b, NEW d, NEW m, Agree(b, d, m)
  PROVE  Content(b) \in 1..m /\ Content(d) = Content(b)
<1>1. 1 \in 1..m
  BY DEF Agree
<1>2. IsMarkerLine(Line(b, 1)) <=> IsMarkerLine(Line(d, 1))
  BY <1>1, LineKindAgrees
<1> QED
  BY <1>1, <1>2, AfterMarkersAgree DEF Content

LEMMA QuotesAgree ==
  ASSUME NEW b, NEW d, NEW m, Agree(b, d, m), NEW p \in 1..m
  PROVE  SkipRun(b, p, {"q"}) \in p..m /\ SkipRun(d, p, {"q"}) = SkipRun(b, p, {"q"})
<1>1. \A C : C \subseteq Marks => SkipRun(b, p, C) \in p..m /\ SkipRun(d, p, C) = SkipRun(b, p, C)
  BY SkipAgree
<1> QED
  BY <1>1, SomeMarks, Zenon

LEMMA PositionsAgree ==
  ASSUME NEW b, NEW d, NEW m, Agree(b, d, m), NEW c \in AcrosticPositions(b), c <= m
  PROVE  c \in AcrosticPositions(d)
<1>1. /\ b \in Seq(Characters) /\ d \in Seq(Characters)
      /\ m \in 1..Len(b) /\ m \in 1..Len(d) /\ m \in Nat
      /\ \A i \in 1..m : b[i] = d[i]
  BY DEF Agree
<1>2. Content(b) \in 1..m /\ Content(d) = Content(b)
  BY ContentAgrees
<1>3. CASE c = Content(b)
  BY <1>2, <1>3, PositionCases
<1>4. ASSUME NEW i \in Content(b)..Len(b),
             b[i] = ".", ClosedAt(b, i) <= Len(b), b[ClosedAt(b, i)] \in White,
             c = SkipRun(b, ClosedAt(b, i), White)
      PROVE  c \in AcrosticPositions(d)
  <2>1. i \in Nat /\ i >= 1 /\ i + 1 \in 1..Len(b) + 1
    BY <1>1, <1>2
  <2>2. PICK n \in i + 1..Len(b) + 1 : n = ClosedAt(b, i)
    BY <1>1, <2>1, SkipWithin DEF ClosedAt
  <2>3. n \in 1..Len(b) + 1
    BY <1>1, <2>1
  <2>4. c \in n..Len(b) + 1
    BY <1>1, <1>4, <2>2, <2>3, SkipWithin
  <2>5. i + 1 \in 1..m /\ n \in 1..m /\ i \in 1..m
    BY <1>1, <2>1, <2>3, <2>4
  <2>6. ClosedAt(d, i) = n
    <3>1. SkipRun(d, i + 1, {"q"}) = SkipRun(b, i + 1, {"q"})
      BY <2>5, QuotesAgree
    <3> QED
      BY <2>2, <3>1 DEF ClosedAt
  <2>7. SkipRun(d, n, White) = SkipRun(b, n, White)
    <3>1. \A C : C \subseteq Marks => SkipRun(d, n, C) = SkipRun(b, n, C)
      BY <2>5, SkipAgree
    <3> QED
      BY <3>1, SomeMarks, Zenon
  <2>8. /\ i \in Content(d)..Len(d) /\ d[i] = "." /\ n <= Len(d) /\ d[n] \in White
        /\ c = SkipRun(d, n, White)
    <3>1. i \in Content(d)..Len(d) /\ n <= Len(d)
      BY <1>1, <1>2, <2>5
    <3>2. d[i] = b[i] /\ d[n] = b[n]
      BY <1>1, <2>5
    <3> QED
      BY <1>4, <2>2, <2>7, <3>1, <3>2
  <2> QED
    BY <2>6, <2>8, PositionCases
<1> QED
  BY <1>3, <1>4, PositionCases

Decorations == White \cup {"q", "*"}

LEMMA LetterPositionIs ==
  ASSUME NEW b, NEW n
  PROVE  n \in LetterPositions(b) <=>
           /\ n <= Len(b) /\ b[n] \in Letters
           /\ \E c \in AcrosticPositions(b) : n = SkipRun(b, c, Decorations)
  BY DEF LetterPositions, Decorations

LEMMA LetterPositionsWithin ==
  ASSUME NEW b \in Seq(Characters), NEW n \in LetterPositions(b)
  PROVE  n \in 1..Len(b) /\ b[n] \in Letters
<1>1. PICK c \in AcrosticPositions(b) : n = SkipRun(b, c, Decorations)
  BY LetterPositionIs
<1>2. c \in 1..Len(b) + 1
  BY PositionsWithin
<1>3. n \in c..Len(b) + 1
  BY <1>1, <1>2, SkipWithin
<1>4. n <= Len(b) /\ b[n] \in Letters
  BY LetterPositionIs
<1>5. Len(b) \in Nat
  OBVIOUS
<1> QED
  BY <1>2, <1>3, <1>4, <1>5

LEMMA LetterPositionAgrees ==
  ASSUME NEW b, NEW d, NEW m, Agree(b, d, m), m \in LetterPositions(b)
  PROVE  m \in LetterPositions(d)
<1>1. /\ b \in Seq(Characters) /\ d \in Seq(Characters)
      /\ m \in 1..Len(b) /\ m \in 1..Len(d) /\ m \in Nat
      /\ b[m] = d[m] /\ b[m] \in Letters
  BY DEF Agree
<1>2. PICK c \in AcrosticPositions(b) : m = SkipRun(b, c, Decorations)
  BY LetterPositionIs
<1>3. c \in 1..Len(b) + 1
  BY <1>1, PositionsWithin
<1>4. m \in c..Len(b) + 1
  BY <1>1, <1>2, <1>3, SkipWithin
<1>5. c \in 1..m /\ c <= m
  BY <1>1, <1>3, <1>4
<1>6. c \in AcrosticPositions(d)
  BY <1>5, PositionsAgree
<1>7. Decorations \subseteq Marks
  BY SomeMarks DEF Decorations
<1>8. m = SkipRun(d, c, Decorations)
  BY <1>2, <1>5, <1>7, SkipAgree
<1>9. m <= Len(d) /\ d[m] \in Letters
  BY <1>1
<1> QED
  BY <1>6, <1>8, <1>9, LetterPositionIs

-----------------------------------------------------------------------------
(***************************************************************************)
(* What is captured stays captured. Whether a letter counts depends on the *)
(* text up to it, as long as there is no code and no tag: the closing      *)
(* backtick of inline code takes back what was captured inside.            *)
(***************************************************************************)
PlaceIn(t, p, k) == \E n \in LetterPositions(Block(t, p)) : k = p + n - 1

LEMMA LetterPlaceIs ==
  ASSUME NEW t, NEW k
  PROVE  k \in LetterPlaces(t) <=> \E p \in BlockStarts(t) : PlaceIn(t, p, k)
  BY DEF LetterPlaces, PlaceIn

\* A letter found in a block, with its place in the block.
LEMMA PlaceInBlock ==
  ASSUME NEW s \in Seq(Characters), NEW p \in BlockStarts(s), NEW k, PlaceIn(s, p, k)
  PROVE  /\ k \in 1..Len(s) /\ s[k] \in Letters /\ p \in 1..k
         /\ BlockEnd(s, p) > k
         /\ k - p + 1 \in LetterPositions(Block(s, p))
<1>1. p \in 1..Len(s) + 1 /\ p \in Nat /\ Len(s) \in Nat
  BY DEF BlockStarts, LineStarts
<1>2. PICK n \in LetterPositions(Block(s, p)) : k = p + n - 1
  BY DEF PlaceIn
<1>3. PICK d \in p..Len(s) + 1 : d = BlockEnd(s, p)
  BY <1>1, BlockEndIs
<1>4. /\ SubSeq(s, p, d - 1) \in Seq(Characters) /\ Len(SubSeq(s, p, d - 1)) = d - p
      /\ \A i \in 1..(d - p) : SubSeq(s, p, d - 1)[i] = s[p + i - 1]
  <2>1. \A i \in 1..(d - p) : p + i - 1 = i + p - 1
    BY <1>1
  <2>2. d - 1 <= Len(s) /\ p >= 1
    BY <1>1
  <2> QED
    BY <1>1, <2>1, <2>2
<1>5. PICK b \in Seq(Characters) : b = Block(s, p) /\ Len(b) = d - p
        /\ \A i \in 1..(d - p) : b[i] = s[p + i - 1]
  BY <1>3, <1>4 DEF Block
<1>6. n \in 1..Len(b) /\ b[n] \in Letters
  BY <1>5, LetterPositionsWithin
<1>7. /\ n \in Nat /\ k \in 1..Len(s) /\ p \in 1..k /\ d > k /\ k - p + 1 = n
  BY <1>1, <1>2, <1>5, <1>6
<1>8. s[k] = b[n]
  BY <1>2, <1>5, <1>6
<1> QED
  BY <1>3, <1>6, <1>7, <1>8

\* Whether a letter counts depends on what stands before it only.
LEMMA PlaceAgrees ==
  ASSUME NEW s, NEW w, NEW k, Agree(s, w, k), k \in LetterPlaces(s)
  PROVE  k \in LetterPlaces(w)
<1>1. /\ s \in Seq(Characters) /\ w \in Seq(Characters)
      /\ k \in 1..Len(s) /\ k \in 1..Len(w) /\ k \in Nat
  BY DEF Agree
<1>2. PICK p \in BlockStarts(s) : PlaceIn(s, p, k)
  BY LetterPlaceIs
<1>3. /\ p \in 1..k /\ BlockEnd(s, p) > k /\ k - p + 1 \in LetterPositions(Block(s, p))
  BY <1>1, <1>2, PlaceInBlock
<1>4. Agree(Block(s, p), Block(w, p), k - p + 1)
  BY <1>3, BlocksAgree
<1>5. k - p + 1 \in LetterPositions(Block(w, p))
  BY <1>3, <1>4, LetterPositionAgrees
<1>6. p \in BlockStarts(w)
  BY <1>3, StartsAgree, OpensAgree DEF BlockStarts
<1>7. k = p + (k - p + 1) - 1
  BY <1>1, <1>3
<1>8. PlaceIn(w, p, k)
  BY <1>5, <1>7 DEF PlaceIn
<1> QED
  BY <1>6, <1>8, LetterPlaceIs

LEMMA PlacesAreLetters ==
  ASSUME NEW s \in Seq(Characters), NEW k \in LetterPlaces(s)
  PROVE  k \in 1..Len(s) /\ s[k] \in Letters
<1>1. PICK p \in BlockStarts(s) : PlaceIn(s, p, k)
  BY LetterPlaceIs
<1> QED
  BY <1>1, PlaceInBlock

\* More text, the same letters up to there.
LEMMA LettersKept ==
  ASSUME NEW s \in Seq(Characters), NEW v \in Seq(Characters)
  PROVE  LettersUpTo(s, LetterPlaces(s))[Len(s)] = LettersUpTo(s \o v, LetterPlaces(s \o v))[Len(s)]
<1>1. PICK w \in Seq(Characters) : w = s \o v
  <2>1. s \o v \in Seq(Characters)
    OBVIOUS
  <2> QED
    BY <2>1
<1>2. /\ Len(s) \in Nat /\ Len(w) \in Nat /\ Len(s) \in 0..Len(w)
      /\ Len(w) \in Len(s)..Len(w) /\ \A i \in 1..Len(s) : s[i] = w[i]
      /\ \A i \in 1..Len(s) : i \in 1..Len(w)
  BY <1>1
<1> DEFINE g == LettersUpTo(s, LetterPlaces(s))
           h == LettersUpTo(w, LetterPlaces(w))
           T == {n \in Nat : n <= Len(s) => g[n] = h[n]}
<1>3. g[0] = << >> /\ \A n \in 1..Len(s) :
        g[n] = IF n \in LetterPlaces(s) THEN Append(g[n - 1], s[n]) ELSE g[n - 1]
  BY LettersSteps
<1>4. h[0] = << >> /\ \A n \in 1..Len(w) :
        h[n] = IF n \in LetterPlaces(w) THEN Append(h[n - 1], w[n]) ELSE h[n - 1]
  BY LettersSteps
<1> HIDE DEF g, h
<1>5. ASSUME NEW n \in 1..Len(s) PROVE n \in LetterPlaces(s) <=> n \in LetterPlaces(w)
  <2>1. CASE s[n] \in Letters
    <3>1. Agree(s, w, n)
      <4>1. /\ n \in 1..Len(w) /\ \A i \in 1..n : i \in 1..Len(s)
        BY <1>2
      <4> QED
        BY <1>2, <2>1, <4>1 DEF Agree
    <3> QED
      BY <3>1, AgreeBack, PlaceAgrees
  <2>2. CASE s[n] \notin Letters
    <3>1. w[n] \notin Letters
      BY <1>2, <2>2
    <3> QED
      BY <2>2, <3>1, PlacesAreLetters
  <2> QED
    BY <2>1, <2>2
<1>6. 0 \in T
  BY <1>3, <1>4
<1>7. ASSUME NEW n \in Nat, n \in T PROVE n + 1 \in T
  <2>1. ASSUME n + 1 <= Len(s) PROVE g[n + 1] = h[n + 1]
    <3>1. PICK m \in 1..Len(s) : m = n + 1 /\ m - 1 = n
      BY <1>2, <2>1
    <3>2. n <= Len(s) /\ m \in 1..Len(w) /\ s[m] = w[m]
      BY <1>2, <2>1
    <3>3. g[n] = h[n]
      BY <1>7, <3>2
    <3>4. /\ g[m] = IF m \in LetterPlaces(s) THEN Append(g[n], s[m]) ELSE g[n]
          /\ h[m] = IF m \in LetterPlaces(w) THEN Append(h[n], w[m]) ELSE h[n]
      BY <1>3, <1>4, <3>1, <3>2
    <3>5. m \in LetterPlaces(s) <=> m \in LetterPlaces(w)
      BY <1>5
    <3> QED
      BY <3>1, <3>2, <3>3, <3>4, <3>5
  <2>2. n + 1 \in Nat
    OBVIOUS
  <2> QED
    BY <2>1, <2>2
<1>8. Len(s) \in T
  <2> HIDE DEF T
  <2> QED
    BY <1>2, <1>6, <1>7, Induction
<1>9. g[Len(s)] = h[Len(s)]
  BY <1>2, <1>8
<1> QED
  BY <1>1, <1>9 DEF g, h

LEMMA LettersStayPlain ==
  ASSUME NEW s \in Seq(Characters), NEW v \in Seq(Characters)
  PROVE  IsPrefix(LettersUpTo(s, LetterPlaces(s))[Len(s)],
                  LettersUpTo(s \o v, LetterPlaces(s \o v))[Len(s \o v)])
<1>1. PICK w \in Seq(Characters) : w = s \o v
  <2>1. s \o v \in Seq(Characters)
    OBVIOUS
  <2> QED
    BY <2>1
<1>2. Len(s) \in 0..Len(w) /\ Len(w) \in Len(s)..Len(w)
  BY <1>1
<1>3. IsPrefix(LettersUpTo(w, LetterPlaces(w))[Len(s)], LettersUpTo(w, LetterPlaces(w))[Len(w)])
  BY <1>2, LettersGrow
<1>4. LettersUpTo(s, LetterPlaces(s))[Len(s)] = LettersUpTo(w, LetterPlaces(w))[Len(s)]
  BY <1>1, LettersKept
<1> QED
  BY <1>1, <1>3, <1>4

\* A vocabulary without code and tags.
PlainTokens == \A t \in Tokens : \A i \in 1..Len(t) : t[i] \notin {"fence", "tick", "<"}

\* What no token holds, no decoded text holds.
Without(t, C) == t \in Seq(Characters) /\ \A i \in 1..Len(t) : t[i] \notin C

LEMMA DecodeWithout ==
  ASSUME NEW C, \A t \in Tokens : \A i \in 1..Len(t) : t[i] \notin C, NEW a \in Seq(Tokens)
  PROVE  Without(Decode(a), C)
<1> DEFINE T == {n \in Nat : \A c \in Seq(Tokens) : Len(c) = n => Without(Decode(c), C)}
<1>1. 0 \in T
  <2>1. ASSUME NEW c \in Seq(Tokens), Len(c) = 0 PROVE Without(Decode(c), C)
    <3>1. c = << >>
      BY <2>1
    <3>2. Decode(c) = << >>
      BY <3>1, DecodeEmpty
    <3>3. << >> \in Seq(Characters) /\ Len(<< >>) = 0
      OBVIOUS
    <3> QED
      BY <3>2, <3>3 DEF Without
  <2> QED
    BY <2>1
<1>2. ASSUME NEW n \in Nat, n \in T PROVE n + 1 \in T
  <2>1. ASSUME NEW c \in Seq(Tokens), Len(c) = n + 1 PROVE Without(Decode(c), C)
    <3>1. PICK d \in Seq(Tokens), t \in Tokens : c = Append(d, t) /\ Len(d) = n
      <4>1. SubSeq(c, 1, n) \in Seq(Tokens) /\ c[n + 1] \in Tokens
            /\ c = Append(SubSeq(c, 1, n), c[n + 1]) /\ Len(SubSeq(c, 1, n)) = n
        BY <2>1
      <4> QED
        BY <4>1
    <3>2. PICK x \in Seq(Characters) : x = Decode(d) /\ Without(x, C)
      BY <1>2, <3>1 DEF Without
    <3>3. Decode(c) = x \o t
      BY <3>1, <3>2, DecodeAppend
    <3>4. t \in Seq(Characters) /\ \A i \in 1..Len(t) : t[i] \notin C
      BY TokenType
    <3>5. \A i \in 1..Len(x) : x[i] \notin C
      BY <3>2 DEF Without
    <3>6. ASSUME NEW i \in 1..Len(x \o t) PROVE (x \o t)[i] \notin C
      <4>1. CASE i <= Len(x)
        BY <3>4, <3>5, <4>1
      <4>2. CASE i > Len(x)
        <5>1. i - Len(x) \in 1..Len(t) /\ (x \o t)[i] = t[i - Len(x)]
          BY <3>4, <4>2
        <5> QED
          BY <3>4, <5>1
      <4>3. i <= Len(x) \/ i > Len(x)
        OBVIOUS
      <4> QED
        BY <4>1, <4>2, <4>3
    <3>7. x \o t \in Seq(Characters)
      BY <3>4
    <3> QED
      BY <3>3, <3>6, <3>7 DEF Without
  <2>2. n + 1 \in Nat
    OBVIOUS
  <2> QED
    BY <2>1, <2>2
<1>3. Len(a) \in T
  <2>1. Len(a) \in Nat
    OBVIOUS
  <2> HIDE DEF T
  <2> QED
    BY <1>1, <1>2, <2>1, Induction
<1> QED
  BY <1>3

LEMMA PlainTokensDecode ==
  ASSUME PlainTokens, NEW a \in Seq(Tokens)
  PROVE  PlainText(Decode(a))
  BY DecodeWithout DEF PlainTokens, PlainText, Without

\* No letter that was captured is lost or moved when the text goes on.
LettersStay ==
  \A a, b \in Seq(Tokens) : IsPrefix(FirstLetters(Decode(a)), FirstLetters(Decode(a \o b)))

\* With a vocabulary that has no code and no tags, decoding more tokens takes
\* back no letter the extractor has captured.
THEOREM PlainLettersStay == PlainTokens => LettersStay
<1> SUFFICES ASSUME PlainTokens, NEW a \in Seq(Tokens), NEW b \in Seq(Tokens)
             PROVE  IsPrefix(FirstLetters(Decode(a)), FirstLetters(Decode(a \o b)))
  BY DEF LettersStay
<1>1. PICK s \in Seq(Characters) : s = Decode(a) /\ PlainText(s)
  BY PlainTokensDecode DEF PlainText
<1>2. PICK v \in Seq(Characters) : v = Decode(b) /\ Decode(a \o b) = s \o v
  BY <1>1, DecodeType, DecodeJoin
<1>3. a \o b \in Seq(Tokens)
  OBVIOUS
<1>4. PlainText(s \o v)
  BY <1>2, <1>3, PlainTokensDecode
<1>5. /\ FirstLetters(s) = LettersUpTo(s, LetterPlaces(s))[Len(s)]
      /\ FirstLetters(s \o v) = LettersUpTo(s \o v, LetterPlaces(s \o v))[Len(s \o v)]
  <2>1. Preprocess(s) = s /\ Preprocess(s \o v) = s \o v
    BY <1>1, <1>4, PreprocessPlain
  <2> QED
    BY <2>1, FirstLettersAre
<1> QED
  BY <1>1, <1>2, <1>5, LettersStayPlain

-----------------------------------------------------------------------------
(***************************************************************************)
(* A letter dealt with: _resolve.                                          *)
(***************************************************************************)
\* A fold, letter by letter.
Along(kind, start, s) ==
  /\ Folded(kind, start, SubSeq(s, 1, 0)) = start
  /\ \A n \in Nat : n + 1 <= Len(s) =>
       Folded(kind, start, SubSeq(s, 1, n + 1))
         = FoldBy(kind, Folded(kind, start, SubSeq(s, 1, n)), s[n + 1])
  /\ SubSeq(s, 1, Len(s)) = s

LEMMA FoldedAlong ==
  ASSUME NEW V, NEW s \in Seq(V)
  PROVE  \A kind, start : Along(kind, start, s)
<1> SUFFICES ASSUME NEW kind, NEW start PROVE Along(kind, start, s)
  OBVIOUS
<1>1. CASE s = << >>
  <2>1. SubSeq(s, 1, 0) = << >> /\ Len(s) = 0
    BY <1>1
  <2>2. \A n \in Nat : ~(n + 1 <= Len(s))
    BY <2>1
  <2>3. PICK x : x \in {start}
    OBVIOUS
  <2>4. << >> \in Seq({x})
    OBVIOUS
  <2>5. Folded(kind, start, << >>) = start
    BY <2>4, FoldedAppend
  <2> QED
    BY <1>1, <2>1, <2>2, <2>5 DEF Along
<1>2. CASE s # << >>
  <2>1. PICK x \in V : x = s[1]
    BY <1>2
  <2>2. << >> \in Seq(V) /\ SubSeq(s, 1, 0) = << >> /\ SubSeq(s, 1, Len(s)) = s
    OBVIOUS
  <2>3. Folded(kind, start, << >>) = start
    BY <2>1, <2>2, FoldedAppend
  <2>4. ASSUME NEW n \in Nat, n + 1 <= Len(s)
        PROVE  Folded(kind, start, SubSeq(s, 1, n + 1))
                 = FoldBy(kind, Folded(kind, start, SubSeq(s, 1, n)), s[n + 1])
    <3>1. SubSeq(s, 1, n) \in Seq(V) /\ s[n + 1] \in V
      BY <2>4
    <3>2. SubSeq(s, 1, n + 1) = Append(SubSeq(s, 1, n), s[n + 1])
      BY <2>4
    <3>3. PICK p \in Seq(V), y \in V : p = SubSeq(s, 1, n) /\ y = s[n + 1]
      BY <3>1
    <3>4. Folded(kind, start, Append(p, y)) = FoldBy(kind, Folded(kind, start, p), y)
      BY FoldedAppend
    <3> QED
      BY <3>2, <3>3, <3>4
  <2> QED
    BY <2>2, <2>3, <2>4 DEF Along
<1> QED
  BY <1>1, <1>2

CountIn(trace, outcome) == Cardinality({i \in 1..Len(trace) : trace[i] = outcome})

LEMMA CountAppend ==
  ASSUME NEW trace \in Seq(Outcomes), NEW new \in Outcomes, NEW outcome
  PROVE  /\ CountIn(trace, outcome) \in Nat
         /\ CountIn(Append(trace, new), outcome)
              = IF new = outcome THEN CountIn(trace, outcome) + 1 ELSE CountIn(trace, outcome)
<1> DEFINE n == Len(trace)
           S == {i \in 1..n : trace[i] = outcome}
           u == Append(trace, new)
<1>1. /\ n \in Nat /\ Len(u) = n + 1 /\ u[n + 1] = new /\ \A i \in 1..n : u[i] = trace[i]
      /\ \A i : i \in 1..(n + 1) <=> i \in 1..n \/ i = n + 1
      /\ n + 1 \notin 1..n
  OBVIOUS
<1> HIDE DEF u
<1>2. {i \in 1..Len(u) : u[i] = outcome} = IF new = outcome THEN S \cup {n + 1} ELSE S
  BY <1>1
<1>3. IsFiniteSet(S)
  <2>1. IsFiniteSet(1..n)
    BY <1>1, FS_Interval
  <2>2. S \in SUBSET (1..n)
    OBVIOUS
  <2> HIDE DEF S, n
  <2> QED
    BY <2>1, <2>2, FS_Subset
<1>4. n + 1 \notin S
  BY <1>1
<1> HIDE DEF S, n
<1>5. Cardinality(S) \in Nat /\ Cardinality(S \cup {n + 1}) = Cardinality(S) + 1
  BY <1>3, <1>4, FS_CardinalityType, FS_AddElement
<1> QED
  BY <1>2, <1>5 DEF CountIn, S, n, u

LEMMA CountOfIs == \A c, outcome : CountOf(c, outcome) = CountIn(c.trace, outcome)
  BY DEF CountOf, CountIn

\* What dealing with a letter leaves alone.
Kept(c, d) == /\ d.processed = c.processed /\ d.text = c.text
              /\ d.resolved = c.resolved /\ d.prefixTokens = c.prefixTokens
              /\ CountOf(d, "skip_max_prefix") = CountOf(c, "skip_max_prefix")

LEMMA ControllerParts ==
  ASSUME NEW c \in ControllerType
  PROVE  /\ c.processed \in 0..MaxTokens /\ c.text \in Seq(Characters)
         /\ c.target \in 0..Len(Secret) /\ c.failStreak \in 0..MaxFailStreak - 1
         /\ c.resolved \in Nat /\ c.prefixTokens \in 0..MaxPrefixTokens
         /\ c.trace \in Seq(Outcomes)
  BY DEF ControllerType

\* The fields a letter changes.
Dealt(c, target, streak, outcome) ==
  [c EXCEPT !.target = target, !.failStreak = streak, !.trace = Append(@, outcome)]

LEMMA DealtType ==
  ASSUME NEW c \in ControllerType, NEW target \in 0..Len(Secret),
         NEW streak \in 0..MaxFailStreak - 1, NEW outcome \in Outcomes \ {"skip_max_prefix"}
  PROVE  /\ Dealt(c, target, streak, outcome) \in ControllerType
         /\ Kept(c, Dealt(c, target, streak, outcome))
         /\ Dealt(c, target, streak, outcome).target = target
         /\ Dealt(c, target, streak, outcome).failStreak = streak
         /\ Dealt(c, target, streak, outcome).trace = Append(c.trace, outcome)
<1> DEFINE d == Dealt(c, target, streak, outcome)
<1>1. c.trace \in Seq(Outcomes)
  BY ControllerParts
<1>2. Append(c.trace, outcome) \in Seq(Outcomes)
  BY <1>1
<1>3. /\ d.processed = c.processed /\ d.text = c.text /\ d.resolved = c.resolved
      /\ d.prefixTokens = c.prefixTokens /\ d.target = target /\ d.failStreak = streak
      /\ d.trace = Append(c.trace, outcome)
  BY DEF Dealt, ControllerType
<1>4. d \in ControllerType
  BY <1>2 DEF Dealt, ControllerType
<1> HIDE DEF d
<1>5. CountOf(d, "skip_max_prefix") = CountOf(c, "skip_max_prefix")
  <2>1. outcome \in Outcomes /\ outcome # "skip_max_prefix"
    OBVIOUS
  <2>2. PICK trace \in Seq(Outcomes) : trace = c.trace
    BY <1>1
  <2>3. CountIn(Append(trace, outcome), "skip_max_prefix") = CountIn(trace, "skip_max_prefix")
    BY <2>1, CountAppend
  <2>4. d.trace = Append(trace, outcome)
    BY <1>3, <2>2
  <2> QED
    BY <2>2, <2>3, <2>4, CountOfIs
<1> QED
  BY <1>3, <1>4, <1>5 DEF Kept, d

LEMMA SecretParts ==
  /\ Len(Secret) \in Nat \ {0}
  /\ MaxFailStreak \in Nat \ {0} /\ MaxPrefixTokens \in Nat \ {0} /\ MaxTokens \in Nat
  /\ \A c \in ControllerType : ~Exhausted(c) =>
       c.target + 1 \in 1..Len(Secret) /\ Wanted(c) \in Letters
<1>1. Len(Secret) \in Nat \ {0} /\ \A i \in 1..Len(Secret) : Secret[i] \in Letters
  BY SecretAssumption
<1>2. MaxFailStreak \in Nat \ {0} /\ MaxPrefixTokens \in Nat \ {0} /\ MaxTokens \in Nat
  BY StreakAssumption, BoundsAssumption
<1>3. ASSUME NEW c \in ControllerType, ~Exhausted(c)
      PROVE  c.target + 1 \in 1..Len(Secret) /\ Wanted(c) \in Letters
  <2>1. c.target \in 0..Len(Secret) /\ ~(c.target >= Len(Secret))
    BY <1>3, ControllerParts DEF Exhausted
  <2>2. c.target + 1 \in 1..Len(Secret)
    BY <1>1, <2>1
  <2> QED
    BY <1>1, <2>2 DEF Wanted
<1> QED
  BY <1>1, <1>2, <1>3

\* The four things that happen to a letter.
LEMMA ResolveCases ==
  ASSUME NEW c \in ControllerType, NEW letter
  PROVE  \/ Exhausted(c) /\ Resolve(c, letter) = c
         \/ /\ ~Exhausted(c) /\ letter = Wanted(c)
            /\ Resolve(c, letter) = Dealt(c, c.target + 1, 0, "hit")
         \/ /\ ~Exhausted(c) /\ letter # Wanted(c) /\ c.failStreak + 1 >= MaxFailStreak
            /\ Resolve(c, letter) = Dealt(c, c.target + 1, 0, "skip")
         \/ /\ ~Exhausted(c) /\ letter # Wanted(c) /\ ~(c.failStreak + 1 >= MaxFailStreak)
            /\ Resolve(c, letter) = Dealt(c, c.target, c.failStreak + 1, "miss")
<1>1. CASE Exhausted(c)
  BY <1>1 DEF Resolve
<1>2. CASE ~Exhausted(c) /\ letter = Wanted(c)
  BY <1>2 DEF Resolve, Dealt
<1>3. CASE ~Exhausted(c) /\ letter # Wanted(c) /\ c.failStreak + 1 >= MaxFailStreak
  BY <1>3 DEF Resolve, Dealt
<1>4. CASE ~Exhausted(c) /\ letter # Wanted(c) /\ ~(c.failStreak + 1 >= MaxFailStreak)
  <2>1. c.target = c.target
    OBVIOUS
  <2>2. [c EXCEPT !.failStreak = @ + 1, !.trace = Append(@, "miss")]
          = [c EXCEPT !.target = c.target, !.failStreak = c.failStreak + 1,
                      !.trace = Append(@, "miss")]
    BY DEF ControllerType
  <2> QED
    BY <1>4, <2>2 DEF Resolve, Dealt
<1> QED
  BY <1>1, <1>2, <1>3, <1>4

LEMMA ResolveType ==
  ASSUME NEW c \in ControllerType, NEW letter
  PROVE  Resolve(c, letter) \in ControllerType /\ Kept(c, Resolve(c, letter))
<1>1. c.target \in 0..Len(Secret) /\ c.failStreak \in 0..MaxFailStreak - 1
  BY ControllerParts
<1>2. {"hit", "skip", "miss"} \subseteq Outcomes \ {"skip_max_prefix"}
  BY DEF Outcomes
<1>3. CASE Exhausted(c)
  BY <1>3 DEF Resolve, Kept
<1>4. CASE ~Exhausted(c)
  <2>1. c.target + 1 \in 0..Len(Secret) /\ 0 \in 0..MaxFailStreak - 1
    BY <1>1, <1>4, SecretParts
  <2>2. ~(c.failStreak + 1 >= MaxFailStreak) => c.failStreak + 1 \in 0..MaxFailStreak - 1
    BY <1>1, SecretParts
  <2> DEFINE Fine(d) == d \in ControllerType /\ Kept(c, d)
  <2>3. /\ Fine(Dealt(c, c.target + 1, 0, "hit")) /\ Fine(Dealt(c, c.target + 1, 0, "skip"))
    BY <1>2, <2>1, DealtType
  <2>4. ~(c.failStreak + 1 >= MaxFailStreak) => Fine(Dealt(c, c.target, c.failStreak + 1, "miss"))
    <3>1. "miss" \in Outcomes \ {"skip_max_prefix"}
      BY <1>2
    <3>2. ASSUME NEW streak \in 0..MaxFailStreak - 1
          PROVE  Fine(Dealt(c, c.target, streak, "miss"))
      BY <1>1, <3>1, DealtType
    <3> HIDE DEF Fine
    <3> QED
      BY <2>2, <3>2
  <2> HIDE DEF Fine
  <2>5. Fine(Resolve(c, letter))
    BY <1>4, <2>3, <2>4, ResolveCases
  <2> QED
    BY <2>5 DEF Fine
<1> QED
  BY <1>3, <1>4

LEMMA FoldedType ==
  ASSUME NEW c \in ControllerType, NEW s \in Seq(Characters), NEW n \in 0..Len(s)
  PROVE  /\ Folded("resolve", c, SubSeq(s, 1, n)) \in ControllerType
         /\ Kept(c, Folded("resolve", c, SubSeq(s, 1, n)))
<1> DEFINE f(k) == Folded("resolve", c, SubSeq(s, 1, k))
           Fine(k) == f(k) \in ControllerType /\ Kept(c, f(k))
           T == {k \in Nat : k <= Len(s) => Fine(k)}
<1>1. f(0) = c /\ \A k \in Nat : k + 1 <= Len(s) => f(k + 1) = Resolve(f(k), s[k + 1])
  <2>4. /\ Folded("resolve", c, SubSeq(s, 1, 0)) = c
        /\ \A k \in Nat : k + 1 <= Len(s) =>
             Folded("resolve", c, SubSeq(s, 1, k + 1))
               = FoldBy("resolve", Folded("resolve", c, SubSeq(s, 1, k)), s[k + 1])
    <3>1. Along("resolve", c, s)
      BY FoldedAlong, Zenon
    <3> QED
      BY <3>1 DEF Along
  <2>1. \A k \in Nat : k + 1 <= Len(s) => f(k + 1) = FoldBy("resolve", f(k), s[k + 1])
    BY <2>4
  <2>2. \A a, l : FoldBy("resolve", a, l) = Resolve(a, l)
    BY DEF FoldBy
  <2>3. f(0) = c
    BY <2>4
  <2> HIDE DEF f
  <2> QED
    BY <2>1, <2>2, <2>3
<1> HIDE DEF f
<1>2. 0 \in T
  BY <1>1 DEF Kept
<1>3. ASSUME NEW k \in Nat, k \in T PROVE k + 1 \in T
  <2>1. ASSUME k + 1 <= Len(s) PROVE Fine(k + 1)
    <3>1. Fine(k)
      BY <1>3, <2>1
    <3>2. f(k + 1) \in ControllerType /\ Kept(f(k), f(k + 1))
      BY <1>1, <2>1, <3>1, ResolveType
    <3> QED
      BY <3>1, <3>2 DEF Kept
  <2>2. k + 1 \in Nat
    OBVIOUS
  <2> HIDE DEF Fine
  <2> QED
    BY <2>1, <2>2
<1>4. n \in T
  <2> HIDE DEF T
  <2> QED
    BY <1>2, <1>3, Induction
<1>5. Fine(n)
  <2> HIDE DEF Fine
  <2> QED
    BY <1>4
<1> QED
  BY <1>5 DEF f

-----------------------------------------------------------------------------
(***************************************************************************)
(* Types: update_with_past and get_bias_letter give a controller again.    *)
(***************************************************************************)
\* What update_with_past makes of new tokens.
Updated(c, ids, text, letters, after, u) ==
  /\ text = c.text \o Decode(SubSeq(ids, c.processed + 1, Len(ids)))
  /\ letters = FirstLetters(text)
  /\ after = Folded("resolve", c, Fresh(c, letters))
  /\ Kept(c, after)
  /\ u.processed = Len(ids) /\ u.text = text /\ u.resolved = Len(letters)
  /\ u.target = after.target /\ u.failStreak = after.failStreak
  /\ u.prefixTokens = c.prefixTokens /\ u.trace = after.trace

LEMMA FreshType ==
  ASSUME NEW c \in ControllerType, NEW letters \in Seq(Characters)
  PROVE  /\ Fresh(c, letters) \in Seq(Characters)
         /\ Len(Fresh(c, letters)) = IF c.resolved >= Len(letters) THEN 0
                                     ELSE Len(letters) - c.resolved
         /\ \A i \in 1..Len(Fresh(c, letters)) : Fresh(c, letters)[i] = letters[c.resolved + i]
<1>1. PICK r \in Nat : r = c.resolved
  BY ControllerParts
<1>2. Len(letters) \in Nat
  OBVIOUS
<1>3. CASE r >= Len(letters)
  <2>1. SubSeq(letters, r + 1, Len(letters)) = << >>
    BY <1>2, <1>3
  <2>2. << >> \in Seq(Characters) /\ Len(<< >>) = 0
    OBVIOUS
  <2> QED
    BY <1>1, <1>3, <2>1, <2>2 DEF Fresh
<1>4. CASE ~(r >= Len(letters))
  <2>1. /\ SubSeq(letters, r + 1, Len(letters)) \in Seq(Characters)
        /\ Len(SubSeq(letters, r + 1, Len(letters))) = Len(letters) - r
        /\ \A i \in 1..(Len(letters) - r) : SubSeq(letters, r + 1, Len(letters))[i] = letters[r + i]
    BY <1>2, <1>4
  <2> QED
    BY <1>1, <1>4, <2>1 DEF Fresh
<1> QED
  BY <1>3, <1>4

LEMMA UpdateParts ==
  ASSUME NEW c \in ControllerType, NEW ids \in Seq(Tokens),
         Len(ids) <= MaxTokens, ~(Len(ids) <= c.processed)
  PROVE  \E text, letters \in Seq(Characters) : \E after \in ControllerType :
           Updated(c, ids, text, letters, after, UpdateWithPast(c, ids))
<1>1. c.processed \in Nat /\ c.text \in Seq(Characters) /\ Len(ids) \in 0..MaxTokens
  BY ControllerParts
<1>2. SubSeq(ids, c.processed + 1, Len(ids)) \in Seq(Tokens)
  BY <1>1
<1>3. Decode(SubSeq(ids, c.processed + 1, Len(ids))) \in Seq(Characters)
  BY <1>2, DecodeType
<1>4. PICK text \in Seq(Characters) :
        text = c.text \o Decode(SubSeq(ids, c.processed + 1, Len(ids)))
  <2>1. PICK x \in Seq(Characters) : x = c.text
    BY <1>1
  <2>2. PICK y \in Seq(Characters) : y = Decode(SubSeq(ids, c.processed + 1, Len(ids)))
    BY <1>3
  <2>3. x \o y \in Seq(Characters)
    OBVIOUS
  <2> QED
    BY <2>1, <2>2, <2>3
<1>5. PICK letters \in Seq(Characters) : letters = FirstLetters(text)
  BY FirstLettersType
<1>6. PICK fresh \in Seq(Characters) : fresh = Fresh(c, letters)
  BY FreshType
<1>7. Len(fresh) \in 0..Len(fresh) /\ SubSeq(fresh, 1, Len(fresh)) = fresh
  OBVIOUS
<1>8. Folded("resolve", c, fresh) \in ControllerType /\ Kept(c, Folded("resolve", c, fresh))
  <2>1. /\ Folded("resolve", c, SubSeq(fresh, 1, Len(fresh))) \in ControllerType
        /\ Kept(c, Folded("resolve", c, SubSeq(fresh, 1, Len(fresh))))
    BY <1>7, FoldedType
  <2> QED
    BY <1>7, <2>1
<1>9. PICK after \in ControllerType : after = Folded("resolve", c, fresh)
  BY <1>8
<1>10. UpdateWithPast(c, ids) = [after EXCEPT !.processed = Len(ids), !.text = text,
                                              !.resolved = Len(letters)]
  <2>1. FoldLeft(Resolve, c, fresh) = after
    BY <1>9, FoldsAre
  <2> QED
    BY <1>4, <1>5, <1>6, <2>1 DEF UpdateWithPast
<1>11. /\ UpdateWithPast(c, ids).processed = Len(ids)
       /\ UpdateWithPast(c, ids).text = text
       /\ UpdateWithPast(c, ids).resolved = Len(letters)
       /\ UpdateWithPast(c, ids).target = after.target
       /\ UpdateWithPast(c, ids).failStreak = after.failStreak
       /\ UpdateWithPast(c, ids).prefixTokens = after.prefixTokens
       /\ UpdateWithPast(c, ids).trace = after.trace
  BY <1>10 DEF ControllerType
<1>12. after.prefixTokens = c.prefixTokens /\ Kept(c, after)
  BY <1>8, <1>9 DEF Kept
<1>13. Updated(c, ids, text, letters, after, UpdateWithPast(c, ids))
  BY <1>4, <1>5, <1>6, <1>9, <1>11, <1>12 DEF Updated
<1> QED
  BY <1>13

LEMMA UpdateType ==
  ASSUME NEW c \in ControllerType, NEW ids \in Seq(Tokens), Len(ids) <= MaxTokens
  PROVE  UpdateWithPast(c, ids) \in ControllerType
<1>1. CASE Len(ids) <= c.processed
  BY <1>1 DEF UpdateWithPast
<1>2. CASE ~(Len(ids) <= c.processed)
  <2> DEFINE text == c.text \o Decode(SubSeq(ids, c.processed + 1, Len(ids)))
             letters == FirstLetters(text)
             after == FoldLeft(Resolve, c, Fresh(c, letters))
  <2>1. c.processed \in Nat /\ c.text \in Seq(Characters) /\ Len(ids) \in 0..MaxTokens
    BY ControllerParts
  <2>2. SubSeq(ids, c.processed + 1, Len(ids)) \in Seq(Tokens)
    BY <2>1
  <2>3. text \in Seq(Characters)
    <3>1. PICK x \in Seq(Characters) : x = c.text
      BY <2>1
    <3>2. PICK y \in Seq(Characters) : y = Decode(SubSeq(ids, c.processed + 1, Len(ids)))
      BY <2>2, DecodeType
    <3>3. x \o y \in Seq(Characters)
      OBVIOUS
    <3> QED
      BY <3>1, <3>2, <3>3
  <2>4. UpdateWithPast(c, ids)
          = [after EXCEPT !.processed = Len(ids), !.text = text, !.resolved = Len(letters)]
    BY <1>2 DEF UpdateWithPast
  <2> HIDE DEF text
  <2>5. letters \in Seq(Characters)
    BY <2>3, FirstLettersType
  <2> HIDE DEF letters
  <2>6. after \in ControllerType
    <3>1. PICK fresh \in Seq(Characters) : fresh = Fresh(c, letters)
      BY <2>5, FreshType
    <3>2. Len(fresh) \in 0..Len(fresh) /\ SubSeq(fresh, 1, Len(fresh)) = fresh
      OBVIOUS
    <3>3. Folded("resolve", c, SubSeq(fresh, 1, Len(fresh))) \in ControllerType
      BY <3>2, FoldedType
    <3> QED
      BY <3>1, <3>2, <3>3, FoldsAre
  <2> HIDE DEF after
  <2>7. Len(letters) \in Nat
    BY <2>5
  <2> QED
    BY <2>1, <2>3, <2>4, <2>6, <2>7 DEF ControllerType
<1> QED
  BY <1>1, <1>2

\* The outcomes of get_bias_letter.
Prefixed(c, n) == [c EXCEPT !.prefixTokens = n]
GivenUp(c) == [c EXCEPT !.target = @ + 1, !.failStreak = 0, !.prefixTokens = 1,
                        !.trace = Append(@, "skip_max_prefix")]

LEMMA QueryCases ==
  ASSUME NEW c \in ControllerType
  PROVE  \/ Exhausted(c) /\ Query(c) = c
         \/ ~Exhausted(c) /\ ~IsPreLetter(c.text) /\ Query(c) = Prefixed(c, 0)
         \/ /\ ~Exhausted(c) /\ IsPreLetter(c.text) /\ c.prefixTokens + 1 > MaxPrefixTokens
            /\ Query(c) = GivenUp(c)
         \/ /\ ~Exhausted(c) /\ IsPreLetter(c.text) /\ ~(c.prefixTokens + 1 > MaxPrefixTokens)
            /\ Query(c) = Prefixed(c, c.prefixTokens + 1)
<1>1. [c EXCEPT !.prefixTokens = @ + 1] = Prefixed(c, c.prefixTokens + 1)
  BY DEF ControllerType, Prefixed
<1> QED
  BY <1>1 DEF Query, Prefixed, GivenUp

LEMMA PrefixedParts ==
  ASSUME NEW c \in ControllerType, NEW n \in 0..MaxPrefixTokens
  PROVE  /\ Prefixed(c, n) \in ControllerType
         /\ Prefixed(c, n).processed = c.processed /\ Prefixed(c, n).text = c.text
         /\ Prefixed(c, n).target = c.target /\ Prefixed(c, n).failStreak = c.failStreak
         /\ Prefixed(c, n).resolved = c.resolved /\ Prefixed(c, n).prefixTokens = n
         /\ Prefixed(c, n).trace = c.trace
  BY DEF Prefixed, ControllerType

LEMMA GivenUpParts ==
  ASSUME NEW c \in ControllerType, ~Exhausted(c)
  PROVE  /\ GivenUp(c) \in ControllerType
         /\ GivenUp(c).processed = c.processed /\ GivenUp(c).text = c.text
         /\ GivenUp(c).target = c.target + 1 /\ GivenUp(c).failStreak = 0
         /\ GivenUp(c).resolved = c.resolved /\ GivenUp(c).prefixTokens = 1
         /\ GivenUp(c).trace = Append(c.trace, "skip_max_prefix")
<1>1. "skip_max_prefix" \in Outcomes
  BY DEF Outcomes
<1>2. Append(c.trace, "skip_max_prefix") \in Seq(Outcomes)
  BY <1>1, ControllerParts
<1>3. c.target + 1 \in 0..Len(Secret) /\ 0 \in 0..MaxFailStreak - 1 /\ 1 \in 0..MaxPrefixTokens
  <2>1. c.target + 1 \in 1..Len(Secret)
    BY SecretParts
  <2>2. Len(Secret) \in Nat /\ MaxFailStreak \in Nat \ {0} /\ MaxPrefixTokens \in Nat \ {0}
    BY SecretParts
  <2> QED
    BY <2>1, <2>2
<1> QED
  BY <1>2, <1>3 DEF GivenUp, ControllerType

LEMMA QueryType ==
  ASSUME NEW c \in ControllerType
  PROVE  Query(c) \in ControllerType
<1>1. c.prefixTokens \in 0..MaxPrefixTokens /\ MaxPrefixTokens \in Nat \ {0}
  BY ControllerParts, SecretParts
<1>2. 0 \in 0..MaxPrefixTokens
      /\ (~(c.prefixTokens + 1 > MaxPrefixTokens) => c.prefixTokens + 1 \in 0..MaxPrefixTokens)
  BY <1>1
<1>3. Prefixed(c, 0) \in ControllerType
  BY <1>2, PrefixedParts
<1>4. ~(c.prefixTokens + 1 > MaxPrefixTokens) => Prefixed(c, c.prefixTokens + 1) \in ControllerType
  <2>1. \A n \in 0..MaxPrefixTokens : Prefixed(c, n) \in ControllerType
    BY PrefixedParts
  <2> QED
    BY <1>2, <2>1
<1>5. ~Exhausted(c) => GivenUp(c) \in ControllerType
  BY GivenUpParts
<1> QED
  BY <1>3, <1>4, <1>5, QueryCases

LEMMA BiasType ==
  ASSUME NEW c \in ControllerType
  PROVE  BiasLetter(c) \in Letters \cup {"none"}
  BY SecretParts DEF BiasLetter

LEMMA NewControllerType == NewController \in ControllerType
<1>1. << >> \in Seq(Characters) /\ << >> \in Seq(Outcomes)
  OBVIOUS
<1>2. Len(Secret) \in Nat /\ MaxFailStreak \in Nat \ {0} /\ MaxPrefixTokens \in Nat \ {0}
      /\ MaxTokens \in Nat
  BY SecretParts
<1>3. 0 \in 0..MaxTokens /\ 0 \in 0..Len(Secret) /\ 0 \in 0..MaxFailStreak - 1
      /\ 0 \in 0..MaxPrefixTokens /\ 0 \in Nat
  BY <1>2
<1> QED
  BY <1>1, <1>3 DEF NewController, ControllerType

Typed == TypeOK /\ Len(output) <= MaxTokens

LEMMA TypedSteps == Typed /\ [Next]_vars => Typed'
<1> SUFFICES ASSUME Typed, [Next]_vars PROVE Typed'
  OBVIOUS
<1>1. /\ output \in Seq(Tokens) /\ Len(output) <= MaxTokens /\ Len(output) \in Nat
      /\ bias \in Letters \cup {"ask", "none"} /\ replayBias \in Letters \cup {"ask", "none"}
      /\ ctrl \in ControllerType /\ replay \in ControllerType
      /\ preemptions \in 0..MaxPreemptions
  BY DEF Typed, TypeOK
<1>2. MaxTokens \in Nat /\ MaxPreemptions \in Nat
  BY BoundsAssumption
<1>3. CASE Apply
  <2>1. ctrl' \in ControllerType
    BY <1>1, <1>3, UpdateType, QueryType DEF Apply
  <2>2. bias' \in Letters \cup {"ask", "none"}
    BY <1>3, <2>1, BiasType DEF Apply
  <2>3. replay' \in ControllerType /\ replayBias' \in Letters \cup {"ask", "none"}
    <3>1. CASE UNCHANGED <<replay, replayBias>>
      BY <1>1, <3>1
    <3>2. CASE replay' = Query(UpdateWithPast(replay, output)) /\ replayBias' = BiasLetter(replay')
      <4>1. replay' \in ControllerType
        BY <1>1, <3>2, UpdateType, QueryType
      <4> QED
        BY <3>2, <4>1, BiasType
    <3> QED
      BY <1>3, <3>1, <3>2 DEF Apply, Replay
  <2>4. UNCHANGED <<output, preemptions>>
    BY <1>3 DEF Apply
  <2> QED
    BY <1>1, <2>1, <2>2, <2>3, <2>4 DEF Typed, TypeOK
<1>4. ASSUME NEW t \in Tokens, Sample(t) PROVE Typed'
  <2>1. output' = Append(output, t) /\ Len(output) < MaxTokens /\ bias' = "ask"
        /\ UNCHANGED <<ctrl, replay, replayBias, preemptions>>
    BY <1>4 DEF Sample
  <2>2. output' \in Seq(Tokens) /\ Len(output') <= MaxTokens
    BY <1>1, <1>2, <2>1
  <2> QED
    BY <1>1, <2>1, <2>2 DEF Typed, TypeOK
<1>5. CASE Preempt
  <2>1. preemptions' = preemptions + 1 /\ preemptions < MaxPreemptions
        /\ ctrl' = NewController /\ UNCHANGED <<output, bias, replay, replayBias>>
    BY <1>5 DEF Preempt
  <2>2. preemptions' \in 0..MaxPreemptions
    BY <1>1, <1>2, <2>1
  <2> QED
    BY <1>1, <2>1, <2>2, NewControllerType DEF Typed, TypeOK
<1>6. CASE UNCHANGED vars
  BY <1>1, <1>6 DEF Typed, TypeOK, vars
<1>7. CASE Finished
  BY <1>6, <1>7 DEF Finished
<1> QED
  BY <1>3, <1>4, <1>5, <1>6, <1>7 DEF Next

LEMMA TypedInit == Init => Typed
<1> SUFFICES ASSUME Init PROVE Typed
  OBVIOUS
<1>1. << >> \in Seq(Tokens) /\ Len(<< >>) = 0
  OBVIOUS
<1>2. MaxTokens \in Nat /\ MaxPreemptions \in Nat
  BY BoundsAssumption
<1>3. 0 <= MaxTokens /\ 0 \in 0..MaxPreemptions
  BY <1>2
<1> QED
  BY <1>1, <1>3, NewControllerType DEF Init, Typed, TypeOK

LEMMA AlwaysTyped == Spec => []Typed
  BY TypedInit, TypedSteps, PTL DEF Spec

\* Every state is well typed: a target within the secret, a streak below
\* MaxFailStreak, at most MaxPrefixTokens tokens counted in a prefix.
THEOREM AcrosticsTypeCorrect == Spec => []TypeOK
<1>1. Typed => TypeOK
  BY DEF Typed
<1> QED
  BY <1>1, AlwaysTyped, PTL

-----------------------------------------------------------------------------
(***************************************************************************)
(* The controller and the detector, letter by letter.                      *)
(***************************************************************************)
WalkType == [hits : Nat, skips : Nat, target : Nat, fails : Nat]
WalkStart == [hits |-> 0, skips |-> 0, target |-> 0, fails |-> 0]
Walked(letters, n) == Folded("walk", WalkStart, SubSeq(letters, 1, n))

\* The four things the detector does with a letter.
LEMMA WalkCases ==
  ASSUME NEW w \in WalkType, NEW letter
  PROVE  /\ WalkStep(w, letter) \in WalkType
         /\ \/ w.target >= Len(Secret) /\ WalkStep(w, letter) = w
            \/ /\ ~(w.target >= Len(Secret)) /\ letter = Secret[w.target + 1]
               /\ WalkStep(w, letter).hits = w.hits + 1
               /\ WalkStep(w, letter).skips = w.skips
               /\ WalkStep(w, letter).target = w.target + 1
               /\ WalkStep(w, letter).fails = 0
            \/ /\ ~(w.target >= Len(Secret)) /\ letter # Secret[w.target + 1]
               /\ w.fails + 1 >= MaxFailStreak
               /\ WalkStep(w, letter).hits = w.hits
               /\ WalkStep(w, letter).skips = w.skips + 1
               /\ WalkStep(w, letter).target = w.target + 1
               /\ WalkStep(w, letter).fails = 0
            \/ /\ ~(w.target >= Len(Secret)) /\ letter # Secret[w.target + 1]
               /\ ~(w.fails + 1 >= MaxFailStreak)
               /\ WalkStep(w, letter).hits = w.hits
               /\ WalkStep(w, letter).skips = w.skips
               /\ WalkStep(w, letter).target = w.target
               /\ WalkStep(w, letter).fails = w.fails + 1
<1>1. CASE w.target >= Len(Secret)
  BY <1>1 DEF WalkStep
<1>2. CASE ~(w.target >= Len(Secret)) /\ letter = Secret[w.target + 1]
  <2>1. WalkStep(w, letter) = [w EXCEPT !.hits = @ + 1, !.target = @ + 1, !.fails = 0]
    BY <1>2 DEF WalkStep
  <2>2. w.hits \in Nat /\ w.target \in Nat /\ w = [w EXCEPT !.fails = @]
    BY DEF WalkType
  <2>3. PICK x \in Nat, y \in Nat : x = w.hits + 1 /\ y = w.target + 1
    BY <2>2
  <2>4. WalkStep(w, letter) = [w EXCEPT !.hits = x, !.target = y, !.fails = 0]
    BY <2>1, <2>3 DEF WalkType
  <2>5. LET v == [w EXCEPT !.hits = x, !.target = y, !.fails = 0]
        IN  /\ v \in WalkType /\ v.target = y /\ v.fails = 0 /\ v.hits = x
            /\ v.skips = w.skips
    BY DEF WalkType
  <2> QED
    BY <1>2, <2>3, <2>4, <2>5
<1>3. CASE ~(w.target >= Len(Secret)) /\ letter # Secret[w.target + 1]
           /\ w.fails + 1 >= MaxFailStreak
  <2>1. WalkStep(w, letter) = [w EXCEPT !.skips = @ + 1, !.target = @ + 1, !.fails = 0]
    BY <1>3 DEF WalkStep
  <2>2. w.skips \in Nat /\ w.target \in Nat /\ w = [w EXCEPT !.fails = @]
    BY DEF WalkType
  <2>3. PICK x \in Nat, y \in Nat : x = w.skips + 1 /\ y = w.target + 1
    BY <2>2
  <2>4. WalkStep(w, letter) = [w EXCEPT !.skips = x, !.target = y, !.fails = 0]
    BY <2>1, <2>3 DEF WalkType
  <2>5. LET v == [w EXCEPT !.skips = x, !.target = y, !.fails = 0]
        IN  /\ v \in WalkType /\ v.target = y /\ v.fails = 0 /\ v.skips = x
            /\ v.hits = w.hits
    BY DEF WalkType
  <2> QED
    BY <1>3, <2>3, <2>4, <2>5
<1>4. CASE ~(w.target >= Len(Secret)) /\ letter # Secret[w.target + 1]
           /\ ~(w.fails + 1 >= MaxFailStreak)
  <2>1. WalkStep(w, letter) = [w EXCEPT !.fails = @ + 1]
    BY <1>4 DEF WalkStep
  <2> QED
    BY <1>4, <2>1 DEF WalkType
<1> QED
  BY <1>1, <1>2, <1>3, <1>4

LEMMA WalkStarts == WalkStart \in WalkType
  BY DEF WalkStart, WalkType

\* The controller and the detector have seen the same.
Matches(c, w) ==
  /\ w.hits = CountOf(c, "hit") /\ w.skips = CountOf(c, "skip")
  /\ w.target = c.target /\ w.fails = c.failStreak

LEMMA DealtCounts ==
  ASSUME NEW c \in ControllerType, NEW d \in ControllerType, NEW new \in Outcomes,
         d.trace = Append(c.trace, new)
  PROVE  \A outcome :
           /\ CountOf(c, outcome) \in Nat
           /\ CountOf(d, outcome) = IF new = outcome THEN CountOf(c, outcome) + 1
                                    ELSE CountOf(c, outcome)
<1>1. PICK trace \in Seq(Outcomes) : trace = c.trace
  BY ControllerParts
<1>2. \A outcome : CountIn(trace, outcome) \in Nat
        /\ CountIn(Append(trace, new), outcome)
             = IF new = outcome THEN CountIn(trace, outcome) + 1 ELSE CountIn(trace, outcome)
  BY CountAppend
<1>3. d.trace = Append(trace, new)
  BY <1>1
<1> QED
  BY <1>1, <1>2, <1>3, CountOfIs

LEMMA DealtFully ==
  ASSUME NEW c \in ControllerType, NEW target \in 0..Len(Secret),
         NEW streak \in 0..MaxFailStreak - 1, NEW outcome \in {"hit", "skip", "miss"}
  PROVE  LET d == Dealt(c, target, streak, outcome)
         IN  /\ d \in ControllerType /\ d.target = target /\ d.failStreak = streak
             /\ CountOf(c, "hit") \in Nat /\ CountOf(c, "skip") \in Nat
             /\ CountOf(d, "hit") = IF outcome = "hit" THEN CountOf(c, "hit") + 1
                                    ELSE CountOf(c, "hit")
             /\ CountOf(d, "skip") = IF outcome = "skip" THEN CountOf(c, "skip") + 1
                                     ELSE CountOf(c, "skip")
<1> DEFINE d == Dealt(c, target, streak, outcome)
<1>1. outcome \in Outcomes \ {"skip_max_prefix"}
  BY DEF Outcomes
<1>2. d \in ControllerType /\ d.target = target /\ d.failStreak = streak
      /\ d.trace = Append(c.trace, outcome)
  BY <1>1, DealtType
<1> HIDE DEF d
<1>3. outcome \in Outcomes
  BY <1>1
<1>4. \A o : /\ CountOf(c, o) \in Nat
             /\ CountOf(d, o) = IF outcome = o THEN CountOf(c, o) + 1 ELSE CountOf(c, o)
  BY <1>2, <1>3, DealtCounts
<1>5. /\ CountOf(c, "hit") \in Nat /\ CountOf(c, "skip") \in Nat
      /\ CountOf(d, "hit") = IF outcome = "hit" THEN CountOf(c, "hit") + 1
                             ELSE CountOf(c, "hit")
      /\ CountOf(d, "skip") = IF outcome = "skip" THEN CountOf(c, "skip") + 1
                              ELSE CountOf(c, "skip")
  BY <1>4
<1> QED
  BY <1>2, <1>5 DEF d

LEMMA DealtMiss ==
  ASSUME NEW c \in ControllerType, NEW target \in 0..Len(Secret),
         NEW streak \in 0..MaxFailStreak - 1
  PROVE  LET d == Dealt(c, target, streak, "miss")
         IN  /\ d.target = target /\ d.failStreak = streak
             /\ CountOf(d, "hit") = CountOf(c, "hit")
             /\ CountOf(d, "skip") = CountOf(c, "skip")
  BY DealtFully

\* One letter later they still have.
LEMMA MatchesStep ==
  ASSUME NEW c \in ControllerType, NEW w \in WalkType, Matches(c, w), NEW letter
  PROVE  Matches(Resolve(c, letter), WalkStep(w, letter))
<1>1. c.target \in 0..Len(Secret) /\ c.failStreak \in 0..MaxFailStreak - 1
  BY ControllerParts
<1>2. w.target = c.target /\ w.fails = c.failStreak
      /\ w.hits = CountOf(c, "hit") /\ w.skips = CountOf(c, "skip")
  BY DEF Matches
<1>3. CASE Exhausted(c)
  <2>1. w.target >= Len(Secret)
    BY <1>2, <1>3 DEF Exhausted
  <2> QED
    BY <1>3, <2>1 DEF Resolve, WalkStep
<1>4. CASE ~Exhausted(c)
  <2>1. c.target + 1 \in 0..Len(Secret) /\ 0 \in 0..MaxFailStreak - 1
    BY <1>1, <1>4, SecretParts
  <2>2. ~(w.target >= Len(Secret)) /\ Wanted(c) = Secret[w.target + 1]
    BY <1>2, <1>4 DEF Exhausted, Wanted
  <2>3. CASE letter = Wanted(c)
    <3>1. Resolve(c, letter) = Dealt(c, c.target + 1, 0, "hit")
      BY <1>4, <2>3 DEF Resolve, Dealt
    <3>2. /\ Resolve(c, letter).target = c.target + 1 /\ Resolve(c, letter).failStreak = 0
          /\ CountOf(Resolve(c, letter), "hit") = CountOf(c, "hit") + 1
          /\ CountOf(Resolve(c, letter), "skip") = CountOf(c, "skip")
      BY <2>1, <3>1, DealtFully
    <3>3. /\ WalkStep(w, letter).hits = w.hits + 1 /\ WalkStep(w, letter).skips = w.skips
          /\ WalkStep(w, letter).target = w.target + 1 /\ WalkStep(w, letter).fails = 0
      BY <2>2, <2>3, WalkCases
    <3> QED
      BY <1>2, <3>2, <3>3 DEF Matches
  <2>4. CASE letter # Wanted(c) /\ c.failStreak + 1 >= MaxFailStreak
    <3>1. Resolve(c, letter) = Dealt(c, c.target + 1, 0, "skip")
      BY <1>4, <2>4 DEF Resolve, Dealt
    <3>2. /\ Resolve(c, letter).target = c.target + 1 /\ Resolve(c, letter).failStreak = 0
          /\ CountOf(Resolve(c, letter), "hit") = CountOf(c, "hit")
          /\ CountOf(Resolve(c, letter), "skip") = CountOf(c, "skip") + 1
      BY <2>1, <3>1, DealtFully
    <3>3. /\ WalkStep(w, letter).hits = w.hits /\ WalkStep(w, letter).skips = w.skips + 1
          /\ WalkStep(w, letter).target = w.target + 1 /\ WalkStep(w, letter).fails = 0
      <4>1. w.fails + 1 >= MaxFailStreak /\ letter # Secret[w.target + 1]
        BY <1>2, <2>2, <2>4
      <4> QED
        BY <2>2, <4>1, WalkCases
    <3> QED
      BY <1>2, <3>2, <3>3 DEF Matches
  <2>5. CASE letter # Wanted(c) /\ ~(c.failStreak + 1 >= MaxFailStreak)
    <3>1. Resolve(c, letter) = Dealt(c, c.target, c.failStreak + 1, "miss")
      BY <1>4, <2>5, ResolveCases
    <3>0. c.failStreak + 1 \in 0..MaxFailStreak - 1
      BY <1>1, <2>5, SecretParts
    <3>2. /\ Resolve(c, letter).target = c.target
          /\ Resolve(c, letter).failStreak = c.failStreak + 1
          /\ CountOf(Resolve(c, letter), "hit") = CountOf(c, "hit")
          /\ CountOf(Resolve(c, letter), "skip") = CountOf(c, "skip")
      <4>1. PICK streak \in 0..MaxFailStreak - 1 : streak = c.failStreak + 1
        BY <3>0
      <4>2. Resolve(c, letter) = Dealt(c, c.target, streak, "miss")
        BY <3>1, <4>1
      <4>3. c.target \in 0..Len(Secret)
        BY <1>1
      <4>4. LET d == Dealt(c, c.target, streak, "miss")
            IN  /\ d.target = c.target /\ d.failStreak = streak
                /\ CountOf(d, "hit") = CountOf(c, "hit")
                /\ CountOf(d, "skip") = CountOf(c, "skip")
        BY <4>3, DealtMiss
      <4> QED
        BY <4>1, <4>2, <4>4
    <3>3. /\ WalkStep(w, letter).hits = w.hits /\ WalkStep(w, letter).skips = w.skips
          /\ WalkStep(w, letter).target = w.target
          /\ WalkStep(w, letter).fails = w.fails + 1
      <4>1. ~(w.fails + 1 >= MaxFailStreak) /\ letter # Secret[w.target + 1]
        BY <1>2, <2>2, <2>5
      <4> QED
        BY <2>2, <4>1, WalkCases
    <3> QED
      BY <1>2, <3>2, <3>3 DEF Matches
  <2> QED
    BY <2>3, <2>4, <2>5
<1> QED
  BY <1>3, <1>4

LEMMA WalkedAlong ==
  ASSUME NEW letters \in Seq(Characters)
  PROVE  /\ DetectorWalk(letters) = Walked(letters, Len(letters))
         /\ Walked(letters, 0) = WalkStart
         /\ \A n \in Nat : n + 1 <= Len(letters) =>
              Walked(letters, n + 1) = WalkStep(Walked(letters, n), letters[n + 1])
         /\ \A n \in 0..Len(letters) : Walked(letters, n) \in WalkType
<1>0. Along("walk", WalkStart, letters)
  BY FoldedAlong, Zenon
<1>1. \A a, l : FoldBy("walk", a, l) = WalkStep(a, l)
  BY DEF FoldBy
<1>2. Walked(letters, 0) = WalkStart
  BY <1>0 DEF Along, Walked
<1>3. \A n \in Nat : n + 1 <= Len(letters) =>
        Walked(letters, n + 1) = WalkStep(Walked(letters, n), letters[n + 1])
  BY <1>0, <1>1 DEF Along, Walked
<1>4. DetectorWalk(letters) = Walked(letters, Len(letters))
  <2>1. SubSeq(letters, 1, Len(letters)) = letters
    OBVIOUS
  <2>2. DetectorWalk(letters) = Folded("walk", WalkStart, letters)
    BY FoldsAre DEF DetectorWalk, WalkStart
  <2> QED
    BY <2>1, <2>2 DEF Walked
<1> DEFINE T == {n \in Nat : n <= Len(letters) => Walked(letters, n) \in WalkType}
<1>5. 0 \in T
  BY <1>2, WalkStarts
<1>6. ASSUME NEW n \in Nat, n \in T PROVE n + 1 \in T
  <2>1. ASSUME n + 1 <= Len(letters) PROVE Walked(letters, n + 1) \in WalkType
    <3>1. Walked(letters, n) \in WalkType
      <4>1. n <= Len(letters)
        BY <2>1
      <4> QED
        BY <1>6, <4>1
    <3> QED
      BY <1>3, <2>1, <3>1, WalkCases
  <2>2. n + 1 \in Nat
    OBVIOUS
  <2> QED
    BY <2>1, <2>2
<1>7. Nat \subseteq T
  <2> HIDE DEF T
  <2> QED
    BY <1>5, <1>6, Induction
<1>8. \A n \in 0..Len(letters) : n \in Nat /\ n <= Len(letters)
  OBVIOUS
<1>9. \A n \in 0..Len(letters) : Walked(letters, n) \in WalkType
  BY <1>7, <1>8
<1> QED
  BY <1>2, <1>3, <1>4, <1>9

-----------------------------------------------------------------------------
(***************************************************************************)
(* The longest common subsequence by its table: lcs_length.                *)
(***************************************************************************)
LcsPlaces(m, n) == (0..m) \X (0..n)
LcsOver(s, u, L) == L = [p \in LcsPlaces(Len(s), Len(u)) |-> LcsStep(s, u, L, p[1], p[2])]
LcsTable(s, u) == CHOOSE L : LcsOver(s, u, L)
LcsAt(s, u, i, j) == LcsTable(s, u)[<<i, j>>]

LEMMA LcsIs ==
  ASSUME NEW s, NEW u
  PROVE  Lcs(s, u) = LcsAt(s, u, Len(s), Len(u))
  BY DEF Lcs, LcsAt, LcsTable, LcsOver, LcsPlaces

LEMMA LcsPlace ==
  ASSUME NEW m \in Nat, NEW n \in Nat
  PROVE  /\ \A i \in 0..m, j \in 0..n : <<i, j>> \in LcsPlaces(m, n)
         /\ \A p \in LcsPlaces(m, n) : p[1] \in 0..m /\ p[2] \in 0..n /\ p = <<p[1], p[2]>>
  BY DEF LcsPlaces

\* A step looks at places nearer the origin only.
SameWithin(L, M, m, n, k) ==
  \A x \in 0..m, y \in 0..n : x + y <= k => L[<<x, y>>] = M[<<x, y>>]

LEMMA LcsNearer ==
  ASSUME NEW s, NEW u, NEW m \in Nat, NEW n \in Nat, NEW k \in Nat, NEW L, NEW M,
         NEW i \in 0..m, NEW j \in 0..n, i + j <= k + 1, SameWithin(L, M, m, n, k)
  PROVE  LcsStep(s, u, L, i, j) = LcsStep(s, u, M, i, j)
<1>1. CASE i = 0 \/ j = 0
  BY <1>1 DEF LcsStep
<1>2. CASE ~(i = 0 \/ j = 0)
  <2>1. /\ i - 1 \in 0..m /\ j - 1 \in 0..n /\ (i - 1) + (j - 1) <= k
        /\ (i - 1) + j <= k /\ i + (j - 1) <= k
    BY <1>2
  <2>2. /\ L[<<i - 1, j - 1>>] = M[<<i - 1, j - 1>>] /\ L[<<i - 1, j>>] = M[<<i - 1, j>>]
        /\ L[<<i, j - 1>>] = M[<<i, j - 1>>]
    BY <2>1 DEF SameWithin
  <2> QED
    BY <2>2 DEF LcsStep
<1> QED
  BY <1>1, <1>2

LEMMA LcsExists ==
  ASSUME NEW V, NEW W, NEW s \in Seq(V), NEW u \in Seq(W)
  PROVE  \A i \in 0..Len(s), j \in 0..Len(u) :
           LcsAt(s, u, i, j) = LcsStep(s, u, LcsTable(s, u), i, j)
<1>1. PICK m \in Nat, n \in Nat : m = Len(s) /\ n = Len(u)
  OBVIOUS
<1> DEFINE Right(L, k) == \A i \in 0..m, j \in 0..n :
                            i + j <= k => L[<<i, j>>] = LcsStep(s, u, L, i, j)
           T == {k \in Nat : \E L : Right(L, k)}
<1>2. 0 \in T
  <2> DEFINE h == [p \in LcsPlaces(m, n) |-> 0]
  <2>1. \A i \in 0..m, j \in 0..n : h[<<i, j>>] = 0
    BY LcsPlace
  <2> HIDE DEF h
  <2>2. \A i \in 0..m, j \in 0..n : i + j <= 0 => i = 0
    OBVIOUS
  <2>3. \A i \in 0..m, j \in 0..n : i + j <= 0 => LcsStep(s, u, h, i, j) = 0
    BY <2>2 DEF LcsStep
  <2>4. Right(h, 0)
    BY <2>1, <2>3
  <2> QED
    BY <2>4
<1>3. ASSUME NEW k \in Nat, k \in T PROVE k + 1 \in T
  <2>1. PICK L : Right(L, k)
    BY <1>3
  <2> DEFINE h == [p \in LcsPlaces(m, n) |->
                     IF p[1] + p[2] <= k THEN L[p] ELSE LcsStep(s, u, L, p[1], p[2])]
  <2>2. \A i \in 0..m, j \in 0..n :
          h[<<i, j>>] = IF i + j <= k THEN L[<<i, j>>] ELSE LcsStep(s, u, L, i, j)
    BY LcsPlace
  <2> HIDE DEF h
  <2>3. SameWithin(L, h, m, n, k)
    BY <2>2 DEF SameWithin
  <2>4. ASSUME NEW i \in 0..m, NEW j \in 0..n, i + j <= k + 1
        PROVE  h[<<i, j>>] = LcsStep(s, u, h, i, j)
    <3>1. LcsStep(s, u, L, i, j) = LcsStep(s, u, h, i, j)
      BY <2>3, <2>4, LcsNearer
    <3>2. i + j <= k => L[<<i, j>>] = LcsStep(s, u, L, i, j)
      BY <2>1
    <3> QED
      BY <2>2, <3>1, <3>2
  <2>5. k + 1 \in Nat /\ Right(h, k + 1)
    BY <2>4
  <2> HIDE DEF Right
  <2> QED
    BY <2>5
<1>4. m + n \in T
  <2>1. m + n \in Nat
    OBVIOUS
  <2> HIDE DEF T
  <2> QED
    BY <1>2, <1>3, <2>1, Induction
<1>5. PICK L : Right(L, m + n)
  BY <1>4
<1> DEFINE h == [p \in LcsPlaces(m, n) |-> L[p]]
<1>6. \A i \in 0..m, j \in 0..n : h[<<i, j>>] = L[<<i, j>>]
  BY LcsPlace
<1>7. h = [p \in LcsPlaces(m, n) |-> h[p]]
  OBVIOUS
<1> HIDE DEF h
<1>8. ASSUME NEW i \in 0..m, NEW j \in 0..n PROVE h[<<i, j>>] = LcsStep(s, u, h, i, j)
  <2>1. i + j <= m + n /\ i + j <= (m + n) + 1 /\ m + n \in Nat
    OBVIOUS
  <2>2. L[<<i, j>>] = LcsStep(s, u, L, i, j)
    BY <1>5, <2>1
  <2>4. PICK k \in Nat : k = m + n
    BY <2>1
  <2>5. SameWithin(h, L, m, n, k)
    BY <1>6 DEF SameWithin
  <2>6. i + j <= k + 1
    BY <2>1, <2>4
  <2>3. LcsStep(s, u, h, i, j) = LcsStep(s, u, L, i, j)
    BY <2>5, <2>6, LcsNearer
  <2> QED
    BY <1>6, <2>2, <2>3
<1>9. \A p \in LcsPlaces(m, n) : h[p] = LcsStep(s, u, h, p[1], p[2])
  BY <1>8, LcsPlace
<1>10. LcsOver(s, u, h)
  BY <1>1, <1>7, <1>9 DEF LcsOver
<1>11. LcsOver(s, u, LcsTable(s, u))
  BY <1>10 DEF LcsTable
<1> DEFINE g == LcsTable(s, u)
<1>12. g = [p \in LcsPlaces(m, n) |-> LcsStep(s, u, g, p[1], p[2])]
  <2> HIDE DEF g
  <2> QED
    BY <1>1, <1>11 DEF LcsOver, g
<1> HIDE DEF g
<1>13. \A p \in LcsPlaces(m, n) : g[p] = LcsStep(s, u, g, p[1], p[2])
  BY <1>12, Zenon
<1>14. ASSUME NEW i \in 0..m, NEW j \in 0..n PROVE g[<<i, j>>] = LcsStep(s, u, g, i, j)
  <2>1. PICK p \in LcsPlaces(m, n) : p = <<i, j>>
    BY LcsPlace
  <2>2. p[1] = i /\ p[2] = j
    BY <2>1
  <2> QED
    BY <1>13, <2>1, <2>2
<1> QED
  BY <1>1, <1>14 DEF g, LcsAt

\* The recursion of the longest common subsequence.
LEMMA LcsRecursion ==
  ASSUME NEW V, NEW W, NEW s \in Seq(V), NEW u \in Seq(W),
         NEW i \in 0..Len(s), NEW j \in 0..Len(u)
  PROVE  LcsAt(s, u, i, j) =
           IF i = 0 \/ j = 0 THEN 0
           ELSE IF s[i] = u[j] THEN LcsAt(s, u, i - 1, j - 1) + 1
           ELSE IF LcsAt(s, u, i - 1, j) >= LcsAt(s, u, i, j - 1) THEN LcsAt(s, u, i - 1, j)
           ELSE LcsAt(s, u, i, j - 1)
<1>1. LcsAt(s, u, i, j) = LcsStep(s, u, LcsTable(s, u), i, j)
  BY LcsExists
<1> QED
  BY <1>1 DEF LcsStep, LcsAt

LcsRule(s, u, i, j, x, y) ==
  LcsAt(s, u, i, j) =
    IF s[i] = u[j] THEN LcsAt(s, u, x, y) + 1
    ELSE IF LcsAt(s, u, x, j) >= LcsAt(s, u, i, y) THEN LcsAt(s, u, x, j)
    ELSE LcsAt(s, u, i, y)

LEMMA LcsInner ==
  ASSUME NEW V, NEW W, NEW s \in Seq(V), NEW u \in Seq(W), NEW i \in 0..Len(s),
         NEW j \in 0..Len(u), NEW x, NEW y, i # 0, j # 0, i - 1 = x, j - 1 = y
  PROVE  LcsRule(s, u, i, j, x, y)
<1>1. LcsAt(s, u, i, j) =
        IF i = 0 \/ j = 0 THEN 0
        ELSE IF s[i] = u[j] THEN LcsAt(s, u, i - 1, j - 1) + 1
        ELSE IF LcsAt(s, u, i - 1, j) >= LcsAt(s, u, i, j - 1) THEN LcsAt(s, u, i - 1, j)
        ELSE LcsAt(s, u, i, j - 1)
  BY LcsRecursion
<1>2. LcsAt(s, u, i - 1, j - 1) = LcsAt(s, u, x, y) /\ LcsAt(s, u, i - 1, j) = LcsAt(s, u, x, j)
      /\ LcsAt(s, u, i, j - 1) = LcsAt(s, u, i, y)
  OBVIOUS
<1> QED
  BY <1>1, <1>2 DEF LcsRule

\* A letter more on either side adds nothing or one.
LcsGrows(s, u, i, j) ==
  /\ LcsAt(s, u, i, j) \in Nat
  /\ i > 0 => LcsAt(s, u, i - 1, j) <= LcsAt(s, u, i, j)
              /\ LcsAt(s, u, i, j) <= LcsAt(s, u, i - 1, j) + 1
  /\ j > 0 => LcsAt(s, u, i, j - 1) <= LcsAt(s, u, i, j)
              /\ LcsAt(s, u, i, j) <= LcsAt(s, u, i, j - 1) + 1

LEMMA LcsMonotone ==
  ASSUME NEW V, NEW W, NEW s \in Seq(V), NEW u \in Seq(W)
  PROVE  \A i \in 0..Len(s), j \in 0..Len(u) : LcsGrows(s, u, i, j)
<1>1. PICK m \in Nat, n \in Nat : m = Len(s) /\ n = Len(u)
  OBVIOUS
<1> DEFINE T == {k \in Nat : \A i \in 0..m, j \in 0..n : i + j <= k => LcsGrows(s, u, i, j)}
<1>0. \A i \in 0..m, j \in 0..n : i = 0 \/ j = 0 => LcsAt(s, u, i, j) = 0
  BY <1>1, LcsRecursion
<1>2. 0 \in T
  <2>1. \A i \in 0..m, j \in 0..n : i + j <= 0 => i = 0 /\ j = 0
    OBVIOUS
  <2>2. \A i \in 0..m, j \in 0..n : i + j <= 0 => LcsGrows(s, u, i, j)
    BY <1>0, <2>1 DEF LcsGrows
  <2> QED
    BY <2>2
<1>3. ASSUME NEW k \in Nat, k \in T PROVE k + 1 \in T
  <2>1. ASSUME NEW i \in 0..m, NEW j \in 0..n, i + j <= k + 1 PROVE LcsGrows(s, u, i, j)
    <3>1. CASE i = 0
      <4>1. j > 0 => j - 1 \in 0..n
        OBVIOUS
      <4> QED
        BY <1>0, <3>1, <4>1 DEF LcsGrows
    <3>2. CASE j = 0
      <4>1. i > 0 => i - 1 \in 0..m
        OBVIOUS
      <4> QED
        BY <1>0, <3>2, <4>1 DEF LcsGrows
    <3>3. CASE i # 0 /\ j # 0
      <4>1. PICK x \in 0..m, y \in 0..n : x = i - 1 /\ y = j - 1
        BY <3>3
      <4>2. x + y <= k /\ x + j <= k /\ i + y <= k
            /\ i > 0 /\ j > 0 /\ i - 1 = x /\ j - 1 = y
        BY <2>1, <3>3, <4>1
      <4>3. LcsGrows(s, u, x, y) /\ LcsGrows(s, u, x, j) /\ LcsGrows(s, u, i, y)
        BY <1>3, <4>2
      <4>4. /\ LcsAt(s, u, x, y) \in Nat /\ LcsAt(s, u, x, j) \in Nat /\ LcsAt(s, u, i, y) \in Nat
            /\ LcsAt(s, u, x, y) <= LcsAt(s, u, x, j)
            /\ LcsAt(s, u, x, j) <= LcsAt(s, u, x, y) + 1
            /\ LcsAt(s, u, x, y) <= LcsAt(s, u, i, y)
            /\ LcsAt(s, u, i, y) <= LcsAt(s, u, x, y) + 1
        BY <4>2, <4>3 DEF LcsGrows
      <4>5. LcsAt(s, u, i, j) =
              IF s[i] = u[j] THEN LcsAt(s, u, x, y) + 1
              ELSE IF LcsAt(s, u, x, j) >= LcsAt(s, u, i, y) THEN LcsAt(s, u, x, j)
              ELSE LcsAt(s, u, i, y)
        <5>1. i \in 0..Len(s) /\ j \in 0..Len(u)
          BY <1>1, <4>2
        <5>2. LcsRule(s, u, i, j, x, y)
          BY <5>1,  <3>3, <4>2, LcsInner
        <5> QED
          BY <5>2 DEF LcsRule
      <4>6. /\ LcsAt(s, u, i, j) \in Nat
            /\ LcsAt(s, u, x, j) <= LcsAt(s, u, i, j)
            /\ LcsAt(s, u, i, j) <= LcsAt(s, u, x, j) + 1
            /\ LcsAt(s, u, i, y) <= LcsAt(s, u, i, j)
            /\ LcsAt(s, u, i, j) <= LcsAt(s, u, i, y) + 1
        BY <4>4, <4>5
      <4> QED
        BY <4>2, <4>6 DEF LcsGrows
    <3> QED
      BY <3>1, <3>2, <3>3
  <2>2. k + 1 \in Nat
    OBVIOUS
  <2> QED
    BY <2>1, <2>2
<1>4. m + n \in T
  <2>1. m + n \in Nat
    OBVIOUS
  <2> HIDE DEF T
  <2> QED
    BY <1>2, <1>3, <2>1, Induction
<1>5. \A i \in 0..m, j \in 0..n : i + j <= m + n
  OBVIOUS
<1> QED
  BY <1>1, <1>4, <1>5

\* It depends on what it is about only.
LEMMA LcsStable ==
  ASSUME NEW V, NEW W, NEW s \in Seq(V), NEW u \in Seq(W), NEW v \in Seq(W), IsPrefix(u, v)
  PROVE  \A i \in 0..Len(s), j \in 0..Len(u) : LcsAt(s, v, i, j) = LcsAt(s, u, i, j)
<1>1. PICK m \in Nat, n \in Nat : m = Len(s) /\ n = Len(u)
  OBVIOUS
<1>2. n <= Len(v) /\ Len(v) \in Nat /\ \A j \in 1..n : u[j] = v[j]
  <2>1. n <= Len(v) /\ Len(v) \in Nat /\ SubSeq(u, 1, n) = SubSeq(v, 1, n)
    BY <1>1 DEF IsPrefix
  <2>2. \A j \in 1..n : SubSeq(u, 1, n)[j] = u[j] /\ SubSeq(v, 1, n)[j] = v[j]
    BY <1>1, <2>1
  <2> QED
    BY <2>1, <2>2
<1> DEFINE Same(i, j) == LcsAt(s, v, i, j) = LcsAt(s, u, i, j)
           T == {k \in Nat : \A i \in 0..m, j \in 0..n : i + j <= k => Same(i, j)}
<1>3. \A i \in 0..m, j \in 0..n : i = 0 \/ j = 0 => LcsAt(s, v, i, j) = 0 /\ LcsAt(s, u, i, j) = 0
  BY <1>1, <1>2, LcsRecursion
<1>4. 0 \in T
  <2>1. \A i \in 0..m, j \in 0..n : i + j <= 0 => i = 0 /\ j = 0
    OBVIOUS
  <2> QED
    BY <1>3, <2>1
<1>5. ASSUME NEW k \in Nat, k \in T PROVE k + 1 \in T
  <2>1. ASSUME NEW i \in 0..m, NEW j \in 0..n, i + j <= k + 1 PROVE Same(i, j)
    <3>1. CASE i = 0 \/ j = 0
      BY <1>3, <3>1
    <3>2. CASE ~(i = 0 \/ j = 0)
      <4>1. PICK x \in 0..m, y \in 0..n : x = i - 1 /\ y = j - 1
        BY <3>2
      <4>2. x + y <= k /\ x + j <= k /\ i + y <= k /\ i - 1 = x /\ j - 1 = y
            /\ j \in 1..n /\ j \in 0..Len(v)
        BY <1>2, <2>1, <3>2, <4>1
      <4>3. Same(x, y) /\ Same(x, j) /\ Same(i, y)
        BY <1>5, <4>2
      <4>4. LcsAt(s, u, i, j) =
              IF s[i] = u[j] THEN LcsAt(s, u, x, y) + 1
              ELSE IF LcsAt(s, u, x, j) >= LcsAt(s, u, i, y) THEN LcsAt(s, u, x, j)
              ELSE LcsAt(s, u, i, y)
        <5>1. i \in 0..Len(s) /\ j \in 0..Len(u)
          BY <1>1, <4>2
        <5>2. LcsRule(s, u, i, j, x, y)
          BY <5>1,  <3>2, <4>2, LcsInner
        <5> QED
          BY <5>2 DEF LcsRule
      <4>5. LcsAt(s, v, i, j) =
              IF s[i] = v[j] THEN LcsAt(s, v, x, y) + 1
              ELSE IF LcsAt(s, v, x, j) >= LcsAt(s, v, i, y) THEN LcsAt(s, v, x, j)
              ELSE LcsAt(s, v, i, y)
        <5>1. i \in 0..Len(s) /\ j \in 0..Len(v)
          BY <1>1, <4>2
        <5>2. LcsRule(s, v, i, j, x, y)
          BY <5>1,  <3>2, <4>2, LcsInner
        <5> QED
          BY <5>2 DEF LcsRule
      <4>6. u[j] = v[j]
        BY <1>2, <4>2
      <4> QED
        BY <4>3, <4>4, <4>5, <4>6
    <3> QED
      BY <3>1, <3>2
  <2>2. k + 1 \in Nat
    OBVIOUS
  <2> HIDE DEF Same
  <2> QED
    BY <2>1, <2>2
<1>6. m + n \in T
  <2>1. m + n \in Nat
    OBVIOUS
  <2> HIDE DEF T
  <2> QED
    BY <1>4, <1>5, <2>1, Induction
<1>7. \A i \in 0..m, j \in 0..n : i + j <= m + n
  OBVIOUS
<1> QED
  BY <1>1, <1>6, <1>7

-----------------------------------------------------------------------------
(***************************************************************************)
(* Absorbing letters. As long as the controller never gave up in a prefix  *)
(* it is where the detector is; its hits are a common subsequence of the   *)
(* secret and the letters in any case.                                     *)
(***************************************************************************)
\* The controller's text is what it has absorbed of the response.
Absorbed(c, ids) ==
  /\ c.processed \in 0..Len(ids)
  /\ c.text = Decode(SubSeq(ids, 1, c.processed))
  /\ c.resolved = Len(FirstLetters(c.text))

HitsWithin(c, letters, j) == CountOf(c, "hit") <= LcsAt(Secret, letters, c.target, j)

\* What the controller has counted in its text.
Counts(c) ==
  /\ NeverGaveUp(c) => Matches(c, DetectorWalk(FirstLetters(c.text)))
  /\ HitsWithin(c, FirstLetters(c.text), Len(FirstLetters(c.text)))

LEMMA CountsAreNumbers ==
  ASSUME NEW c \in ControllerType, NEW outcome
  PROVE  CountOf(c, outcome) \in Nat
<1>1. c.trace \in Seq(Outcomes) /\ "hit" \in Outcomes
  BY ControllerParts DEF Outcomes
<1> QED
  BY <1>1, CountAppend, CountOfIs

LEMMA SecretLetters == Secret \in Seq(Letters) /\ Len(Secret) \in Nat
  BY SecretAssumption

\* On to the next letter, with or without a hit.
LEMMA MovedOn ==
  ASSUME NEW c \in ControllerType, NEW i \in 0..Len(Secret)
  PROVE  /\ Dealt(c, i, 0, "hit").target = i /\ Dealt(c, i, 0, "skip").target = i
         /\ CountOf(Dealt(c, i, 0, "hit"), "hit") = CountOf(c, "hit") + 1
         /\ CountOf(Dealt(c, i, 0, "skip"), "hit") = CountOf(c, "hit")
<1>1. PICK streak \in 0..MaxFailStreak - 1 : streak = 0
  BY SecretParts
<1>2. /\ Dealt(c, i, streak, "hit").target = i
      /\ CountOf(Dealt(c, i, streak, "hit"), "hit") = CountOf(c, "hit") + 1
  BY DealtFully
<1>3. /\ Dealt(c, i, streak, "skip").target = i
      /\ CountOf(Dealt(c, i, streak, "skip"), "hit") = CountOf(c, "hit")
  BY DealtFully
<1> QED
  BY <1>1, <1>2, <1>3

LEMMA HitsStep ==
  ASSUME NEW c \in ControllerType, NEW letters \in Seq(Characters), NEW j \in Nat,
         j + 1 <= Len(letters), HitsWithin(c, letters, j)
  PROVE  HitsWithin(Resolve(c, letters[j + 1]), letters, j + 1)
<1> DEFINE d == Resolve(c, letters[j + 1])
           At(x, y) == LcsAt(Secret, letters, x, y)
<1>1. PICK t \in 0..Len(Secret) : t = c.target
  BY ControllerParts
<1>2. PICK k \in 1..Len(letters) : k = j + 1 /\ k - 1 = j /\ k > 0
  <2>1. j + 1 \in 1..Len(letters) /\ (j + 1) - 1 = j /\ j + 1 > 0
    OBVIOUS
  <2> QED
    BY <2>1
<1>3. k \in 0..Len(letters) /\ j \in 0..Len(letters) /\ Len(Secret) \in Nat
  BY <1>2, SecretLetters
<1>4. CountOf(c, "hit") \in Nat /\ CountOf(c, "hit") <= At(t, j) /\ At(t, j) \in Nat
  <2>1. LcsGrows(Secret, letters, t, j)
    BY <1>3, LcsMonotone, SecretLetters
  <2> QED
    BY <1>1, <2>1, CountsAreNumbers DEF HitsWithin, LcsGrows
<1>5. At(t, j) <= At(t, k) /\ At(t, k) \in Nat
  <2>1. LcsGrows(Secret, letters, t, k)
    BY <1>3, LcsMonotone, SecretLetters
  <2> QED
    BY <1>2, <2>1 DEF LcsGrows
<1>6. CASE Exhausted(c)
  <2>1. d = c
    BY <1>6 DEF Resolve
  <2> HIDE DEF d
  <2>2. CountOf(d, "hit") <= At(d.target, k)
    BY <1>1, <1>4, <1>5, <2>1
  <2> QED
    BY <1>2, <2>2 DEF HitsWithin, d
<1>7. CASE ~Exhausted(c)
  <2>1. t + 1 \in 1..Len(Secret)
    BY <1>1, <1>7, SecretParts
  <2>2. PICK i \in 1..Len(Secret) : i = t + 1 /\ i - 1 = t /\ i > 0 /\ i \in 0..Len(Secret)
    <3>1. (t + 1) - 1 = t /\ t + 1 > 0 /\ t + 1 \in 0..Len(Secret)
      BY <2>1
    <3> QED
      BY <2>1, <3>1
  <2>3. CASE letters[k] = Wanted(c)
    <3>1. d = Dealt(c, i, 0, "hit")
      BY <1>1, <1>2, <1>7, <2>2, <2>3 DEF Resolve, Dealt
    <3>2. d.target = i /\ CountOf(d, "hit") = CountOf(c, "hit") + 1
      BY <2>2, <3>1, MovedOn
    <3>3. At(i, k) = At(t, j) + 1
      <4>1. LcsRule(Secret, letters, i, k, t, j)
        BY <1>2, <1>3, <2>2, LcsInner, SecretLetters
      <4>2. Secret[i] = letters[k]
        BY <1>1, <2>2, <2>3 DEF Wanted
      <4> QED
        BY <4>1, <4>2 DEF LcsRule
    <3>4. CountOf(d, "hit") <= At(i, k)
      BY <1>4, <3>2, <3>3
    <3> QED
      BY <1>2, <3>2, <3>4 DEF HitsWithin
  <2>4. CASE letters[k] # Wanted(c) /\ c.failStreak + 1 >= MaxFailStreak
    <3>1. d = Dealt(c, i, 0, "skip")
      BY <1>1, <1>2, <1>7, <2>2, <2>4 DEF Resolve, Dealt
    <3>2. d.target = i /\ CountOf(d, "hit") = CountOf(c, "hit")
      BY <2>2, <3>1, MovedOn
    <3>3. At(t, k) <= At(i, k) /\ At(i, k) \in Nat
      <4>1. LcsGrows(Secret, letters, i, k)
        BY <1>3, <2>2, LcsMonotone, SecretLetters
      <4> QED
        BY <2>2, <4>1 DEF LcsGrows
    <3>4. CountOf(d, "hit") <= At(i, k)
      BY <1>4, <1>5, <3>2, <3>3
    <3> QED
      BY <1>2, <3>2, <3>4 DEF HitsWithin
  <2>5. CASE letters[k] # Wanted(c) /\ ~(c.failStreak + 1 >= MaxFailStreak)
    <3>1. PICK streak \in 0..MaxFailStreak - 1 : streak = c.failStreak + 1
      BY <2>5, ControllerParts, SecretParts
    <3>2. d = Dealt(c, t, streak, "miss")
      BY <1>1, <1>2, <1>7, <2>5, <3>1, ResolveCases
    <3>3. d.target = t /\ CountOf(d, "hit") = CountOf(c, "hit")
      BY <3>2, DealtFully
    <3>4. CountOf(d, "hit") <= At(t, k)
      BY <1>4, <1>5, <3>3
    <3> QED
      BY <1>2, <3>3, <3>4 DEF HitsWithin
  <2> QED
    BY <2>3, <2>4, <2>5
<1> QED
  BY <1>6, <1>7

\* Letter by letter the controller keeps up with the detector.
LEMMA AbsorbLetters ==
  ASSUME NEW c \in ControllerType, NEW letters \in Seq(Characters),
         NEW fresh \in Seq(Characters), NEW r \in 0..Len(letters),
         Len(fresh) = Len(letters) - r,
         \A i \in 1..Len(fresh) : fresh[i] = letters[r + i],
         NeverGaveUp(c) => Matches(c, Walked(letters, r)),
         HitsWithin(c, letters, r)
  PROVE  /\ NeverGaveUp(c) =>
              Matches(Folded("resolve", c, fresh), DetectorWalk(letters))
         /\ HitsWithin(Folded("resolve", c, fresh), letters, Len(letters))
<1> DEFINE f(n) == Folded("resolve", c, SubSeq(fresh, 1, n))
           Alike(n) == /\ f(n) \in ControllerType
                       /\ NeverGaveUp(c) => Matches(f(n), Walked(letters, r + n))
                       /\ HitsWithin(f(n), letters, r + n)
           T == {n \in Nat : n <= Len(fresh) => Alike(n)}
<1>1. f(0) = c /\ \A n \in Nat : n + 1 <= Len(fresh) => f(n + 1) = Resolve(f(n), fresh[n + 1])
  <2>1. Along("resolve", c, fresh)
    BY FoldedAlong, Zenon
  <2>2. \A a, l : FoldBy("resolve", a, l) = Resolve(a, l)
    BY DEF FoldBy
  <2> QED
    BY <2>1, <2>2 DEF Along
<1>2. Folded("resolve", c, fresh) = f(Len(fresh))
  <2>1. SubSeq(fresh, 1, Len(fresh)) = fresh
    OBVIOUS
  <2> QED
    BY <2>1
<1> HIDE DEF f
<1>3. r \in Nat /\ Len(letters) \in Nat /\ Len(fresh) \in Nat /\ r + 0 = r
      /\ r + Len(fresh) = Len(letters)
  OBVIOUS
<1>4. 0 \in T
  BY <1>1, <1>3
<1>5. ASSUME NEW n \in Nat, n \in T PROVE n + 1 \in T
  <2>1. ASSUME n + 1 <= Len(fresh) PROVE Alike(n + 1)
    <3>1. Alike(n)
      <4>1. n <= Len(fresh)
        BY <1>3, <2>1
      <4> QED
        BY <1>5, <4>1
    <3>2. PICK j \in Nat : j = r + n
      BY <1>3
    <3>3. /\ j + 1 = r + (n + 1) /\ j + 1 <= Len(letters) /\ j \in 0..Len(letters)
          /\ n + 1 \in 1..Len(fresh)
      BY <1>3, <2>1, <3>2
    <3>4. fresh[n + 1] = letters[j + 1]
      BY <3>3
    <3>5. f(n + 1) = Resolve(f(n), letters[j + 1])
      BY <1>1, <2>1, <3>4
    <3>6. f(n) \in ControllerType /\ HitsWithin(f(n), letters, j)
          /\ (NeverGaveUp(c) => Matches(f(n), Walked(letters, j)))
      BY <3>1, <3>2
    <3>7. f(n + 1) \in ControllerType
      BY <3>5, <3>6, ResolveType
    <3>8. HitsWithin(f(n + 1), letters, j + 1)
      BY <3>3, <3>5, <3>6, HitsStep
    <3>9. ASSUME NeverGaveUp(c) PROVE Matches(f(n + 1), Walked(letters, j + 1))
      <4>1. Walked(letters, j) \in WalkType
            /\ Walked(letters, j + 1) = WalkStep(Walked(letters, j), letters[j + 1])
        BY <3>3, WalkedAlong
      <4> QED
        BY <3>5, <3>6, <3>9, <4>1, MatchesStep
    <3> QED
      BY <3>3, <3>7, <3>8, <3>9
  <2>2. n + 1 \in Nat
    OBVIOUS
  <2> HIDE DEF Alike
  <2> QED
    BY <2>1, <2>2
<1>6. Len(fresh) \in T
  <2> HIDE DEF T
  <2> QED
    BY <1>3, <1>4, <1>5, Induction
<1>7. Alike(Len(fresh))
  BY <1>3, <1>6
<1>8. DetectorWalk(letters) = Walked(letters, Len(letters))
  BY WalkedAlong
<1> QED
  BY <1>2, <1>3, <1>7, <1>8

-----------------------------------------------------------------------------
(***************************************************************************)
(* Absorbing tokens, and the query for the next one.                       *)
(***************************************************************************)
LEMMA PrefixOfLetters ==
  ASSUME NEW V, NEW old \in Seq(V), NEW new \in Seq(V), IsPrefix(old, new)
  PROVE  Len(old) \in 0..Len(new) /\ SubSeq(new, 1, Len(old)) = old
<1>1. Len(old) \in Nat /\ Len(new) \in Nat /\ Len(old) <= Len(new)
      /\ SubSeq(old, 1, Len(old)) = SubSeq(new, 1, Len(old))
  BY DEF IsPrefix
<1>2. SubSeq(old, 1, Len(old)) = old
  OBVIOUS
<1> QED
  BY <1>1, <1>2

LEMMA WholeResponse ==
  ASSUME NEW ids \in Seq(Tokens)
  PROVE  Len(ids) \in 0..Len(ids) /\ SubSeq(ids, 1, Len(ids)) = ids
         /\ SubSeq(ids, 1, 0) = << >>
  OBVIOUS

\* What absorbing more of the response keeps.
LEMMA UpdateTracks ==
  ASSUME LettersStay, NEW c \in ControllerType, NEW ids \in Seq(Tokens),
         Len(ids) <= MaxTokens, Absorbed(c, ids), Counts(c)
  PROVE  LET u == UpdateWithPast(c, ids)
         IN  /\ u \in ControllerType /\ Absorbed(u, ids) /\ Counts(u)
             /\ u.processed = Len(ids) /\ u.text = Decode(ids)
             /\ u.prefixTokens = c.prefixTokens /\ (NeverGaveUp(u) <=> NeverGaveUp(c))
<1> DEFINE u == UpdateWithPast(c, ids)
<1>0. u \in ControllerType
  BY UpdateType
<1>1. c.processed \in 0..Len(ids) /\ Len(ids) \in Nat
      /\ c.text = Decode(SubSeq(ids, 1, c.processed))
      /\ c.resolved = Len(FirstLetters(c.text))
  BY DEF Absorbed
<1>2. CASE Len(ids) <= c.processed
  <2>1. u = c /\ c.processed = Len(ids)
    BY <1>1, <1>2 DEF UpdateWithPast
  <2>2. c.text = Decode(ids)
    BY <1>1, <2>1, WholeResponse
  <2> HIDE DEF u
  <2> QED
    BY <1>0, <2>1, <2>2 DEF u
<1>3. CASE ~(Len(ids) <= c.processed)
  <2>1. PICK text \in Seq(Characters), letters \in Seq(Characters) :
          \E d \in ControllerType : Updated(c, ids, text, letters, d, u)
    BY <1>3, UpdateParts
  <2>2. PICK after \in ControllerType : Updated(c, ids, text, letters, after, u)
    BY <2>1
  <2> HIDE DEF u
  <2>3. /\ text = c.text \o Decode(SubSeq(ids, c.processed + 1, Len(ids)))
        /\ letters = FirstLetters(text)
        /\ after = Folded("resolve", c, Fresh(c, letters))
        /\ Kept(c, after)
        /\ u.processed = Len(ids) /\ u.text = text /\ u.resolved = Len(letters)
        /\ u.target = after.target /\ u.failStreak = after.failStreak
        /\ u.prefixTokens = c.prefixTokens /\ u.trace = after.trace
    BY <2>2 DEF Updated
  <2>4. text = Decode(ids)
    BY <1>1, <2>3, DecodeRest
  <2>5. PICK old \in Seq(Characters) : old = FirstLetters(c.text)
    BY FirstLettersType, ControllerParts
  <2>6. IsPrefix(old, letters)
    <3>1. PICK a \in Seq(Tokens), b \in Seq(Tokens) :
            a = SubSeq(ids, 1, c.processed) /\ ids = a \o b
      BY <1>1, DecodeRest
    <3>2. IsPrefix(FirstLetters(Decode(a)), FirstLetters(Decode(a \o b)))
      BY LettersStay DEF LettersStay
    <3> QED
      BY <1>1, <2>3, <2>4, <2>5, <3>1, <3>2
  <2>7. PICK r \in 0..Len(letters) : r = Len(old) /\ SubSeq(letters, 1, r) = old
    BY <2>6, PrefixOfLetters
  <2>8. PICK fresh \in Seq(Characters) :
          /\ fresh = Fresh(c, letters) /\ Len(fresh) = Len(letters) - r
          /\ \A i \in 1..Len(fresh) : fresh[i] = letters[r + i]
    <3>1. c.resolved = r
      BY <1>1, <2>5, <2>7
    <3>2. IF r >= Len(letters) THEN Len(letters) - r = 0 ELSE TRUE
      BY <2>7
    <3> QED
      BY <3>1, <3>2, FreshType
  <2>9. NeverGaveUp(c) => Matches(c, Walked(letters, r))
    <3>1. DetectorWalk(old) = Walked(letters, r)
      BY <2>7, FoldsAre DEF DetectorWalk, Walked, WalkStart
    <3> QED
      BY <2>5, <3>1 DEF Counts
  <2>10. HitsWithin(c, letters, r)
    <3>1. c.target \in 0..Len(Secret) /\ r \in 0..Len(old)
      BY <2>7, ControllerParts
    <3>2. LcsAt(Secret, letters, c.target, r) = LcsAt(Secret, old, c.target, r)
      BY <2>6, <3>1, LcsStable, SecretLetters
    <3>3. HitsWithin(c, old, r)
      BY <2>5, <2>7 DEF Counts
    <3> QED
      BY <3>2, <3>3 DEF HitsWithin
  <2>11. /\ NeverGaveUp(c) => Matches(after, DetectorWalk(letters))
         /\ HitsWithin(after, letters, Len(letters))
    BY <2>3, <2>8, <2>9, <2>10, AbsorbLetters
  <2>12. \A outcome : CountOf(u, outcome) = CountOf(after, outcome)
    BY <2>3 DEF CountOf
  <2>13. NeverGaveUp(u) <=> NeverGaveUp(c)
    BY <2>3, <2>12 DEF Kept, NeverGaveUp
  <2>14. Counts(u)
    <3>1. Matches(after, DetectorWalk(letters)) => Matches(u, DetectorWalk(letters))
      BY <2>3, <2>12 DEF Matches
    <3>2. HitsWithin(u, letters, Len(letters))
      BY <2>3, <2>11, <2>12 DEF HitsWithin
    <3> QED
      BY <2>3, <2>11, <2>13, <3>1, <3>2 DEF Counts
  <2>15. Absorbed(u, ids)
    BY <2>3, <2>4, WholeResponse DEF Absorbed
  <2> QED
    BY <1>0, <2>3, <2>4, <2>13, <2>14, <2>15 DEF u
<1> QED
  BY <1>2, <1>3

\* A controller that differs in its prefix tokens only.
LEMMA PrefixedTracks ==
  ASSUME NEW c \in ControllerType, NEW ids, NEW n \in 0..MaxPrefixTokens,
         Absorbed(c, ids), Counts(c)
  PROVE  LET q == Prefixed(c, n)
         IN  /\ q \in ControllerType /\ Absorbed(q, ids) /\ Counts(q)
             /\ q.processed = c.processed /\ q.text = c.text /\ q.prefixTokens = n
             /\ (NeverGaveUp(q) <=> NeverGaveUp(c))
<1> DEFINE q == Prefixed(c, n)
<1>1. /\ q \in ControllerType
      /\ q.processed = c.processed /\ q.text = c.text /\ q.target = c.target
      /\ q.failStreak = c.failStreak /\ q.resolved = c.resolved /\ q.prefixTokens = n
      /\ q.trace = c.trace
  BY PrefixedParts
<1> HIDE DEF q
<1>2. \A outcome : CountOf(q, outcome) = CountOf(c, outcome)
  BY <1>1 DEF CountOf
<1>3. NeverGaveUp(q) <=> NeverGaveUp(c)
  BY <1>2 DEF NeverGaveUp
<1>4. Absorbed(q, ids)
  BY <1>1 DEF Absorbed
<1>5. Counts(q)
  <2>1. \A w : Matches(c, w) => Matches(q, w)
    BY <1>1, <1>2 DEF Matches
  <2>2. \A letters, j : HitsWithin(c, letters, j) => HitsWithin(q, letters, j)
    BY <1>1, <1>2 DEF HitsWithin
  <2> QED
    BY <1>1, <1>3, <2>1, <2>2 DEF Counts
<1> QED
  BY <1>1, <1>3, <1>4, <1>5 DEF q

LEMMA GivenUpTracks ==
  ASSUME NEW c \in ControllerType, NEW ids, ~Exhausted(c), Absorbed(c, ids), Counts(c)
  PROVE  LET q == GivenUp(c)
         IN  /\ q \in ControllerType /\ Absorbed(q, ids) /\ Counts(q)
             /\ q.processed = c.processed /\ q.text = c.text
             /\ ~NeverGaveUp(q)
<1> DEFINE q == GivenUp(c)
<1>1. /\ q \in ControllerType
      /\ q.processed = c.processed /\ q.text = c.text /\ q.target = c.target + 1
      /\ q.resolved = c.resolved /\ q.trace = Append(c.trace, "skip_max_prefix")
  BY GivenUpParts
<1> HIDE DEF q
<1>2. "skip_max_prefix" \in Outcomes
  BY DEF Outcomes
<1>3. \A o : /\ CountOf(c, o) \in Nat
             /\ CountOf(q, o) = IF "skip_max_prefix" = o THEN CountOf(c, o) + 1
                                ELSE CountOf(c, o)
  BY <1>1, <1>2, DealtCounts
<1>4. ~NeverGaveUp(q)
  <2>1. CountOf(q, "skip_max_prefix") = CountOf(c, "skip_max_prefix") + 1
        /\ CountOf(c, "skip_max_prefix") \in Nat
    BY <1>3
  <2> QED
    BY <2>1 DEF NeverGaveUp
<1>5. CountOf(q, "hit") = CountOf(c, "hit") /\ CountOf(c, "hit") \in Nat
  BY <1>3
<1>6. Absorbed(q, ids)
  BY <1>1 DEF Absorbed
<1>7. Counts(q)
  <2>1. PICK letters \in Seq(Characters) : letters = FirstLetters(c.text)
    BY FirstLettersType, ControllerParts
  <2>2. PICK n \in 0..Len(letters) : n = Len(letters)
    OBVIOUS
  <2>3. c.target \in 0..Len(Secret) /\ c.target + 1 \in 1..Len(Secret)
    BY ControllerParts, SecretParts
  <2>4. PICK i \in 0..Len(Secret) : i = c.target + 1 /\ i - 1 = c.target /\ i > 0
    <3>1. c.target + 1 \in 0..Len(Secret) /\ (c.target + 1) - 1 = c.target /\ c.target + 1 > 0
      BY <2>3
    <3> QED
      BY <3>1
  <2>5. LcsGrows(Secret, letters, i, n) /\ LcsGrows(Secret, letters, c.target, n)
    BY <2>3, LcsMonotone, SecretLetters
  <2>6. /\ LcsAt(Secret, letters, c.target, n) <= LcsAt(Secret, letters, i, n)
        /\ LcsAt(Secret, letters, c.target, n) \in Nat /\ LcsAt(Secret, letters, i, n) \in Nat
    BY <2>4, <2>5 DEF LcsGrows
  <2>7. CountOf(c, "hit") <= LcsAt(Secret, letters, c.target, n)
    BY <2>1, <2>2 DEF Counts, HitsWithin
  <2>8. CountOf(q, "hit") <= LcsAt(Secret, letters, i, n)
    BY <1>5, <2>6, <2>7
  <2>9. HitsWithin(q, letters, n)
    BY <1>1, <2>4, <2>8 DEF HitsWithin
  <2> QED
    BY <1>1, <1>4, <2>1, <2>2, <2>9 DEF Counts
<1> QED
  BY <1>1, <1>4, <1>6, <1>7 DEF q

LEMMA QueryTracks ==
  ASSUME NEW c \in ControllerType, NEW ids, Absorbed(c, ids), Counts(c)
  PROVE  LET q == Query(c)
         IN  /\ q \in ControllerType /\ Absorbed(q, ids) /\ Counts(q)
             /\ q.processed = c.processed /\ q.text = c.text
             /\ NeverGaveUp(q) =>
                  /\ NeverGaveUp(c)
                  /\ ~Exhausted(c) /\ IsPreLetter(c.text) =>
                       c.prefixTokens + 1 <= MaxPrefixTokens /\ q.prefixTokens = c.prefixTokens + 1
                  /\ ~Exhausted(c) /\ ~IsPreLetter(c.text) => q.prefixTokens = 0
                  /\ Exhausted(c) => q.prefixTokens = c.prefixTokens
<1> DEFINE q == Query(c)
<1>1. c.prefixTokens \in 0..MaxPrefixTokens /\ MaxPrefixTokens \in Nat \ {0}
  BY ControllerParts, SecretParts
<1>2. CASE Exhausted(c)
  <2>1. q = c
    BY <1>2 DEF Query
  <2> HIDE DEF q
  <2> QED
    BY <1>2, <2>1 DEF q
<1>3. CASE ~Exhausted(c) /\ ~IsPreLetter(c.text)
  <2>1. q = Prefixed(c, 0)
    BY <1>3 DEF Query, Prefixed
  <2>2. 0 \in 0..MaxPrefixTokens
    BY <1>1
  <2> HIDE DEF q
  <2>3. /\ q \in ControllerType /\ Absorbed(q, ids) /\ Counts(q)
        /\ q.processed = c.processed /\ q.text = c.text /\ q.prefixTokens = 0
        /\ (NeverGaveUp(q) <=> NeverGaveUp(c))
    BY <2>1, <2>2, PrefixedTracks
  <2> QED
    BY <1>3, <2>3 DEF q
<1>4. CASE ~Exhausted(c) /\ IsPreLetter(c.text) /\ c.prefixTokens + 1 > MaxPrefixTokens
  <2>1. q = GivenUp(c)
    BY <1>4 DEF Query, GivenUp
  <2> HIDE DEF q
  <2>2. /\ q \in ControllerType /\ Absorbed(q, ids) /\ Counts(q)
        /\ q.processed = c.processed /\ q.text = c.text /\ ~NeverGaveUp(q)
    BY <1>4, <2>1, GivenUpTracks
  <2> QED
    BY <2>2 DEF q
<1>5. CASE ~Exhausted(c) /\ IsPreLetter(c.text) /\ ~(c.prefixTokens + 1 > MaxPrefixTokens)
  <2>1. PICK n \in 0..MaxPrefixTokens : n = c.prefixTokens + 1
    BY <1>1, <1>5
  <2>2. q = Prefixed(c, n)
    BY <1>5, <2>1, QueryCases
  <2> HIDE DEF q
  <2>3. /\ q \in ControllerType /\ Absorbed(q, ids) /\ Counts(q)
        /\ q.processed = c.processed /\ q.text = c.text /\ q.prefixTokens = n
        /\ (NeverGaveUp(q) <=> NeverGaveUp(c))
    BY <2>2, PrefixedTracks
  <2>4. c.prefixTokens + 1 <= MaxPrefixTokens
    BY <1>1, <1>5
  <2> QED
    BY <1>5, <2>1, <2>3, <2>4 DEF q
<1> QED
  BY <1>2, <1>3, <1>4, <1>5

-----------------------------------------------------------------------------
(***************************************************************************)
(* The inductive invariant: what a controller has counted in the text it   *)
(* has absorbed, whether it absorbed one token or a whole response; and    *)
(* what a preempted one forgets.                                           *)
(***************************************************************************)
\* A preemption forgets: what the replay was never stuck for, the sampler was
\* not stuck for either.
Ahead(c, r) == NeverGaveUp(r) => NeverGaveUp(c) /\ c.prefixTokens <= r.prefixTokens

Tracks ==
  /\ Absorbed(ctrl, output) /\ Counts(ctrl)
  /\ Absorbed(replay, output) /\ Counts(replay)
  /\ Ahead(ctrl, replay)

Phase ==
  /\ bias # "ask" =>
       /\ ctrl.processed = Len(output) /\ bias = BiasLetter(ctrl)
       /\ replay.processed = Len(output) /\ replayBias = BiasLetter(replay)
  /\ bias = "ask" => Len(output) > replay.processed \/ replayBias = "ask"

AcrosticInv == Typed /\ Tracks /\ Phase

LEMMA NewControllerTracks ==
  ASSUME NEW ids \in Seq(Tokens)
  PROVE  /\ Absorbed(NewController, ids) /\ Counts(NewController)
         /\ NeverGaveUp(NewController) /\ NewController.prefixTokens = 0
         /\ NewController.processed = 0
<1>1. /\ NewController.processed = 0 /\ NewController.text = << >>
      /\ NewController.target = 0 /\ NewController.failStreak = 0
      /\ NewController.resolved = 0 /\ NewController.prefixTokens = 0
      /\ NewController.trace = << >>
  BY DEF NewController
<1>2. FirstLetters(NewController.text) = << >> /\ Len(<< >>) = 0
  BY <1>1, FirstLettersEmpty
<1>3. \A outcome : CountOf(NewController, outcome) = 0
  <2>1. \A outcome : {i \in 1..Len(<< >>) : << >>[i] = outcome} = {}
    OBVIOUS
  <2> QED
    BY <1>1, <2>1, FS_EmptySet DEF CountOf
<1>4. Absorbed(NewController, ids)
  <2>1. 0 \in 0..Len(ids) /\ SubSeq(ids, 1, 0) = << >>
    OBVIOUS
  <2> QED
    BY <1>1, <1>2, <2>1, DecodeEmpty DEF Absorbed
<1>5. PICK e \in Seq(Characters) : e = << >> /\ Len(e) = 0
  <2>1. << >> \in Seq(Characters) /\ Len(<< >>) = 0
    OBVIOUS
  <2> QED
    BY <2>1
<1>6. DetectorWalk(e) = WalkStart
  BY <1>5, WalkedAlong
<1>7. Matches(NewController, WalkStart)
  BY <1>1, <1>3 DEF Matches, WalkStart
<1>8. HitsWithin(NewController, e, 0)
  <2>1. 0 \in 0..Len(Secret) /\ 0 \in 0..Len(e)
    BY SecretLetters
  <2>2. LcsAt(Secret, e, 0, 0) = 0
    BY <2>1, LcsRecursion, SecretLetters
  <2> QED
    BY <1>1, <1>3, <2>2 DEF HitsWithin
<1>9. Counts(NewController)
  BY <1>2, <1>5, <1>6, <1>7, <1>8 DEF Counts
<1> QED
  BY <1>1, <1>3, <1>4, <1>9 DEF NeverGaveUp

LEMMA AbsorbedLonger ==
  ASSUME NEW c, NEW ids \in Seq(Tokens), NEW t \in Tokens, Absorbed(c, ids)
  PROVE  Absorbed(c, Append(ids, t)) /\ Len(Append(ids, t)) > c.processed
<1>1. PICK k \in 0..Len(ids) : k = c.processed
  BY DEF Absorbed
<1>2. SubSeq(Append(ids, t), 1, k) = SubSeq(ids, 1, k) /\ k \in 0..Len(Append(ids, t))
      /\ Len(Append(ids, t)) > k
  OBVIOUS
<1> QED
  BY <1>1, <1>2 DEF Absorbed

\* Two controllers that absorbed the same and never gave up stand at the same
\* letter.
LEMMA SameTarget ==
  ASSUME NEW c, NEW r, Counts(c), Counts(r), c.text = r.text,
         NeverGaveUp(c), NeverGaveUp(r)
  PROVE  c.target = r.target
  BY DEF Counts, Matches

LEMMA BothQueried ==
  ASSUME NEW c \in ControllerType, NEW r \in ControllerType, NEW ids,
         Absorbed(c, ids), Counts(c), Absorbed(r, ids), Counts(r),
         c.text = r.text, Ahead(c, r)
  PROVE  Ahead(Query(c), Query(r))
<1> SUFFICES ASSUME NeverGaveUp(Query(r))
             PROVE  NeverGaveUp(Query(c)) /\ Query(c).prefixTokens <= Query(r).prefixTokens
  BY DEF Ahead
<1>1. /\ NeverGaveUp(r)
      /\ ~Exhausted(r) /\ IsPreLetter(r.text) =>
           r.prefixTokens + 1 <= MaxPrefixTokens /\ Query(r).prefixTokens = r.prefixTokens + 1
      /\ ~Exhausted(r) /\ ~IsPreLetter(r.text) => Query(r).prefixTokens = 0
      /\ Exhausted(r) => Query(r).prefixTokens = r.prefixTokens
  BY QueryTracks
<1>2. NeverGaveUp(c) /\ c.prefixTokens <= r.prefixTokens
  BY <1>1 DEF Ahead
<1>3. Exhausted(c) <=> Exhausted(r)
  BY <1>1, <1>2, SameTarget DEF Exhausted
<1>4. c.prefixTokens \in 0..MaxPrefixTokens /\ r.prefixTokens \in 0..MaxPrefixTokens
      /\ MaxPrefixTokens \in Nat \ {0}
  BY ControllerParts, SecretParts
<1>5. CASE Exhausted(c)
  <2>1. Query(c) = c
    BY <1>5 DEF Query
  <2> QED
    BY <1>1, <1>2, <1>3, <1>5, <2>1
<1>6. CASE ~Exhausted(c) /\ ~IsPreLetter(c.text)
  <2>1. Query(c) = Prefixed(c, 0) /\ 0 \in 0..MaxPrefixTokens
    BY <1>4, <1>6 DEF Query, Prefixed
  <2>2. Query(c).prefixTokens = 0 /\ (NeverGaveUp(Query(c)) <=> NeverGaveUp(c))
    BY <2>1, PrefixedTracks
  <2>3. Query(r).prefixTokens = 0
    BY <1>1, <1>3, <1>6
  <2> QED
    BY <1>2, <2>2, <2>3
<1>7. CASE ~Exhausted(c) /\ IsPreLetter(c.text)
  <2>1. r.prefixTokens + 1 <= MaxPrefixTokens /\ Query(r).prefixTokens = r.prefixTokens + 1
    BY <1>1, <1>3, <1>7
  <2>2. PICK n \in 0..MaxPrefixTokens :
          n = c.prefixTokens + 1 /\ n <= r.prefixTokens + 1 /\ ~(n > MaxPrefixTokens)
    BY <1>2, <1>4, <2>1
  <2>3. Query(c) = Prefixed(c, n)
    BY <1>7, <2>2, QueryCases
  <2>4. Query(c).prefixTokens = n /\ (NeverGaveUp(Query(c)) <=> NeverGaveUp(c))
    BY <2>3, PrefixedTracks
  <2> QED
    BY <1>2, <2>1, <2>2, <2>4
<1> QED
  BY <1>5, <1>6, <1>7

\* One step of the logits processor and of the replay.
LEMMA ApplyTracks ==
  ASSUME LettersStay, AcrosticInv, Apply
  PROVE  Tracks' /\ Phase'
<1>1. /\ output \in Seq(Tokens) /\ Len(output) <= MaxTokens
      /\ ctrl \in ControllerType /\ replay \in ControllerType
  BY DEF AcrosticInv, Typed, TypeOK
<1>2. /\ Absorbed(ctrl, output) /\ Counts(ctrl) /\ Absorbed(replay, output) /\ Counts(replay)
      /\ Ahead(ctrl, replay)
  BY DEF AcrosticInv, Tracks
<1>3. /\ bias = "ask" /\ ctrl' = Query(UpdateWithPast(ctrl, output))
      /\ bias' = BiasLetter(ctrl') /\ output' = output
  BY DEF Apply
<1>4. /\ replay' = Query(UpdateWithPast(replay, output))
      /\ replayBias' = BiasLetter(replay')
  <2>1. Len(output) > replay.processed \/ replayBias = "ask"
    BY <1>3 DEF AcrosticInv, Phase
  <2> QED
    BY <2>1 DEF Apply, Replay
<1> DEFINE c == UpdateWithPast(ctrl, output)
           r == UpdateWithPast(replay, output)
<1>5. /\ c \in ControllerType /\ Absorbed(c, output) /\ Counts(c)
      /\ c.processed = Len(output) /\ c.text = Decode(output)
      /\ c.prefixTokens = ctrl.prefixTokens /\ (NeverGaveUp(c) <=> NeverGaveUp(ctrl))
  BY <1>1, <1>2, UpdateTracks
<1>6. /\ r \in ControllerType /\ Absorbed(r, output) /\ Counts(r)
      /\ r.processed = Len(output) /\ r.text = Decode(output)
      /\ r.prefixTokens = replay.prefixTokens /\ (NeverGaveUp(r) <=> NeverGaveUp(replay))
  BY <1>1, <1>2, UpdateTracks
<1> HIDE DEF c, r
<1>7. Ahead(c, r)
  BY <1>2, <1>5, <1>6 DEF Ahead
<1>8. ctrl' = Query(c) /\ replay' = Query(r)
  BY <1>3, <1>4 DEF c, r
<1>9. Ahead(ctrl', replay')
  BY <1>5, <1>6, <1>7, <1>8, BothQueried
<1>10. /\ Absorbed(ctrl', output) /\ Counts(ctrl') /\ ctrl'.processed = Len(output)
  BY <1>5, <1>8, QueryTracks
<1>11. /\ Absorbed(replay', output) /\ Counts(replay') /\ replay'.processed = Len(output)
  BY <1>6, <1>8, QueryTracks
<1>12. Tracks'
  BY <1>3, <1>9, <1>10, <1>11 DEF Tracks
<1>13. bias' # "ask"
  <2>1. ctrl' \in ControllerType
    BY <1>5, <1>8, QueryType
  <2>2. bias' \in Letters \cup {"none"}
    BY <1>3, <2>1, BiasType
  <2> QED
    BY <2>2, BiasAssumption
<1>14. Phase'
  BY <1>3, <1>4, <1>10, <1>11, <1>13 DEF Phase
<1> QED
  BY <1>12, <1>14

LEMMA AcrosticSteps == LettersStay /\ AcrosticInv /\ [Next]_vars => AcrosticInv'
<1> SUFFICES ASSUME LettersStay, AcrosticInv, [Next]_vars PROVE AcrosticInv'
  OBVIOUS
<1>1. Typed'
  BY TypedSteps DEF AcrosticInv
<1>2. output \in Seq(Tokens)
  BY DEF AcrosticInv, Typed, TypeOK
<1>3. CASE Apply
  BY <1>1, <1>3, ApplyTracks DEF AcrosticInv
<1>4. ASSUME NEW t \in Tokens, Sample(t) PROVE AcrosticInv'
  <2>1. /\ output' = Append(output, t) /\ bias' = "ask"
        /\ ctrl' = ctrl /\ replay' = replay /\ replayBias' = replayBias
    BY <1>4 DEF Sample
  <2>2. /\ Absorbed(ctrl, output') /\ Absorbed(replay, output')
        /\ Len(output') > replay.processed
    BY <1>2, <2>1, AbsorbedLonger DEF AcrosticInv, Tracks
  <2>3. Tracks'
    BY <2>1, <2>2 DEF AcrosticInv, Tracks
  <2>4. Phase'
    BY <2>1, <2>2 DEF Phase
  <2> QED
    BY <1>1, <2>3, <2>4 DEF AcrosticInv
<1>5. CASE Preempt
  <2>1. /\ bias = "ask" /\ ctrl' = NewController
        /\ UNCHANGED <<output, bias, replay, replayBias>>
    BY <1>5 DEF Preempt
  <2>2. /\ Absorbed(NewController, output) /\ Counts(NewController)
        /\ NeverGaveUp(NewController) /\ NewController.prefixTokens = 0
    BY <1>2, NewControllerTracks
  <2>3. Ahead(NewController, replay)
    <3>1. replay.prefixTokens \in 0..MaxPrefixTokens /\ MaxPrefixTokens \in Nat
      <4>1. replay \in ControllerType
        BY DEF AcrosticInv, Typed, TypeOK
      <4> QED
        BY <4>1, ControllerParts, SecretParts
    <3>2. 0 <= replay.prefixTokens
      BY <3>1
    <3> QED
      BY <2>2, <3>2 DEF Ahead
  <2>4. Tracks'
    BY <2>1, <2>2, <2>3 DEF AcrosticInv, Tracks
  <2>5. Phase'
    BY <2>1 DEF AcrosticInv, Phase
  <2> QED
    BY <1>1, <2>4, <2>5 DEF AcrosticInv
<1>6. CASE UNCHANGED vars
  <2>1. Tracks'
    BY <1>6 DEF AcrosticInv, Tracks, vars
  <2>2. Phase'
    BY <1>6 DEF AcrosticInv, Phase, vars
  <2> QED
    BY <1>1, <2>1, <2>2 DEF AcrosticInv
<1>7. CASE Finished
  BY <1>6, <1>7 DEF Finished
<1> QED
  BY <1>3, <1>4, <1>5, <1>6, <1>7 DEF Next

LEMMA AcrosticStart == Init => AcrosticInv
<1> SUFFICES ASSUME Init PROVE AcrosticInv
  OBVIOUS
<1>1. /\ output = << >> /\ bias = "ask" /\ ctrl = NewController /\ replay = NewController
      /\ replayBias = "ask"
  BY DEF Init
<1>2. << >> \in Seq(Tokens)
  OBVIOUS
<1>3. /\ Absorbed(NewController, << >>) /\ Counts(NewController)
      /\ NeverGaveUp(NewController) /\ NewController.prefixTokens = 0
  BY <1>2, NewControllerTracks
<1>4. Tracks
  BY <1>1, <1>3 DEF Tracks, Ahead
<1>5. Phase
  BY <1>1 DEF Phase
<1> QED
  BY <1>4, <1>5, TypedInit DEF AcrosticInv

LEMMA AlwaysAcrostic == LettersStay => (Spec => []AcrosticInv)
<1> SUFFICES ASSUME LettersStay PROVE Spec => []AcrosticInv
  OBVIOUS
<1>1. AcrosticInv /\ [Next]_vars => AcrosticInv'
  BY AcrosticSteps
<1> QED
  BY <1>1, AcrosticStart, PTL DEF Spec

\* Hits, skips and the next letter as the detector counts them over the
\* response so far are those of the controller, however the letters were
\* absorbed, unless it gave up on a letter in a prefix that was too long.
THEOREM DetectorAlwaysAgrees ==
  ASSUME LettersStay
  PROVE  Spec => []DetectorAgreesUnlessGivenUp
<1>1. AcrosticInv => DetectorAgreesUnlessGivenUp
  <2> SUFFICES ASSUME AcrosticInv, NeverGaveUp(ctrl), bias # "ask"
               PROVE  LET walk == DetectorWalk(FirstLetters(Response))
                      IN  /\ walk.hits = CountOf(ctrl, "hit")
                          /\ walk.skips = CountOf(ctrl, "skip")
                          /\ walk.target = ctrl.target
    BY DEF DetectorAgreesUnlessGivenUp, DetectorAgrees
  <2>1. ctrl.text = Response
    <3>1. output \in Seq(Tokens) /\ ctrl.processed = Len(output) /\ Absorbed(ctrl, output)
      BY DEF AcrosticInv, Typed, TypeOK, Tracks, Phase
    <3> QED
      BY <3>1, WholeResponse DEF Absorbed, Response
  <2>2. Matches(ctrl, DetectorWalk(FirstLetters(Response)))
    BY <2>1 DEF AcrosticInv, Tracks, Counts
  <2> QED
    BY <2>2 DEF Matches
<1>2. Spec => []AcrosticInv
  BY AlwaysAcrostic
<1> QED
  BY <1>1, <1>2, PTL

\* The replay of the response finds the bias the sampler applied, also after
\* preemptions, unless the replayed controller gave up in a prefix.
THEOREM ReplayAlwaysFindsBias ==
  ASSUME LettersStay
  PROVE  Spec => []ReplayFindsBias
<1>1. AcrosticInv => ReplayFindsBias
  <2> SUFFICES ASSUME AcrosticInv, bias # "ask", NeverGaveUp(replay)
               PROVE  replayBias = bias
    BY DEF ReplayFindsBias
  <2>1. /\ output \in Seq(Tokens)
        /\ ctrl.processed = Len(output) /\ bias = BiasLetter(ctrl)
        /\ replay.processed = Len(output) /\ replayBias = BiasLetter(replay)
    BY DEF AcrosticInv, Typed, TypeOK, Phase
  <2>2. /\ Absorbed(ctrl, output) /\ Counts(ctrl) /\ Absorbed(replay, output) /\ Counts(replay)
        /\ NeverGaveUp(ctrl)
    BY DEF AcrosticInv, Tracks, Ahead
  <2>3. ctrl.text = replay.text
    BY <2>1, <2>2 DEF Absorbed
  <2>4. ctrl.target = replay.target
    BY <2>2, <2>3, SameTarget
  <2> QED
    BY <2>1, <2>3, <2>4 DEF BiasLetter, Exhausted, Wanted
<1>2. Spec => []AcrosticInv
  BY AlwaysAcrostic
<1> QED
  BY <1>1, <1>2, PTL

\* More of the secret, a longer common subsequence.
LEMMA LcsOfWhole ==
  ASSUME NEW letters \in Seq(Characters), NEW k \in 0..Len(Secret)
  PROVE  LcsAt(Secret, letters, k, Len(letters)) <= Lcs(Secret, letters)
<1> DEFINE m == Len(Secret)
           n == Len(letters)
           At(i) == LcsAt(Secret, letters, i, n)
           T == {d \in Nat : k + d <= m => At(k) <= At(k + d)}
<1>1. m \in Nat /\ n \in 0..n /\ k \in Nat /\ k <= m
  BY SecretLetters
<1>2. \A i \in 0..m : At(i) \in Nat /\ (i > 0 => At(i - 1) <= At(i))
  <2>1. \A i \in 0..m : LcsGrows(Secret, letters, i, n)
    BY <1>1, LcsMonotone, SecretLetters
  <2> QED
    BY <2>1 DEF LcsGrows
<1>3. Lcs(Secret, letters) = At(m)
  BY LcsIs
<1> HIDE DEF At, m, n
<1>4. k + 0 = k /\ k \in 0..m
  BY <1>1
<1>5. 0 \in T
  <2>1. At(k) \in Nat
    BY <1>2, <1>4
  <2>2. At(k) <= At(k + 0)
    BY <1>4, <2>1
  <2> QED
    BY <2>2
<1>6. ASSUME NEW d \in Nat, d \in T PROVE d + 1 \in T
  <2>1. ASSUME k + (d + 1) <= m PROVE At(k) <= At(k + (d + 1))
    <3>1. PICK x \in 0..m, y \in 0..m : x = k + d /\ y = k + (d + 1) /\ y - 1 = x /\ y > 0
      <4>1. /\ k + d \in 0..m /\ k + (d + 1) \in 0..m /\ (k + (d + 1)) - 1 = k + d
            /\ k + (d + 1) > 0
        BY <1>1, <2>1
      <4> QED
        BY <4>1
    <3>2. At(k) <= At(x)
      <4>1. k + d <= m
        BY <1>1, <2>1
      <4> QED
        BY <1>6, <3>1, <4>1
    <3>3. At(x) <= At(y) /\ At(x) \in Nat /\ At(y) \in Nat /\ At(k) \in Nat
      BY <1>2, <1>4, <3>1
    <3>4. At(k) <= At(y)
      BY <3>2, <3>3
    <3> QED
      BY <3>1, <3>4
  <2>2. d + 1 \in Nat
    OBVIOUS
  <2> QED
    BY <2>1, <2>2
<1>7. Nat \subseteq T
  <2> HIDE DEF T
  <2> QED
    BY <1>5, <1>6, Induction
<1>8. m - k \in Nat /\ k + (m - k) = m
  BY <1>1
<1>9. At(k) <= At(m)
  <2>1. m - k \in T
    BY <1>7, <1>8
  <2>2. PICK d \in Nat : d = m - k /\ k + d = m /\ k + d <= m
    BY <1>1, <1>8
  <2> QED
    BY <2>1, <2>2
<1> QED
  BY <1>3, <1>9 DEF At, n

\* Whatever was skipped, the hits are never more than the longest common
\* subsequence of the secret and the letters of the response.
THEOREM HitsAlwaysCommon ==
  ASSUME LettersStay
  PROVE  Spec => []HitsAreCommonSubsequence
<1>1. AcrosticInv => HitsAreCommonSubsequence
  <2> SUFFICES ASSUME AcrosticInv, bias # "ask"
               PROVE  CountOf(ctrl, "hit") <= Lcs(Secret, FirstLetters(Response))
    BY DEF HitsAreCommonSubsequence
  <2>0. output \in Seq(Tokens) /\ ctrl \in ControllerType
        /\ ctrl.processed = Len(output) /\ Absorbed(ctrl, output) /\ Counts(ctrl)
    BY DEF AcrosticInv, Typed, TypeOK, Tracks, Phase
  <2>1. ctrl.text = Response
    BY <2>0, WholeResponse DEF Absorbed, Response
  <2>2. PICK letters \in Seq(Characters) : letters = FirstLetters(Response)
    BY <2>0, <2>1, FirstLettersType, ControllerParts
  <2>3. PICK k \in 0..Len(Secret) : k = ctrl.target
    BY <2>0, ControllerParts
  <2>4. CountOf(ctrl, "hit") <= LcsAt(Secret, letters, k, Len(letters))
    BY <2>0, <2>1, <2>2, <2>3 DEF Counts, HitsWithin
  <2>5. LcsAt(Secret, letters, k, Len(letters)) <= Lcs(Secret, letters)
    BY LcsOfWhole
  <2>6. /\ CountOf(ctrl, "hit") \in Nat
        /\ LcsAt(Secret, letters, k, Len(letters)) \in Nat
        /\ Lcs(Secret, letters) \in Nat
    <3>1. Len(letters) \in 0..Len(letters) /\ Len(Secret) \in 0..Len(Secret)
      BY SecretLetters
    <3>2. LcsGrows(Secret, letters, k, Len(letters))
          /\ LcsGrows(Secret, letters, Len(Secret), Len(letters))
      BY <3>1, LcsMonotone, SecretLetters
    <3> QED
      BY <2>0, <3>2, LcsIs, CountsAreNumbers DEF LcsGrows
  <2>7. CountOf(ctrl, "hit") <= Lcs(Secret, letters)
    BY <2>4, <2>5, <2>6
  <2> QED
    BY <2>2, <2>7
<1>2. Spec => []AcrosticInv
  BY AlwaysAcrostic
<1> QED
  BY <1>1, <1>2, PTL

-----------------------------------------------------------------------------
(***************************************************************************)
(* When a letter is given up in a prefix.  The count of its tokens tells   *)
(* how many texts, up to the last one absorbed, stood before a letter; it  *)
(* need not do so when several tokens are absorbed at once: only a new     *)
(* controller, which has counted none, absorbs so many.                    *)
(***************************************************************************)
LEMMA ExhaustedResolves ==
  ASSUME NEW c, NEW s \in Seq(Characters), Exhausted(c)
  PROVE  Folded("resolve", c, s) = c
<1> DEFINE f(k) == Folded("resolve", c, SubSeq(s, 1, k))
           T == {k \in Nat : k <= Len(s) => f(k) = c}
<1>1. /\ f(0) = c /\ SubSeq(s, 1, Len(s)) = s
      /\ \A k \in Nat : k + 1 <= Len(s) => f(k + 1) = FoldBy("resolve", f(k), s[k + 1])
  <2>1. Along("resolve", c, s)
    BY FoldedAlong, Zenon
  <2> QED
    BY <2>1 DEF Along
<1> HIDE DEF f
<1>2. 0 \in T
  BY <1>1
<1>3. ASSUME NEW k \in Nat, k \in T PROVE k + 1 \in T
  <2>1. ASSUME k + 1 <= Len(s) PROVE f(k + 1) = c
    <3>1. f(k) = c
      BY <1>3, <2>1
    <3>2. f(k + 1) = Resolve(c, s[k + 1])
      BY <1>1, <2>1, <3>1 DEF FoldBy
    <3> QED
      BY <3>2 DEF Resolve
  <2>2. k + 1 \in Nat
    OBVIOUS
  <2> QED
    BY <2>1, <2>2
<1>4. Len(s) \in T
  <2>1. Len(s) \in Nat
    OBVIOUS
  <2> HIDE DEF T
  <2> QED
    BY <1>2, <1>3, <2>1, Induction
<1>5. f(Len(s)) = c
  BY <1>4
<1> QED
  BY <1>1, <1>5 DEF f

\* What absorbing the rest of the response does to the count.
LEMMA UpdateCounted ==
  ASSUME NEW c \in ControllerType, NEW ids \in Seq(Tokens), Len(ids) <= MaxTokens,
         c.processed \in 0..Len(ids), c.text = Decode(SubSeq(ids, 1, c.processed))
  PROVE  LET u == UpdateWithPast(c, ids)
         IN  /\ u \in ControllerType /\ u.processed = Len(ids) /\ u.text = Decode(ids)
             /\ u.prefixTokens = c.prefixTokens
             /\ CountOf(u, "skip_max_prefix") = CountOf(c, "skip_max_prefix")
             /\ ~Exhausted(u) => ~Exhausted(c)
<1> DEFINE u == UpdateWithPast(c, ids)
<1>0. u \in ControllerType
  BY UpdateType
<1>1. CASE Len(ids) <= c.processed
  <2>1. u = c /\ c.processed = Len(ids)
    BY <1>1 DEF UpdateWithPast
  <2>2. c.text = Decode(ids)
    BY <2>1, WholeResponse
  <2> HIDE DEF u
  <2> QED
    BY <1>0, <2>1, <2>2 DEF u
<1>2. CASE ~(Len(ids) <= c.processed)
  <2>1. PICK text \in Seq(Characters), letters \in Seq(Characters) :
          \E d \in ControllerType : Updated(c, ids, text, letters, d, u)
    BY <1>2, UpdateParts
  <2>2. PICK after \in ControllerType : Updated(c, ids, text, letters, after, u)
    BY <2>1
  <2> HIDE DEF u
  <2>3. /\ text = c.text \o Decode(SubSeq(ids, c.processed + 1, Len(ids)))
        /\ after = Folded("resolve", c, Fresh(c, letters))
        /\ Kept(c, after)
        /\ u.processed = Len(ids) /\ u.text = text /\ u.target = after.target
        /\ u.prefixTokens = c.prefixTokens /\ u.trace = after.trace
    BY <2>2 DEF Updated
  <2>4. text = Decode(ids)
    BY <2>3, DecodeRest
  <2>5. CountOf(u, "skip_max_prefix") = CountOf(c, "skip_max_prefix")
    BY <2>3 DEF CountOf, Kept
  <2>6. ASSUME Exhausted(c) PROVE Exhausted(u)
    <3>1. Fresh(c, letters) \in Seq(Characters)
      BY FreshType
    <3>2. after = c
      BY <2>3, <2>6, <3>1, ExhaustedResolves
    <3> QED
      BY <2>3, <2>6, <3>2 DEF Exhausted
  <2> QED
    BY <1>0, <2>3, <2>4, <2>5, <2>6 DEF u
<1> QED
  BY <1>1, <1>2

\* The last k texts up to the one of n tokens stood before a first letter.
PrefixRun(ids, k, n) ==
  k <= n + 1 /\ \A m \in 0..n : n < m + k => IsPreLetter(Decode(SubSeq(ids, 1, m)))

CountedInv ==
  /\ ctrl.processed \in 0..Len(output)
  /\ ctrl.text = Decode(SubSeq(output, 1, ctrl.processed))
  /\ bias # "ask" => ctrl.processed = Len(output) /\ bias = BiasLetter(ctrl)
  /\ ~Exhausted(ctrl) /\ ctrl.prefixTokens > 0 =>
       /\ bias = "ask" => Len(output) = ctrl.processed + 1
       /\ PrefixRun(output, ctrl.prefixTokens, ctrl.processed)

GivenUpNow == CountOf(ctrl', "skip_max_prefix") > CountOf(ctrl, "skip_max_prefix")
StuckHere ==
  /\ Len(output) >= MaxPrefixTokens
  /\ \A n \in Len(output) - MaxPrefixTokens..Len(output) :
       IsPreLetter(Decode(SubSeq(output, 1, n)))

LEMMA PrefixRunLonger ==
  ASSUME NEW ids, NEW n \in Nat, NEW k \in Nat, IsPreLetter(Decode(SubSeq(ids, 1, n))),
         k > 0 => PrefixRun(ids, k, n - 1)
  PROVE  PrefixRun(ids, k + 1, n)
<1>1. k + 1 <= n + 1
  BY DEF PrefixRun
<1>2. ASSUME NEW m \in 0..n, n < m + (k + 1)
      PROVE  IsPreLetter(Decode(SubSeq(ids, 1, m)))
  <2>1. CASE m = n
    BY <2>1
  <2>2. CASE m # n
    <3>1. k > 0 /\ m \in 0..(n - 1) /\ n - 1 < m + k
      BY <1>2, <2>2
    <3> QED
      BY <3>1 DEF PrefixRun
  <2> QED
    BY <2>1, <2>2
<1> QED
  BY <1>1, <1>2 DEF PrefixRun

LEMMA ApplyCounted ==
  ASSUME Typed, CountedInv, Apply
  PROVE  CountedInv' /\ (GivenUpNow => StuckHere)
<1>1. /\ output \in Seq(Tokens) /\ Len(output) <= MaxTokens /\ ctrl \in ControllerType
      /\ Len(output) \in Nat
  BY DEF Typed, TypeOK
<1>2. bias = "ask" /\ output' = output /\ ctrl' = Query(UpdateWithPast(ctrl, output))
      /\ bias' = BiasLetter(ctrl')
  BY DEF Apply
<1> DEFINE c == UpdateWithPast(ctrl, output)
           k == ctrl.prefixTokens
<1>3. /\ c \in ControllerType /\ c.processed = Len(output) /\ c.text = Decode(output)
      /\ c.prefixTokens = k
      /\ CountOf(c, "skip_max_prefix") = CountOf(ctrl, "skip_max_prefix")
      /\ ~Exhausted(c) => ~Exhausted(ctrl)
  BY <1>1, UpdateCounted DEF CountedInv
<1> HIDE DEF c
<1>4. ctrl' = Query(c)
  BY <1>2 DEF c
<1>5. k \in 0..MaxPrefixTokens /\ MaxPrefixTokens \in Nat \ {0}
  BY <1>1, ControllerParts, SecretParts
<1> HIDE DEF k
<1>6. SubSeq(output, 1, Len(output)) = output
  BY <1>1
<1>7. bias' # "ask"
  <2>1. ctrl' \in ControllerType
    BY <1>3, <1>4, QueryType
  <2> QED
    BY <1>2, <2>1, BiasType, BiasAssumption
<1>8. ~Exhausted(c) /\ IsPreLetter(c.text) => PrefixRun(output, k + 1, Len(output))
  <2> SUFFICES ASSUME ~Exhausted(c), IsPreLetter(c.text)
               PROVE  PrefixRun(output, k + 1, Len(output))
    OBVIOUS
  <2>1. k > 0 => PrefixRun(output, k, Len(output) - 1)
    <3> SUFFICES ASSUME k > 0 PROVE PrefixRun(output, k, Len(output) - 1)
      OBVIOUS
    <3>1. Len(output) = ctrl.processed + 1 /\ PrefixRun(output, k, ctrl.processed)
      BY <1>2, <1>3 DEF CountedInv, k
    <3>2. ctrl.processed = Len(output) - 1
      BY <3>1, <1>1, ControllerParts
    <3> QED
      BY <3>1, <3>2
  <2>2. k \in Nat
    BY <1>5
  <2> QED
    BY <1>1, <1>3, <1>6, <2>1, <2>2, PrefixRunLonger
<1>9. ASSUME NEW q \in ControllerType, q.processed = Len(output), q.text = Decode(output),
             ctrl' = q,
             ~Exhausted(q) /\ q.prefixTokens > 0 =>
               PrefixRun(output, q.prefixTokens, Len(output))
      PROVE  CountedInv'
  <2>1. Len(output) \in 0..Len(output)
    BY <1>1
  <2> QED
    BY <1>2, <1>6, <1>7, <1>9, <2>1 DEF CountedInv, Exhausted
<1>10. CASE Exhausted(c)
  <2>1. ctrl' = c
    BY <1>4, <1>10 DEF Query
  <2>2. ~GivenUpNow
    BY <1>1, <1>3, <2>1, CountsAreNumbers DEF GivenUpNow
  <2> QED
    BY <1>3, <1>9, <1>10, <2>1, <2>2
<1>11. CASE ~Exhausted(c) /\ ~IsPreLetter(c.text)
  <2>1. ctrl' = Prefixed(c, 0) /\ 0 \in 0..MaxPrefixTokens
    BY <1>4, <1>5, <1>11, QueryCases, <1>3
  <2>2. /\ ctrl' \in ControllerType /\ ctrl'.processed = c.processed /\ ctrl'.text = c.text
        /\ ctrl'.prefixTokens = 0 /\ ctrl'.trace = c.trace
    BY <1>3, <2>1, PrefixedParts
  <2>3. ~GivenUpNow
    <3>1. CountOf(ctrl', "skip_max_prefix") = CountOf(ctrl, "skip_max_prefix")
      BY <1>3, <2>2 DEF CountOf
    <3> QED
      BY <1>1, <3>1, CountsAreNumbers DEF GivenUpNow
  <2> QED
    BY <1>3, <1>9, <2>2, <2>3
<1>12. CASE ~Exhausted(c) /\ IsPreLetter(c.text) /\ k + 1 > MaxPrefixTokens
  <2>1. ctrl' = GivenUp(c)
    BY <1>3, <1>4, <1>12, QueryCases
  <2>2. /\ ctrl' \in ControllerType /\ ctrl'.processed = c.processed /\ ctrl'.text = c.text
        /\ ctrl'.prefixTokens = 1
    BY <1>3, <1>12, <2>1, GivenUpParts
  <2>3. PrefixRun(output, MaxPrefixTokens + 1, Len(output))
    <3>1. k = MaxPrefixTokens
      BY <1>5, <1>12
    <3> QED
      BY <1>8, <1>12, <3>1
  <2>4. PrefixRun(output, 1, Len(output))
    BY <1>1, <1>5, <2>3 DEF PrefixRun
  <2>5. StuckHere
    <3>1. Len(output) >= MaxPrefixTokens
      BY <1>1, <1>5, <2>3 DEF PrefixRun
    <3>2. ASSUME NEW n \in Len(output) - MaxPrefixTokens..Len(output)
          PROVE  IsPreLetter(Decode(SubSeq(output, 1, n)))
      <4>1. n \in 0..Len(output) /\ Len(output) < n + (MaxPrefixTokens + 1)
        BY <1>1, <1>5, <3>1
      <4> QED
        BY <2>3, <4>1 DEF PrefixRun
    <3> QED
      BY <3>1, <3>2 DEF StuckHere
  <2> QED
    BY <1>3, <1>9, <2>2, <2>4, <2>5
<1>13. CASE ~Exhausted(c) /\ IsPreLetter(c.text) /\ ~(k + 1 > MaxPrefixTokens)
  <2>1. PICK n \in 0..MaxPrefixTokens : n = k + 1
    BY <1>5, <1>13
  <2>2. ctrl' = Prefixed(c, n)
    BY <1>3, <1>4, <1>13, <2>1, QueryCases
  <2>3. /\ ctrl' \in ControllerType /\ ctrl'.processed = c.processed /\ ctrl'.text = c.text
        /\ ctrl'.prefixTokens = n /\ ctrl'.trace = c.trace
    BY <1>3, <2>2, PrefixedParts
  <2>4. ~GivenUpNow
    <3>1. CountOf(ctrl', "skip_max_prefix") = CountOf(ctrl, "skip_max_prefix")
      BY <1>3, <2>3 DEF CountOf
    <3> QED
      BY <1>1, <3>1, CountsAreNumbers DEF GivenUpNow
  <2> QED
    BY <1>3, <1>8, <1>9, <1>13, <2>1, <2>3, <2>4
<1> QED
  BY <1>10, <1>11, <1>12, <1>13

LEMMA CountedSteps ==
  Typed /\ CountedInv /\ [Next]_vars => CountedInv' /\ (GivenUpNow => StuckHere)
<1> SUFFICES ASSUME Typed, CountedInv, [Next]_vars
             PROVE  CountedInv' /\ (GivenUpNow => StuckHere)
  OBVIOUS
<1>1. output \in Seq(Tokens) /\ ctrl \in ControllerType /\ Len(output) \in Nat
  BY DEF Typed, TypeOK
<1>2. ctrl' = ctrl => ~GivenUpNow
  <2> SUFFICES ASSUME ctrl' = ctrl PROVE ~GivenUpNow
    OBVIOUS
  <2>1. CountOf(ctrl', "skip_max_prefix") = CountOf(ctrl, "skip_max_prefix")
        /\ CountOf(ctrl, "skip_max_prefix") \in Nat
    BY <1>1, CountsAreNumbers
  <2> QED
    BY <2>1 DEF GivenUpNow
<1>3. CASE Apply
  BY <1>3, ApplyCounted
<1>4. ASSUME NEW t \in Tokens, Sample(t) PROVE CountedInv' /\ (GivenUpNow => StuckHere)
  <2>1. bias # "ask" /\ output' = Append(output, t) /\ bias' = "ask" /\ ctrl' = ctrl
    BY <1>4 DEF Sample
  <2>2. PICK n \in 0..Len(output) : n = ctrl.processed /\ n = Len(output)
    BY <2>1 DEF CountedInv
  <2>3. /\ \A m \in 0..n : SubSeq(output', 1, m) = SubSeq(output, 1, m)
        /\ Len(output') = n + 1 /\ n \in 0..Len(output') /\ n \in 0..n
    BY <1>1, <2>1, <2>2
  <2>4. \A k : PrefixRun(output, k, n) => PrefixRun(output', k, n)
    BY <2>3 DEF PrefixRun
  <2>5. ctrl.text = Decode(SubSeq(output', 1, n))
    BY <2>2, <2>3 DEF CountedInv
  <2>6. ~Exhausted(ctrl) /\ ctrl.prefixTokens > 0 => PrefixRun(output', ctrl.prefixTokens, n)
    BY <2>2, <2>4 DEF CountedInv
  <2>7. CountedInv'
    BY <2>1, <2>2, <2>3, <2>5, <2>6 DEF CountedInv, Exhausted
  <2> QED
    BY <1>2, <2>1, <2>7
<1>5. CASE Preempt
  <2>1. bias = "ask" /\ ctrl' = NewController /\ bias' = bias /\ output' = output
    BY <1>5 DEF Preempt
  <2>2. /\ NewController.processed = 0 /\ NewController.text = << >>
        /\ NewController.prefixTokens = 0 /\ NewController.trace = << >>
    BY DEF NewController
  <2>3. 0 \in 0..Len(output) /\ SubSeq(output, 1, 0) = << >>
    BY <1>1
  <2>4. CountedInv'
    <3>1. /\ ctrl'.processed = 0 /\ ctrl'.text = << >> /\ ~(ctrl'.prefixTokens > 0)
          /\ bias' = "ask"
      BY <2>1, <2>2
    <3>2. ctrl'.processed \in 0..Len(output')
      BY <2>1, <2>3, <3>1
    <3>3. ctrl'.text = Decode(SubSeq(output', 1, ctrl'.processed))
      BY <2>1, <2>3, <3>1, DecodeEmpty
    <3> QED
      BY <3>1, <3>2, <3>3 DEF CountedInv
  <2>5. ~GivenUpNow
    <3>1. NeverGaveUp(NewController)
      BY <1>1, NewControllerTracks
    <3>2. CountOf(ctrl', "skip_max_prefix") = 0 /\ CountOf(ctrl, "skip_max_prefix") \in Nat
      BY <1>1, <2>1, <3>1, CountsAreNumbers DEF NeverGaveUp
    <3> QED
      BY <3>2 DEF GivenUpNow
  <2> QED
    BY <2>4, <2>5
<1>6. CASE UNCHANGED vars
  <2>1. ctrl' = ctrl /\ output' = output /\ bias' = bias
    BY <1>6 DEF vars
  <2>2. CountedInv'
    BY <2>1 DEF CountedInv, Exhausted
  <2> QED
    BY <1>2, <2>1, <2>2
<1>7. CASE Finished
  BY <1>6, <1>7 DEF Finished
<1> QED
  BY <1>3, <1>4, <1>5, <1>6, <1>7 DEF Next

LEMMA CountedStart == Init => CountedInv
<1> SUFFICES ASSUME Init PROVE CountedInv
  OBVIOUS
<1>1. output = << >> /\ bias = "ask" /\ ctrl = NewController
  BY DEF Init
<1>2. NewController.processed = 0 /\ NewController.text = << >> /\ NewController.prefixTokens = 0
  BY DEF NewController
<1>3. 0 \in 0..Len(<< >>) /\ SubSeq(<< >>, 1, 0) = << >>
  OBVIOUS
<1>4. ctrl.processed \in 0..Len(output) /\ ~(ctrl.prefixTokens > 0)
  BY <1>1, <1>2, <1>3
<1>5. ctrl.text = Decode(SubSeq(output, 1, ctrl.processed))
  BY <1>1, <1>2, <1>3, DecodeEmpty
<1> QED
  BY <1>1, <1>4, <1>5 DEF CountedInv

LEMMA AlwaysCounted == Spec => [](Typed /\ CountedInv)
<1>1. Typed /\ CountedInv /\ [Next]_vars => CountedInv'
  BY CountedSteps
<1> QED
  BY <1>1, CountedStart, TypedInit, TypedSteps, PTL DEF Spec

\* A letter is given up in a prefix only after MaxPrefixTokens tokens in a row
\* that all left the text before a first letter, whatever was preempted.
THEOREM GivesUpOnlyStuck == Spec => GivesUpStuck
<1>1. Typed /\ CountedInv /\ [Next]_vars => [GivenUpNow => StuckHere]_vars
  BY CountedSteps
<1>2. [GivenUpNow => StuckHere]_vars
        => [CountOf(ctrl', "skip_max_prefix") > CountOf(ctrl, "skip_max_prefix") =>
              /\ Len(output) >= MaxPrefixTokens
              /\ \A n \in Len(output) - MaxPrefixTokens..Len(output) :
                   IsPreLetter(Decode(SubSeq(output, 1, n)))]_vars
  BY DEF GivenUpNow, StuckHere
<1> QED
  BY <1>1, <1>2, AlwaysCounted, PTL DEF Spec, GivesUpStuck

-----------------------------------------------------------------------------
(***************************************************************************)
(* The text with one letter more, as is_md_pre_letter sees it before the   *)
(* letter and the extractor after it: runs and markers.                    *)
(***************************************************************************)
\* A part of a text.
LEMMA CutIs ==
  ASSUME NEW s \in Seq(Characters), NEW p \in Nat, p >= 1, NEW e \in 1..Len(s), p <= e
  PROVE  /\ SubSeq(s, p, e - 1) \in Seq(Characters) /\ Len(SubSeq(s, p, e - 1)) = e - p
         /\ \A i \in 1..(e - p) : SubSeq(s, p, e - 1)[i] = s[(i + p) - 1]
         /\ \A i \in 1..(e - p) : SubSeq(s, p, e - 1)[i] = s[p + i - 1]
<1>1. Len(s) \in Nat /\ e \in Nat /\ e - 1 \in Nat /\ e - 1 <= Len(s) /\ p <= (e - 1) + 1
  OBVIOUS
<1>2. /\ SubSeq(s, p, e - 1) \in Seq(Characters) /\ Len(SubSeq(s, p, e - 1)) = e - p
      /\ \A i \in 1..(e - p) : SubSeq(s, p, e - 1)[i] = s[(i + p) - 1]
  BY <1>1
<1>3. \A i \in 1..(e - p) : (i + p) - 1 = p + i - 1
  BY <1>1
<1> QED
  BY <1>2, <1>3

\* A text with one letter more.
Longer(b, s) ==
  /\ s \in Seq(Characters) /\ b \in Seq(Characters)
  /\ Len(b) = Len(s) + 1
  /\ \A i \in 1..Len(s) : b[i] = s[i]
  /\ b[Len(s) + 1] \in Letters

LEMMA AppendIsLonger ==
  ASSUME NEW s \in Seq(Characters), NEW letter \in Letters
  PROVE  Longer(Append(s, letter), s)
<1>1. letter \in Characters
  BY DEF Characters
<1> QED
  BY <1>1 DEF Longer

\* A run of C reaches the end of the text, or does not start.
LEMMA RunToEnd ==
  ASSUME NEW s \in Seq(Characters), NEW p \in 1..Len(s) + 1, NEW C
  PROVE  SkipRun(s, p, C) = Len(s) + 1 <=> \A i \in p..Len(s) : s[i] \in C
<1>1. Len(s) \in Nat /\ p \in Nat
  OBVIOUS
<1>2. /\ Skips(s, p, C, SkipRun(s, p, C))
      /\ \A n : Skips(s, p, C, n) => n = SkipRun(s, p, C)
  BY SkipRunIs
<1>3. (Len(s) + 1) - 1 = Len(s) /\ Len(s) + 1 \in p..Len(s) + 1 /\ ~(Len(s) + 1 <= Len(s))
  BY <1>1
<1>4. Skips(s, p, C, Len(s) + 1) <=> \A i \in p..Len(s) : s[i] \in C
  BY <1>3 DEF Skips
<1> QED
  BY <1>2, <1>4

LEMMA RunStays ==
  ASSUME NEW s \in Seq(Characters), NEW p \in 1..Len(s) + 1, NEW C,
         p <= Len(s) => s[p] \notin C
  PROVE  SkipRun(s, p, C) = p
<1>1. p \in p..Len(s) + 1 /\ p..p - 1 = {}
  OBVIOUS
<1>2. Skips(s, p, C, p)
  BY <1>1 DEF Skips
<1> QED
  BY <1>2, SkipRunIs

\* A letter at the end changes no run and no marker.
LEMMA RunLonger ==
  ASSUME NEW b, NEW s, Longer(b, s), NEW p \in 1..Len(s) + 1, NEW C, C \subseteq Marks
  PROVE  SkipRun(b, p, C) = SkipRun(s, p, C)
<1>1. /\ s \in Seq(Characters) /\ b \in Seq(Characters) /\ Len(b) = Len(s) + 1
      /\ Len(s) \in Nat /\ p \in Nat /\ p \in 1..Len(b) + 1
      /\ \A i \in 1..Len(s) : b[i] = s[i]
      /\ b[Len(s) + 1] \notin C
  BY LetterNoMark DEF Longer
<1>2. PICK n : n = SkipRun(s, p, C)
  OBVIOUS
<1>3. n \in p..Len(s) + 1 /\ (n <= Len(s) => s[n] \notin C) /\ \A i \in p..n - 1 : s[i] \in C
  BY <1>1, <1>2, SkipRunIs DEF Skips
<1>4. n \in p..Len(b) + 1 /\ (n <= Len(s) => n \in 1..Len(s))
      /\ \A i \in p..n - 1 : i \in 1..Len(s)
  BY <1>1, <1>3
<1>5. n <= Len(b) => b[n] \notin C
  <2>1. CASE n <= Len(s)
    BY <1>1, <1>3, <1>4, <2>1
  <2>2. CASE n = Len(s) + 1
    BY <1>1, <2>2
  <2> QED
    BY <1>1, <1>3, <2>1, <2>2
<1>6. Skips(b, p, C, n)
  BY <1>1, <1>3, <1>4, <1>5 DEF Skips
<1> QED
  BY <1>1, <1>2, <1>6, SkipRunIs

LEMMA RunsLonger ==
  ASSUME NEW b, NEW s, Longer(b, s), NEW p \in 1..Len(s) + 1
  PROVE  /\ SkipRun(b, p, {" "}) = SkipRun(s, p, {" "})
         /\ SkipRun(b, p, {"#"}) = SkipRun(s, p, {"#"})
         /\ SkipRun(b, p, White) = SkipRun(s, p, White)
<1>1. \A C : C \subseteq Marks => SkipRun(b, p, C) = SkipRun(s, p, C)
  BY RunLonger
<1> QED
  BY <1>1, SomeMarks, Zenon

LEMMA MarkerLonger ==
  ASSUME NEW b, NEW s, Longer(b, s), NEW p \in 1..Len(s) + 1
  PROVE  MarkerUnit(b, p) = MarkerUnit(s, p)
<1>1. /\ s \in Seq(Characters) /\ b \in Seq(Characters) /\ Len(b) = Len(s) + 1
      /\ Len(s) \in Nat /\ p \in Nat
      /\ \A i \in 1..Len(s) : b[i] = s[i]
      /\ b[Len(s) + 1] \notin Marks
  BY LetterNoMark DEF Longer
<1>2. PICK i \in p..Len(s) + 1 : i = SkipRun(s, p, {" "}) /\ i = SkipRun(b, p, {" "})
  <2>1. SkipRun(s, p, {" "}) \in p..Len(s) + 1
    BY <1>1, SkipWithin
  <2>2. SkipRun(b, p, {" "}) = SkipRun(s, p, {" "})
    BY RunsLonger
  <2> QED
    BY <2>1, <2>2
<1>3. i \in 1..Len(s) + 1 /\ i \in Nat
  BY <1>1
<1>4. SkipRun(s, i, {"#"}) \in i..Len(s) + 1 /\ SkipRun(b, i, {"#"}) = SkipRun(s, i, {"#"})
  BY <1>1, <1>3, SkipWithin, RunsLonger
<1>5. MarkerFrom(s, i) \in i..Len(s) + 1 /\ MarkerFrom(b, i) = MarkerFrom(s, i)
  <2>1. CASE i <= Len(s)
    <3>1. i \in 1..Len(s) /\ ~(i > Len(s)) /\ ~(i > Len(b)) /\ i + 1 \in i..Len(s) + 1
          /\ i \in i..Len(s) + 1
      BY <1>1, <1>3, <2>1
    <3>2. b[i] = s[i]
      BY <1>1, <3>1
    <3> QED
      BY <1>4, <3>1, <3>2 DEF MarkerFrom
  <2>2. CASE i = Len(s) + 1
    <3>1. i > Len(s) /\ ~(i > Len(b)) /\ i \in i..Len(s) + 1
      BY <1>1, <2>2
    <3>2. b[i] # "#" /\ b[i] \notin {"*", ">"}
      <4>1. "#" \in Marks /\ {"*", ">"} \subseteq Marks
        BY DEF Marks
      <4> QED
        BY <1>1, <2>2, <4>1
    <3> QED
      BY <3>1, <3>2 DEF MarkerFrom
  <2> QED
    BY <1>1, <1>3, <2>1, <2>2
<1>6. PICK j \in i..Len(s) + 1 : j = MarkerFrom(s, i) /\ j = MarkerFrom(b, i)
  BY <1>5
<1>7. j \in 1..Len(s) + 1
  BY <1>1, <1>3
<1>8. SkipRun(b, j, White) = SkipRun(s, j, White)
  BY <1>7, RunsLonger
<1> QED
  BY <1>2, <1>6, <1>8, MarkerIs

LEMMA AfterMarkersLonger ==
  ASSUME NEW b, NEW s, Longer(b, s)
  PROVE  AfterMarkers(b) = AfterMarkers(s)
<1>1. PICK N \in Nat : /\ N = Len(s) + 1 /\ N >= 1
                       /\ s \in Seq(Characters) /\ b \in Seq(Characters) /\ Len(b) = N
  BY DEF Longer
<1> DEFINE g == RestTable(s)
           h == RestTable(b)
           T == {d \in Nat : \A p \in 1..N : p + d >= N => h[p] = g[p]}
<1>2. \A p \in 1..N : g[p] = RestStep(s, g, p)
  BY <1>1, RestExists
<1>3. \A p \in 1..N : h[p] = RestStep(b, h, p)
  <2>1. \A p \in 1..N : p \in 1..Len(b) + 1
    BY <1>1
  <2> QED
    BY <1>1, <2>1, RestExists
<1> HIDE DEF g, h
<1>4. \A p \in 1..N : MarkerUnit(s, p) \in p..N /\ MarkerUnit(b, p) = MarkerUnit(s, p)
  BY <1>1, MarkerWithin, MarkerLonger
<1>5. 0 \in T
  <2>1. ASSUME NEW p \in 1..N, p + 0 >= N PROVE h[p] = g[p]
    <3>1. MarkerUnit(s, p) = p /\ MarkerUnit(b, p) = p
      BY <1>4, <2>1
    <3> QED
      BY <1>2, <1>3, <3>1 DEF RestStep
  <2> QED
    BY <2>1
<1>6. ASSUME NEW d \in Nat, d \in T PROVE d + 1 \in T
  <2>1. ASSUME NEW p \in 1..N, p + (d + 1) >= N PROVE h[p] = g[p]
    <3>1. PICK q \in p..N : q = MarkerUnit(s, p) /\ q = MarkerUnit(b, p)
      BY <1>4
    <3>2. q # p => q \in 1..N /\ q + d >= N
      BY <2>1
    <3>3. q # p => h[q] = g[q]
      BY <1>6, <3>2
    <3>4. g[p] = RestStep(s, g, p) /\ h[p] = RestStep(b, h, p)
      BY <1>2, <1>3
    <3> QED
      BY <3>1, <3>3, <3>4 DEF RestStep
  <2>2. d + 1 \in Nat
    OBVIOUS
  <2> QED
    BY <2>1, <2>2
<1>7. N \in T
  <2> HIDE DEF T
  <2> QED
    BY <1>5, <1>6, Induction
<1>8. h[1] = g[1]
  <2>1. 1 \in 1..N /\ 1 + N >= N
    BY <1>1
  <2> QED
    BY <1>7, <2>1
<1> QED
  BY <1>8, AfterMarkersIs DEF g, h

\* What one marker consists of.
LEMMA MarkerSeen ==
  ASSUME NEW s \in Seq(Characters), NEW p \in 1..Len(s) + 1
  PROVE  /\ \A n \in p..MarkerUnit(s, p) - 1 : s[n] # "."
         /\ MarkerUnit(s, p) > p => \E n \in p..Len(s) : s[n] \in {"#", "*", ">"}
<1>1. Len(s) \in Nat /\ p \in Nat
  OBVIOUS
<1>2. PICK i \in p..Len(s) + 1 : i = SkipRun(s, p, {" "})
        /\ \A n \in p..i - 1 : s[n] \in {" "}
  BY SkipRunIs DEF Skips
<1>3. i \in 1..Len(s) + 1 /\ i \in Nat
  BY <1>1
<1>4. MarkerFrom(s, i) \in i..Len(s) + 1
      /\ (\A n \in i..MarkerFrom(s, i) - 1 : s[n] \in {"#", "*", ">"})
  <2>1. CASE i > Len(s)
    BY <1>1, <1>3, <2>1 DEF MarkerFrom
  <2>2. CASE i <= Len(s) /\ s[i] = "#"
    <3>1. PICK j : j = SkipRun(s, i, {"#"})
      OBVIOUS
    <3>2. j \in i..Len(s) + 1 /\ \A n \in i..j - 1 : s[n] \in {"#"}
      BY <1>3, <3>1, SkipRunIs DEF Skips
    <3>3. MarkerFrom(s, i) = j
      BY <1>1, <1>3, <2>2, <3>1 DEF MarkerFrom
    <3> QED
      BY <3>2, <3>3
  <2>3. CASE i <= Len(s) /\ s[i] # "#" /\ s[i] \in {"*", ">"}
    <3>1. MarkerFrom(s, i) = i + 1 /\ i + 1 \in i..Len(s) + 1 /\ \A n \in i..(i + 1) - 1 : n = i
      BY <1>1, <1>3, <2>3 DEF MarkerFrom
    <3> QED
      BY <2>3, <3>1
  <2>4. CASE i <= Len(s) /\ s[i] # "#" /\ s[i] \notin {"*", ">"}
    <3>1. MarkerFrom(s, i) = i /\ i \in i..Len(s) + 1 /\ i..i - 1 = {}
      BY <1>1, <1>3, <2>4 DEF MarkerFrom
    <3> QED
      BY <3>1
  <2> QED
    BY <1>1, <1>3, <2>1, <2>2, <2>3, <2>4
<1>5. PICK j \in i..Len(s) + 1 : j = MarkerFrom(s, i)
        /\ \A n \in i..j - 1 : s[n] \in {"#", "*", ">"}
  BY <1>4
<1>6. j \in 1..Len(s) + 1 /\ j \in Nat
  BY <1>1, <1>3
<1>7. PICK k \in j..Len(s) + 1 : k = SkipRun(s, j, White)
        /\ \A n \in j..k - 1 : s[n] \in White
  BY <1>6, SkipRunIs DEF Skips
<1>8. MarkerUnit(s, p) = IF j > i /\ k > j THEN k ELSE p
  BY <1>2, <1>5, <1>7, MarkerIs
<1>9. \A n \in p..k - 1 : s[n] # "."
  <2> SUFFICES ASSUME NEW n \in p..k - 1 PROVE s[n] # "."
    OBVIOUS
  <2>1. n \in p..i - 1 \/ n \in i..j - 1 \/ n \in j..k - 1
    BY <1>1, <1>3, <1>6
  <2>2. s[n] \in {" "} \/ s[n] \in {"#", "*", ">"} \/ s[n] \in White
    BY <1>2, <1>5, <1>7, <2>1
  <2> QED
    BY <2>2 DEF White
<1>10. j > i => \E n \in p..Len(s) : s[n] \in {"#", "*", ">"}
  <2>1. ASSUME j > i PROVE i \in i..j - 1 /\ i \in p..Len(s)
    BY <1>1, <1>3, <1>6, <2>1
  <2> QED
    BY <1>5, <2>1
<1>11. p..p - 1 = {} /\ ~(p > p)
  BY <1>1
<1> QED
  BY <1>8, <1>9, <1>10, <1>11

\* The markers at the start hold no full stop.
LEMMA AfterMarkersFree ==
  ASSUME NEW s \in Seq(Characters)
  PROVE  \A n \in 1..AfterMarkers(s) - 1 : s[n] # "."
<1>1. PICK N \in Nat : N = Len(s) + 1 /\ N >= 1
  OBVIOUS
<1> DEFINE g == RestTable(s)
           Free(p) == g[p] \in p..N /\ \A n \in p..g[p] - 1 : s[n] # "."
           T == {d \in Nat : \A p \in 1..N : p + d >= N => Free(p)}
<1>2. \A p \in 1..N : g[p] = RestStep(s, g, p)
  BY <1>1, RestExists
<1> HIDE DEF g
<1>3. \A p \in 1..N : MarkerUnit(s, p) \in p..N /\ \A n \in p..MarkerUnit(s, p) - 1 : s[n] # "."
  BY <1>1, MarkerWithin, MarkerSeen
<1>4. \A p \in 1..N : MarkerUnit(s, p) = p => Free(p)
  <2> SUFFICES ASSUME NEW p \in 1..N, MarkerUnit(s, p) = p PROVE Free(p)
    OBVIOUS
  <2>1. g[p] = p
    BY <1>2 DEF RestStep
  <2>2. p \in p..N /\ p..p - 1 = {}
    OBVIOUS
  <2> QED
    BY <2>1, <2>2
<1>5. 0 \in T
  <2>1. ASSUME NEW p \in 1..N, p + 0 >= N PROVE Free(p)
    <3>1. MarkerUnit(s, p) = p
      BY <1>3, <2>1
    <3> QED
      BY <1>4, <3>1
  <2> QED
    BY <2>1
<1>6. ASSUME NEW d \in Nat, d \in T PROVE d + 1 \in T
  <2>1. ASSUME NEW p \in 1..N, p + (d + 1) >= N PROVE Free(p)
    <3>1. PICK q \in p..N : q = MarkerUnit(s, p) /\ \A n \in p..q - 1 : s[n] # "."
      BY <1>3
    <3>2. CASE q = p
      BY <1>4, <3>1, <3>2
    <3>3. CASE q # p
      <4>1. q \in 1..N /\ q + d >= N
        BY <2>1, <3>3
      <4>2. Free(q)
        BY <1>6, <4>1
      <4>3. PICK e \in q..N : e = g[q] /\ e = g[p] /\ \A n \in q..e - 1 : s[n] # "."
        BY <1>2, <3>1, <3>3, <4>2 DEF RestStep
      <4>4. e \in p..N /\ \A n \in p..e - 1 : n \in p..q - 1 \/ n \in q..e - 1
        OBVIOUS
      <4> QED
        BY <3>1, <4>3, <4>4
    <3> QED
      BY <3>2, <3>3
  <2>2. d + 1 \in Nat
    OBVIOUS
  <2> HIDE DEF Free
  <2> QED
    BY <2>1, <2>2
<1>7. N \in T
  <2> HIDE DEF T
  <2> QED
    BY <1>5, <1>6, Induction
<1>8. Free(1)
  <2>1. 1 \in 1..N /\ 1 + N >= N
    BY <1>1
  <2> QED
    BY <1>7, <2>1
<1> QED
  BY <1>8, AfterMarkersIs DEF g

LEMMA PlainLineStart ==
  ASSUME NEW s \in Seq(Characters), ~IsMarkerLine(s)
  PROVE  AfterMarkers(s) = 1
<1>1. 1 \in 1..Len(s) + 1
  OBVIOUS
<1>2. MarkerUnit(s, 1) = 1
  BY <1>1, MarkerWithin DEF IsMarkerLine
<1>3. RestTable(s)[1] = RestStep(s, RestTable(s), 1)
  BY <1>1, RestExists
<1> QED
  BY <1>2, <1>3, AfterMarkersIs DEF RestStep

\* A marker line is not blank.
LEMMA MarkerNotBlank ==
  ASSUME NEW s \in Seq(Characters), IsMarkerLine(s)
  PROVE  ~Blank(s)
<1>1. 1 \in 1..Len(s) + 1
  OBVIOUS
<1>2. PICK n \in 1..Len(s) : s[n] \in {"#", "*", ">"}
  BY <1>1, MarkerSeen DEF IsMarkerLine
<1>3. s[n] \notin White
  BY <1>2 DEF White
<1> QED
  BY <1>3 DEF Blank

-----------------------------------------------------------------------------
(***************************************************************************)
(* Lines of the longer text: where a sentence ends, and whether the last   *)
(* letter is at an acrostic position.                                      *)
(***************************************************************************)
\* A text without code, tags, emphasis, quotes and brackets; a line of one.
SimpleText(t) ==
  /\ t \in Seq(Characters)
  /\ \A i \in 1..Len(t) : t[i] \notin {"fence", "tick", "<", "q", "*"}
SimpleLine(x) == SimpleText(x) /\ \A i \in 1..Len(x) : x[i] # "nl"

LEMMA OnlySpaces ==
  ASSUME NEW x, SimpleLine(x), NEW p \in 1..Len(x) + 1
  PROVE  OnlyDecoration(x, p) <=> \A i \in p..Len(x) : x[i] = " "
<1>1. /\ x \in Seq(Characters) /\ Len(x) \in Nat /\ p \in Nat
      /\ \A i \in 1..Len(x) : x[i] # "q" /\ x[i] # "*"
  BY DEF SimpleLine, SimpleText
<1>2. PICK n \in p..Len(x) + 1 : n = SkipRun(x, p, {" ", "*"})
  BY <1>1, SkipWithin
<1>3. n = Len(x) + 1 <=> \A i \in p..Len(x) : x[i] \in {" ", "*"}
  BY <1>1, <1>2, RunToEnd
<1>4. SkipRun(x, n, {"q"}) = n
  <2>1. n \in 1..Len(x) + 1 /\ (n <= Len(x) => n \in 1..Len(x))
    BY <1>1
  <2>2. n <= Len(x) => x[n] \notin {"q"}
    BY <1>1, <2>1
  <2> QED
    BY <1>1, <2>1, <2>2, RunStays
<1>5. \A i \in p..Len(x) : x[i] \in {" ", "*"} <=> x[i] = " "
  <2>1. \A i \in p..Len(x) : i \in 1..Len(x)
    BY <1>1
  <2> QED
    BY <1>1, <2>1
<1>6. OnlyDecoration(x, p) <=> n = Len(x) + 1
  BY <1>2, <1>4 DEF OnlyDecoration
<1> QED
  BY <1>3, <1>5, <1>6

\* The text from i + 1 on is white, and i is a full stop.
StopAt(x, i) == x[i] = "." /\ \A n \in i + 1..Len(x) : x[n] \in White
\* The text ends with a full stop and something white.
StopAhead(x) == \E i \in 1..Len(x) - 1 : StopAt(x, i)

LEMMA NoQuoteAfter ==
  ASSUME NEW x, SimpleText(x), NEW i \in 1..Len(x)
  PROVE  SkipRun(x, i + 1, {"q"}) = i + 1
<1>1. x \in Seq(Characters) /\ Len(x) \in Nat /\ i + 1 \in 1..Len(x) + 1
      /\ (i + 1 <= Len(x) => i + 1 \in 1..Len(x))
  BY DEF SimpleText
<1>2. i + 1 <= Len(x) => x[i + 1] \notin {"q"}
  BY <1>1 DEF SimpleText
<1> QED
  BY <1>1, <1>2, RunStays

LEMMA EndsSentenceIs ==
  ASSUME NEW x, SimpleText(x)
  PROVE  EndsSentence(x) <=> \E i \in 1..Len(x) : StopAt(x, i)
<1>1. x \in Seq(Characters) /\ Len(x) \in Nat
  BY DEF SimpleText
<1>2. ASSUME NEW i \in 1..Len(x)
      PROVE  SkipRun(x, SkipRun(x, i + 1, {"q"}), White) = Len(x) + 1
               <=> \A n \in i + 1..Len(x) : x[n] \in White
  <2>1. SkipRun(x, i + 1, {"q"}) = i + 1 /\ i + 1 \in 1..Len(x) + 1
    BY <1>1, NoQuoteAfter
  <2> QED
    BY <1>1, <2>1, RunToEnd
<1> QED
  BY <1>2 DEF EndsSentence, StopAt

LEMMA AfterSentenceIs ==
  ASSUME NEW x, SimpleLine(x)
  PROVE  AfterSentence(x) <=> StopAhead(x)
<1>1. x \in Seq(Characters) /\ Len(x) \in Nat /\ SimpleText(x)
      /\ \A i \in 1..Len(x) : x[i] # "nl"
  BY DEF SimpleLine, SimpleText
<1>2. ASSUME NEW i \in 1..Len(x)
      PROVE  LET j == SkipRun(x, i + 1, {"q"})
             IN  j <= Len(x) /\ x[j] = " " /\ OnlyDecoration(x, j)
                   <=> i \in 1..Len(x) - 1 /\ \A n \in i + 1..Len(x) : x[n] \in White
  <2>1. PICK j \in 1..Len(x) + 1 : j = SkipRun(x, i + 1, {"q"}) /\ j = i + 1
    <3>1. i + 1 \in 1..Len(x) + 1
      BY <1>1
    <3> QED
      BY <1>1, <3>1, NoQuoteAfter
  <2>2. OnlyDecoration(x, j) <=> \A n \in j..Len(x) : x[n] = " "
    BY OnlySpaces
  <2>3. \A n \in j..Len(x) : x[n] = " " <=> x[n] \in White
    <3>1. \A n \in j..Len(x) : n \in 1..Len(x)
      BY <1>1
    <3> QED
      BY <1>1, <3>1 DEF White
  <2>4. j <= Len(x) <=> i \in 1..Len(x) - 1
    BY <1>1, <2>1
  <2>5. j <= Len(x) => j \in j..Len(x)
    BY <1>1
  <2> QED
    BY <2>1, <2>2, <2>3, <2>4, <2>5
<1>3. \A i \in 1..Len(x) - 1 : i \in 1..Len(x)
  BY <1>1
<1>4. AfterSentence(x) <=> \E i \in 1..Len(x) :
        x[i] = "." /\ i \in 1..Len(x) - 1 /\ \A n \in i + 1..Len(x) : x[n] \in White
  BY <1>2 DEF AfterSentence
<1> QED
  BY <1>3, <1>4 DEF StopAt, StopAhead

\* A letter at the end of a text counts if all content before it is white, or
\* a full stop and something white stand before it.
LEMMA LetterAtEnd ==
  ASSUME NEW b, NEW x, Longer(b, x), SimpleText(x)
  PROVE  /\ Content(b) \in 1..Len(x) + 1
         /\ Len(b) \in LetterPositions(b) <=>
              \/ \A n \in Content(b)..Len(x) : x[n] \in White
              \/ \E i \in Content(b)..Len(x) - 1 : StopAt(x, i)
<1>1. /\ x \in Seq(Characters) /\ b \in Seq(Characters) /\ Len(b) = Len(x) + 1
      /\ Len(x) \in Nat
      /\ \A i \in 1..Len(x) : b[i] = x[i]
      /\ b[Len(x) + 1] \in Letters /\ b[Len(x) + 1] \notin Marks
      /\ \A i \in 1..Len(x) : x[i] # "q" /\ x[i] # "*"
  BY LetterNoMark DEF Longer, SimpleText
<1>2. Content(b) \in 1..Len(x) + 1
  <2>1. AfterMarkers(x) \in 1..Len(x) + 1 /\ 1 \in 1..Len(x) + 1
    BY <1>1, AfterMarkersWithin
  <2> QED
    BY <2>1, AfterMarkersLonger DEF Content
<1>3. PICK first \in 1..Len(x) + 1 : first = Content(b)
  BY <1>2
<1>4. b[Len(b)] # "." /\ b[Len(b)] \notin White /\ b[Len(b)] # "q"
  <2>1. "." \in Marks /\ White \subseteq Marks /\ "q" \in Marks
    BY DEF Marks, White
  <2> QED
    BY <1>1, <2>1
\* From where a run of decoration reaches the letter.
<1>5. ASSUME NEW c \in 1..Len(x) + 1
      PROVE  SkipRun(b, c, Decorations) = Len(b) <=> \A n \in c..Len(x) : x[n] \in White
  <2>1. SkipRun(b, c, Decorations) = SkipRun(x, c, Decorations)
    <3>1. PICK C : C = Decorations /\ C \subseteq Marks
      BY SomeMarks DEF Decorations
    <3> QED
      BY <3>1, RunLonger
  <2>2. SkipRun(x, c, Decorations) = Len(x) + 1 <=> \A n \in c..Len(x) : x[n] \in Decorations
    BY <1>1, RunToEnd
  <2>3. \A n \in c..Len(x) : x[n] \in Decorations <=> x[n] \in White
    <3>1. \A n \in c..Len(x) : n \in 1..Len(x)
      BY <1>1
    <3> QED
      BY <1>1, <3>1 DEF Decorations
  <2> QED
    BY <1>1, <2>1, <2>2, <2>3
\* Sentences.
<1>6. ASSUME NEW i \in first..Len(b)
      PROVE  /\ b[i] = "." /\ ClosedAt(b, i) <= Len(b) /\ b[ClosedAt(b, i)] \in White
             /\ SkipRun(b, SkipRun(b, ClosedAt(b, i), White), Decorations) = Len(b)
             <=> i \in first..Len(x) - 1 /\ StopAt(x, i)
  <2>1. CASE i = Len(b)
    <3>1. i \notin first..Len(x) - 1
      BY <1>1, <2>1
    <3> QED
      BY <1>4, <2>1, <3>1
  <2>2. CASE i \in 1..Len(x)
    <3>1. /\ i + 1 \in 1..Len(b) + 1 /\ i + 1 \in 1..Len(x) + 1 /\ i + 1 <= Len(b)
          /\ (i + 1 \in 1..Len(x) \/ i + 1 = Len(b)) /\ b[i] = x[i]
      BY <1>1, <2>2
    <3>2. ClosedAt(b, i) = i + 1
      <4>1. b[i + 1] \notin {"q"}
        BY <1>1, <1>4, <3>1
      <4> QED
        BY <1>1, <3>1, <4>1, RunStays DEF ClosedAt
    <3>3. PICK e \in i + 1..Len(x) + 1 :
            /\ e = SkipRun(b, i + 1, White)
            /\ \A n \in i + 1..e - 1 : x[n] \in White
      <4>1. SkipRun(b, i + 1, White) = SkipRun(x, i + 1, White)
        BY <3>1, RunsLonger
      <4>2. Skips(x, i + 1, White, SkipRun(x, i + 1, White))
        BY <1>1, <3>1, SkipRunIs
      <4> QED
        BY <4>1, <4>2 DEF Skips
    <3>4. e \in 1..Len(x) + 1 /\ \A n \in i + 1..Len(x) : n \in i + 1..e - 1 \/ n \in e..Len(x)
      BY <1>1, <3>1
    <3>5. SkipRun(b, e, Decorations) = Len(b) <=> \A n \in e..Len(x) : x[n] \in White
      BY <1>5, <3>4
    <3>6. \A n \in e..Len(x) : n \in i + 1..Len(x)
      BY <1>1, <3>1
    <3>7. SkipRun(b, e, Decorations) = Len(b) <=> \A n \in i + 1..Len(x) : x[n] \in White
      BY <3>3, <3>4, <3>5, <3>6
    <3>8. CASE i = Len(x)
      <4>1. i + 1 = Len(b) /\ i \notin first..Len(x) - 1
        BY <1>1, <3>8
      <4> QED
        BY <1>4, <3>2, <4>1
    <3>9. CASE i # Len(x)
      <4>1. i \in first..Len(x) - 1 /\ i + 1 \in 1..Len(x) /\ i + 1 \in i + 1..Len(x)
        BY <1>1, <2>2, <3>9
      <4>2. b[i + 1] = x[i + 1]
        BY <1>1, <4>1
      <4> QED
        BY <3>1, <3>2, <3>3, <3>7, <4>1, <4>2 DEF StopAt
    <3> QED
      BY <3>8, <3>9
  <2>3. i = Len(b) \/ i \in 1..Len(x)
    BY <1>1
  <2> QED
    BY <2>1, <2>2, <2>3
<1>7. Len(b) \in LetterPositions(b) <=>
        \E c \in AcrosticPositions(b) : SkipRun(b, c, Decorations) = Len(b)
  <2>1. b[Len(b)] \in Letters /\ Len(b) <= Len(b)
    BY <1>1
  <2> QED
    BY <2>1, LetterPositionIs
<1>8. (\E c \in AcrosticPositions(b) : SkipRun(b, c, Decorations) = Len(b)) <=>
        \/ SkipRun(b, first, Decorations) = Len(b)
        \/ \E i \in first..Len(b) :
             /\ b[i] = "." /\ ClosedAt(b, i) <= Len(b) /\ b[ClosedAt(b, i)] \in White
             /\ SkipRun(b, SkipRun(b, ClosedAt(b, i), White), Decorations) = Len(b)
  <2>1. \A c : c \in AcrosticPositions(b) <=>
            \/ c = first
            \/ \E i \in first..Len(b) :
                 /\ b[i] = "." /\ ClosedAt(b, i) <= Len(b) /\ b[ClosedAt(b, i)] \in White
                 /\ c = SkipRun(b, ClosedAt(b, i), White)
    BY <1>3, PositionCases
  <2> QED
    BY <2>1
<1>9. \A i \in first..Len(x) - 1 : i \in first..Len(b)
  BY <1>1
<1>10. Len(b) \in LetterPositions(b) <=>
         \/ \A n \in first..Len(x) : x[n] \in White
         \/ \E i \in first..Len(x) - 1 : StopAt(x, i)
  <2>1. SkipRun(b, first, Decorations) = Len(b) <=> \A n \in first..Len(x) : x[n] \in White
    BY <1>5
  <2>2. (\E i \in first..Len(b) :
             /\ b[i] = "." /\ ClosedAt(b, i) <= Len(b) /\ b[ClosedAt(b, i)] \in White
             /\ SkipRun(b, SkipRun(b, ClosedAt(b, i), White), Decorations) = Len(b))
          <=> \E i \in first..Len(x) - 1 : StopAt(x, i)
    BY <1>6, <1>9
  <2> QED
    BY <1>7, <1>8, <2>1, <2>2
<1> QED
  BY <1>2, <1>3, <1>10

\* In a line of its own, the letter counts where is_md_pre_letter says so of
\* what may be skipped or of the end of a sentence.
LEMMA LetterInLine ==
  ASSUME NEW b, NEW x, Longer(b, x), SimpleLine(x)
  PROVE  Len(b) \in LetterPositions(b) <=> LineSkippable(x) \/ AfterSentence(x)
<1>1. /\ x \in Seq(Characters) /\ b \in Seq(Characters) /\ Len(b) = Len(x) + 1
      /\ Len(x) \in Nat /\ SimpleText(x)
      /\ \A i \in 1..Len(x) : x[i] # "nl"
  BY DEF Longer, SimpleLine, SimpleText
<1>2. PICK first \in 1..Len(x) + 1 : first = AfterMarkers(x)
  BY <1>1, AfterMarkersWithin
<1>3. IsMarkerLine(b) <=> IsMarkerLine(x)
  <2>1. 1 \in 1..Len(x) + 1
    BY <1>1
  <2> QED
    BY <2>1, MarkerLonger DEF IsMarkerLine
<1>4. Line(b, 1) = b
  <2>1. \A i \in 1..Len(b) : b[i] # "nl"
    <3>1. b[Len(b)] # "nl"
      <4>1. "nl" \in Marks
        BY DEF Marks
      <4> QED
        BY <1>1, <4>1, LetterNoMark DEF Longer
    <3>2. \A i \in 1..Len(x) : b[i] # "nl"
      BY <1>1 DEF Longer
    <3>3. \A i \in 1..Len(b) : i \in 1..Len(x) \/ i = Len(b)
      BY <1>1
    <3> QED
      BY <3>1, <3>2, <3>3
  <2>2. 1 \in 1..Len(b) + 1 /\ Len(b) + 1 \in 1..Len(b) + 1 /\ ~(Len(b) + 1 <= Len(b))
        /\ (Len(b) + 1) - 1 = Len(b)
    BY <1>1
  <2>3. Breaks(b, 1, Len(b) + 1)
    BY <2>1, <2>2 DEF Breaks
  <2>4. LineEnd(b, 1) = Len(b) + 1
    BY <1>1, <2>2, <2>3, LineEndIs
  <2>5. SubSeq(b, 1, Len(b)) = b
    BY <1>1
  <2> QED
    BY <2>2, <2>4, <2>5 DEF Line
<1>5. Content(b) = first
  <2>1. AfterMarkers(b) = AfterMarkers(x)
    BY AfterMarkersLonger
  <2>2. ~IsMarkerLine(x) => AfterMarkers(x) = 1
    BY <1>1, PlainLineStart
  <2> QED
    BY <1>2, <1>3, <1>4, <2>1, <2>2 DEF Content
<1>6. Len(b) \in LetterPositions(b) <=>
        \/ \A n \in first..Len(x) : x[n] \in White
        \/ \E i \in first..Len(x) - 1 : StopAt(x, i)
  BY <1>1, <1>5, LetterAtEnd
<1>7. LineSkippable(x) <=> \A n \in first..Len(x) : x[n] \in White
  <2>1. \A n \in first..Len(x) : x[n] = " " <=> x[n] \in White
    <3>1. \A n \in first..Len(x) : n \in 1..Len(x)
      BY <1>1
    <3> QED
      BY <1>1, <3>1 DEF White
  <2>2. LineSkippable(x) <=> \A n \in first..Len(x) : x[n] = " "
    BY <1>2, OnlySpaces DEF LineSkippable
  <2> QED
    BY <2>1, <2>2
<1>8. AfterSentence(x) <=> \E i \in first..Len(x) - 1 : StopAt(x, i)
  <2>1. \A i \in first..Len(x) - 1 : i \in 1..Len(x) - 1
    BY <1>1
  <2>2. ASSUME NEW i \in 1..Len(x) - 1, StopAt(x, i) PROVE i \in first..Len(x) - 1
    <3>1. x[i] = "."
      BY <2>2 DEF StopAt
    <3>2. \A n \in 1..first - 1 : x[n] # "."
      BY <1>1, <1>2, AfterMarkersFree
    <3>3. i \in 1..first - 1 \/ i \in first..Len(x) - 1
      BY <1>1
    <3> QED
      BY <3>1, <3>2, <3>3
  <2> QED
    BY <2>1, <2>2, AfterSentenceIs DEF StopAhead
<1> QED
  BY <1>6, <1>7, <1>8

-----------------------------------------------------------------------------
(***************************************************************************)
(* The last line, the lines above it and the blocks of the longer text.    *)
(***************************************************************************)
\* The last line, and the lines before it.
LEMMA LastLine ==
  ASSUME NEW s \in Seq(Characters), NEW L, L = LastLineStart(s)
  PROVE  /\ L \in LineStarts(s) /\ L \in 1..Len(s) + 1
         /\ \A p \in LineStarts(s) : p <= L
         /\ \A n \in L..Len(s) : s[n] # "nl"
         /\ L # 1 => s[L - 1] = "nl"
<1>1. Len(s) \in Nat /\ \A p \in LineStarts(s) : p \in 1..Len(s) + 1 /\ p < Len(s) + 2
  BY DEF LineStarts
<1>2. PICK q : Previous(s, Len(s) + 2, q)
  <2>1. Len(s) + 2 \in Nat /\ 1 < Len(s) + 2
    BY <1>1
  <2> QED
    BY <2>1, PreviousIs
<1>3. q \in LineStarts(s) /\ \A p \in LineStarts(s) : p <= q
  BY <1>1, <1>2 DEF Previous
<1>4. L \in LineStarts(s) /\ \A p \in LineStarts(s) : p <= L
  BY <1>3, Zenon DEF LastLineStart
<1>5. ASSUME NEW n \in L..Len(s), s[n] = "nl" PROVE FALSE
  <2>1. n + 1 \in 1..Len(s) + 1 /\ (n + 1) - 1 = n /\ ~(n + 1 <= L)
    BY <1>1, <1>4
  <2>2. n + 1 \in LineStarts(s)
    BY <1>5, <2>1 DEF LineStarts
  <2> QED
    BY <1>4, <2>1, <2>2
<1>6. L # 1 => s[L - 1] = "nl"
  BY <1>4 DEF LineStarts
<1> QED
  BY <1>1, <1>4, <1>5, <1>6

LEMMA LineOfLast ==
  ASSUME NEW s \in Seq(Characters), NEW L, L = LastLineStart(s)
  PROVE  Line(s, L) = SubSeq(s, L, Len(s))
<1>1. L \in 1..Len(s) + 1 /\ \A n \in L..Len(s) : s[n] # "nl"
  BY LastLine
<1>2. Len(s) \in Nat /\ (Len(s) + 1) - 1 = Len(s) /\ Len(s) + 1 \in L..Len(s) + 1
      /\ ~(Len(s) + 1 <= Len(s))
  BY <1>1
<1>3. Breaks(s, L, Len(s) + 1)
  BY <1>1, <1>2 DEF Breaks
<1>4. LineEnd(s, L) = Len(s) + 1
  BY <1>1, <1>3, LineEndIs
<1> QED
  BY <1>2, <1>4 DEF Line

\* A line that is not the last ends at a line break, after which the next
\* line starts.
LEMMA LineBefore ==
  ASSUME NEW s \in Seq(Characters), NEW p \in LineStarts(s), NEW q \in LineStarts(s), p < q
  PROVE  /\ LineEnd(s, p) \in p..q - 1 /\ LineEnd(s, p) + 1 \in LineStarts(s)
         /\ LineEnd(s, p) \in 1..Len(s) /\ s[LineEnd(s, p)] = "nl"
         /\ Previous(s, LineEnd(s, p) + 1, p)
<1>1. Len(s) \in Nat /\ p \in 1..Len(s) + 1 /\ q \in 1..Len(s) + 1
  BY DEF LineStarts
<1>2. q - 1 \in 1..Len(s) /\ q - 1 \in p..q - 1 /\ q # 1
  BY <1>1
<1>3. s[q - 1] = "nl"
  BY <1>2 DEF LineStarts
<1>4. PICK e : /\ e = LineEnd(s, p) /\ e \in p..Len(s) + 1
               /\ (e <= Len(s) => s[e] = "nl") /\ \A i \in p..e - 1 : s[i] # "nl"
  BY <1>1, LineEndIs DEF Breaks
<1>5. e <= q - 1
  <2>1. ASSUME ~(e <= q - 1) PROVE FALSE
    <3>1. q - 1 \in p..e - 1
      BY <1>1, <1>4, <2>1
    <3> QED
      BY <1>3, <1>4, <3>1
  <2> QED
    BY <2>1
<1>6. e \in p..q - 1 /\ e \in 1..Len(s) /\ e + 1 \in 1..Len(s) + 1 /\ (e + 1) - 1 = e
      /\ e <= Len(s)
  BY <1>1, <1>4, <1>5
<1>7. e + 1 \in LineStarts(s)
  BY <1>4, <1>6 DEF LineStarts
<1>8. ASSUME NEW m \in LineStarts(s), m < e + 1, ~(m <= p) PROVE FALSE
  <2>1. m \in 1..Len(s) + 1 /\ m # 1
    BY <1>1, <1>8 DEF LineStarts
  <2>2. s[m - 1] = "nl"
    BY <2>1 DEF LineStarts
  <2>3. m - 1 \in p..e - 1
    BY <1>1, <1>6, <1>8, <2>1
  <2> QED
    BY <1>4, <2>2, <2>3
<1>9. p < e + 1
  BY <1>1, <1>6
<1>10. Previous(s, e + 1, p)
  BY <1>8, <1>9 DEF Previous
<1> QED
  BY <1>4, <1>6, <1>7, <1>10

LEMMA StartsLonger ==
  ASSUME NEW w, NEW s, Longer(w, s)
  PROVE  LineStarts(w) = LineStarts(s)
<1>1. /\ s \in Seq(Characters) /\ Len(w) = Len(s) + 1 /\ Len(s) \in Nat
      /\ \A i \in 1..Len(s) : w[i] = s[i]
      /\ w[Len(s) + 1] # "nl"
  <2>1. "nl" \in Marks
    BY DEF Marks
  <2> QED
    BY <2>1, LetterNoMark DEF Longer
<1>2. ASSUME NEW p \in 1..Len(s) + 1 PROVE p \in LineStarts(w) <=> p \in LineStarts(s)
  <2>1. p \in 1..Len(w) + 1 /\ (p # 1 => p - 1 \in 1..Len(s))
    BY <1>1
  <2> QED
    BY <1>1, <2>1 DEF LineStarts
<1>3. Len(s) + 2 \notin LineStarts(w)
  <2>1. (Len(s) + 2) - 1 = Len(s) + 1 /\ Len(s) + 2 # 1
    BY <1>1
  <2> QED
    BY <1>1, <2>1 DEF LineStarts
<1>4. \A p \in LineStarts(w) : p \in 1..Len(s) + 1 \/ p = Len(s) + 2
  BY <1>1 DEF LineStarts
<1>5. \A p \in LineStarts(s) : p \in 1..Len(s) + 1
  BY DEF LineStarts
<1> QED
  BY <1>2, <1>3, <1>4, <1>5

\* x is the text from p on.
PartOf(x, s, p) ==
  /\ x \in Seq(Characters) /\ Len(x) = Len(s) - p + 1
  /\ \A i \in 1..Len(x) : x[i] = s[p + i - 1]

LEMMA PartLonger ==
  ASSUME NEW w, NEW s, Longer(w, s), NEW p \in 1..Len(s) + 1
  PROVE  /\ Longer(SubSeq(w, p, Len(w)), SubSeq(s, p, Len(s)))
         /\ Len(SubSeq(w, p, Len(w))) = Len(w) - p + 1
         /\ PartOf(SubSeq(s, p, Len(s)), s, p)
<1>1. /\ s \in Seq(Characters) /\ w \in Seq(Characters) /\ Len(w) = Len(s) + 1 /\ Len(s) \in Nat
      /\ \A i \in 1..Len(s) : w[i] = s[i]
      /\ w[Len(s) + 1] \in Letters
  BY DEF Longer
<1>2. /\ SubSeq(s, p, Len(s)) \in Seq(Characters) /\ Len(SubSeq(s, p, Len(s))) = Len(s) - p + 1
      /\ \A i \in 1..Len(s) - p + 1 : SubSeq(s, p, Len(s))[i] = s[p + i - 1]
  BY <1>1
<1>3. /\ SubSeq(w, p, Len(w)) \in Seq(Characters) /\ Len(SubSeq(w, p, Len(w))) = Len(w) - p + 1
      /\ \A i \in 1..Len(w) - p + 1 : SubSeq(w, p, Len(w))[i] = w[p + i - 1]
  BY <1>1
<1>4. \A i \in 1..Len(s) - p + 1 : i \in 1..Len(w) - p + 1 /\ p + i - 1 \in 1..Len(s)
  BY <1>1
<1>5. /\ Len(w) - p + 1 = (Len(s) - p + 1) + 1 /\ (Len(s) - p + 1) + 1 \in 1..Len(w) - p + 1
      /\ p + ((Len(s) - p + 1) + 1) - 1 = Len(s) + 1
  BY <1>1
<1>6. \A i \in 1..Len(s) - p + 1 : SubSeq(w, p, Len(w))[i] = SubSeq(s, p, Len(s))[i]
  BY <1>1, <1>2, <1>3, <1>4
<1>7. SubSeq(w, p, Len(w))[(Len(s) - p + 1) + 1] \in Letters
  BY <1>1, <1>3, <1>5
<1>8. PartOf(SubSeq(s, p, Len(s)), s, p)
  BY <1>2 DEF PartOf
<1> QED
  BY <1>2, <1>3, <1>5, <1>6, <1>7, <1>8 DEF Longer

LEMMA LinesLonger ==
  ASSUME NEW w, NEW s, Longer(w, s), NEW L, L = LastLineStart(s)
  PROVE  /\ L = LastLineStart(w)
         /\ Longer(Line(w, L), Line(s, L))
         /\ Len(Line(w, L)) = Len(w) - L + 1
         /\ \A p \in LineStarts(s) : p < L => Line(w, p) = Line(s, p)
<1>1. /\ s \in Seq(Characters) /\ w \in Seq(Characters) /\ Len(w) = Len(s) + 1 /\ Len(s) \in Nat
      /\ \A i \in 1..Len(s) : w[i] = s[i]
  BY DEF Longer
<1>2. /\ L \in LineStarts(s) /\ L \in 1..Len(s) + 1 /\ \A p \in LineStarts(s) : p <= L
  BY <1>1, LastLine
<1>3. LineStarts(w) = LineStarts(s)
  BY StartsLonger
<1>4. L = LastLineStart(w)
  BY <1>3 DEF LastLineStart
<1>5. Line(w, L) = SubSeq(w, L, Len(w)) /\ Line(s, L) = SubSeq(s, L, Len(s))
  BY <1>1, <1>4, LineOfLast
<1>6. ASSUME NEW p \in LineStarts(s), p < L PROVE Line(w, p) = Line(s, p)
  <2>1. PICK e : e = LineEnd(s, p) /\ e \in p..L - 1 /\ e \in 1..Len(s) /\ s[e] = "nl"
    BY <1>1, <1>2, <1>6, LineBefore
  <2>2. p \in 1..Len(s) + 1 /\ p \in 1..Len(w) + 1
    BY <1>1 DEF LineStarts
  <2>3. \A i \in p..e - 1 : s[i] # "nl" /\ i \in 1..Len(s)
    <3>1. \A i \in p..e - 1 : s[i] # "nl"
      BY <1>1, <2>1, <2>2, LineEndIs DEF Breaks
    <3>2. \A i \in p..e - 1 : i \in 1..Len(s)
      BY <1>1, <2>1, <2>2
    <3> QED
      BY <3>1, <3>2
  <2>4. Breaks(w, p, e)
    <3>1. e \in p..Len(w) + 1 /\ w[e] = "nl"
      BY <1>1, <2>1, <2>2
    <3> QED
      BY <1>1, <2>3, <3>1 DEF Breaks
  <2>5. LineEnd(w, p) = e
    BY <1>1, <2>2, <2>4, LineEndIs
  <2>6. SubSeq(w, p, e - 1) = SubSeq(s, p, e - 1)
    <3>1. \A i \in p..e - 1 : w[i] = s[i]
      BY <1>1, <2>3
    <3>2. p \in 1..Len(s) + 1 /\ e - 1 \in 0..Len(s) /\ e - 1 <= Len(w) /\ p \in Nat
      BY <1>1, <2>1, <2>2
    <3>3. PICK x \in Seq(Characters) : x = SubSeq(w, p, e - 1) /\ Len(x) = e - p
            /\ \A i \in 1..(e - p) : x[i] = w[(i + p) - 1]
      <4>1. SubSeq(w, p, e - 1) \in Seq(Characters) /\ Len(SubSeq(w, p, e - 1)) = e - p
            /\ \A i \in 1..(e - p) : SubSeq(w, p, e - 1)[i] = w[(i + p) - 1]
        <5>1. e \in 1..Len(w) /\ p \in Nat /\ p >= 1 /\ p <= e
          BY <1>1, <2>1, <3>2
        <5> QED
          BY <1>1, <5>1, CutIs
      <4> QED
        BY <4>1
    <3>4. PICK y \in Seq(Characters) : y = SubSeq(s, p, e - 1) /\ Len(y) = e - p
            /\ \A i \in 1..(e - p) : y[i] = s[(i + p) - 1]
      <4>1. SubSeq(s, p, e - 1) \in Seq(Characters) /\ Len(SubSeq(s, p, e - 1)) = e - p
            /\ \A i \in 1..(e - p) : SubSeq(s, p, e - 1)[i] = s[(i + p) - 1]
        <5>1. e \in 1..Len(s) /\ p \in Nat /\ p >= 1 /\ p <= e
          BY <1>1, <2>1, <3>2
        <5> QED
          BY <1>1, <5>1, CutIs
      <4> QED
        BY <4>1
    <3>7. Len(x) = Len(y) /\ \A i \in 1..Len(x) : x[i] = y[i]
      <4>1. \A i \in 1..(e - p) : (i + p) - 1 \in p..e - 1
        BY <2>1, <3>2
      <4> QED
        BY <3>1, <3>3, <3>4, <4>1
    <3>5. x = [i \in 1..Len(x) |-> x[i]] /\ y = [i \in 1..Len(y) |-> y[i]]
      OBVIOUS
    <3>6. x = y
      BY <3>5, <3>7
    <3> QED
      BY <3>3, <3>4, <3>6
  <2> QED
    BY <2>1, <2>5, <2>6 DEF Line
<1> QED
  BY <1>2, <1>4, <1>5, <1>6, PartLonger

LEMMA PreviousLonger ==
  ASSUME NEW w, NEW s, Longer(w, s), NEW p \in Nat, 1 < p
  PROVE  PreviousLine(w, p) = PreviousLine(s, p)
<1>1. s \in Seq(Characters) /\ w \in Seq(Characters) /\ LineStarts(w) = LineStarts(s)
  BY StartsLonger DEF Longer
<1>2. Previous(s, p, PreviousLine(s, p))
  BY <1>1, PreviousIs
<1>3. Previous(w, p, PreviousLine(s, p))
  BY <1>1, <1>2 DEF Previous
<1> QED
  BY <1>1, <1>3, PreviousIs

\* Whether the last line opens a block once it has a letter.
LEMMA LastOpens ==
  ASSUME NEW w, NEW s, Longer(w, s), NEW L, L = LastLineStart(s)
  PROVE  /\ ~Blank(Line(w, L))
         /\ OpensBlock(w, L) <=>
              \/ L = 1
              \/ IsMarkerLine(Line(s, L))
              \/ LET before == Line(s, PreviousLine(s, L)) IN Blank(before) \/ IsMarkerLine(before)
<1>1. s \in Seq(Characters) /\ L \in LineStarts(s) /\ L \in 1..Len(s) + 1
  BY LastLine DEF Longer
<1>2. Longer(Line(w, L), Line(s, L)) /\ \A p \in LineStarts(s) : p < L => Line(w, p) = Line(s, p)
  BY LinesLonger
<1>3. PICK x : x = Line(s, L)
  OBVIOUS
<1>4. PICK b : b = Line(w, L) /\ Longer(b, x)
  BY <1>2, <1>3
<1>5. ~Blank(b)
  <2>1. Len(x) + 1 \in 1..Len(b) /\ b[Len(x) + 1] \in Letters
    BY <1>4 DEF Longer
  <2>2. b[Len(x) + 1] \notin White
    BY <2>1, LetterNoMark, SomeMarks
  <2> QED
    BY <2>1, <2>2 DEF Blank
<1>6. IsMarkerLine(b) <=> IsMarkerLine(x)
  <2>1. 1 \in 1..Len(x) + 1
    BY <1>4 DEF Longer
  <2> QED
    BY <1>4, <2>1, MarkerLonger DEF IsMarkerLine
<1>7. CASE L = 1
  BY <1>4, <1>5, <1>7 DEF OpensBlock
<1>8. CASE L # 1
  <2>1. L \in Nat /\ 1 < L
    BY <1>1, <1>8
  <2>2. PICK q : q = PreviousLine(s, L) /\ q = PreviousLine(w, L)
    BY <2>1, PreviousLonger
  <2>3. q \in LineStarts(s) /\ q < L
    <3>1. Previous(s, L, PreviousLine(s, L))
      BY <1>1, <2>1, PreviousIs
    <3>2. Previous(s, L, q)
      BY <2>2, <3>1
    <3> QED
      BY <3>2 DEF Previous
  <2>4. Line(w, q) = Line(s, q)
    BY <1>2, <2>3
  <2> QED
    BY <1>3, <1>4, <1>5, <1>6, <1>8, <2>2, <2>4 DEF OpensBlock
<1> QED
  BY <1>4, <1>5, <1>7, <1>8

-----------------------------------------------------------------------------
(***************************************************************************)
(* The last letter in its block: in a block that starts with the last      *)
(* line, or in one that starts above it.                                   *)
(***************************************************************************)
\* A full stop before nothing but white, in a part of the text and in all of it.
LEMMA StopInPart ==
  ASSUME NEW s \in Seq(Characters), NEW p \in 1..Len(s), \E n \in p..Len(s) : s[n] \notin White,
         NEW x, PartOf(x, s, p)
  PROVE  StopAhead(x) <=> StopAhead(s)
<1>1. /\ Len(s) \in Nat /\ Len(x) \in Nat /\ p \in Nat
      /\ Len(x) = Len(s) - p + 1 /\ \A i \in 1..Len(x) : x[i] = s[p + i - 1]
  BY DEF PartOf
<1>2. ASSUME NEW i \in 1..Len(x) - 1, StopAt(x, i)
      PROVE  \E j \in 1..Len(s) - 1 : StopAt(s, j)
  <2>1. p + i - 1 \in 1..Len(s) - 1 /\ i \in 1..Len(x)
    BY <1>1
  <2>2. s[p + i - 1] = "."
    BY <1>1, <1>2, <2>1 DEF StopAt
  <2>3. ASSUME NEW n \in (p + i - 1) + 1..Len(s) PROVE s[n] \in White
    <3>1. PICK m \in i + 1..Len(x) : m = n - p + 1
      BY <1>1
    <3>2. m \in 1..Len(x) /\ p + m - 1 = n
      BY <1>1, <3>1
    <3>3. x[m] \in White
      BY <1>2 DEF StopAt
    <3> QED
      BY <1>1, <3>2, <3>3
  <2> QED
    BY <2>1, <2>2, <2>3 DEF StopAt
<1>3. ASSUME NEW j \in 1..Len(s) - 1, StopAt(s, j)
      PROVE  \E i \in 1..Len(x) - 1 : StopAt(x, i)
  <2>1. s[j] = "." /\ \A n \in j + 1..Len(s) : s[n] \in White
    BY <1>3 DEF StopAt
  <2>2. j >= p
    <3>1. PICK n \in p..Len(s) : s[n] \notin White
      OBVIOUS
    <3>2. ~(j >= p) => n \in j + 1..Len(s)
      BY <1>1
    <3> QED
      BY <2>1, <3>1, <3>2
  <2>3. PICK i \in 1..Len(x) - 1 : i = j - p + 1
    BY <1>1, <2>2
  <2>4. i \in 1..Len(x) /\ p + i - 1 = j
    BY <1>1, <2>3
  <2>5. x[i] = "."
    BY <1>1, <2>1, <2>4
  <2>6. ASSUME NEW m \in i + 1..Len(x) PROVE x[m] \in White
    <3>1. m \in 1..Len(x) /\ p + m - 1 \in j + 1..Len(s)
      BY <1>1, <2>3
    <3> QED
      BY <1>1, <2>1, <3>1
  <2> QED
    BY <2>5, <2>6 DEF StopAt
<1> QED
  BY <1>2, <1>3 DEF StopAhead

\* The last line opens a block: the letter counts as in a text of one line.
LEMMA LetterInOwnBlock ==
  ASSUME NEW w, NEW s, Longer(w, s), NEW L, L = LastLineStart(s), OpensBlock(w, L)
  PROVE  Len(w) \in LetterPlaces(w) <=> Len(Line(w, L)) \in LetterPositions(Line(w, L))
<1>1. /\ s \in Seq(Characters) /\ w \in Seq(Characters) /\ Len(w) = Len(s) + 1 /\ Len(s) \in Nat
  BY DEF Longer
<1>2. /\ L = LastLineStart(w) /\ Len(Line(w, L)) = Len(w) - L + 1
  BY LinesLonger
<1>3. /\ L \in LineStarts(w) /\ L \in 1..Len(w) /\ \A p \in LineStarts(w) : p <= L
  <2>1. L \in 1..Len(s) + 1
    BY <1>1, LastLine
  <2> QED
    BY <1>1, <1>2, <2>1, LastLine
<1>4. L \in BlockStarts(w)
  BY <1>3 DEF BlockStarts
<1>5. Block(w, L) = Line(w, L)
  <2>1. Stops(w, L) = {}
    <3>1. \A n \in LineStarts(w) : ~(n > L)
      BY <1>3 DEF LineStarts
    <3> QED
      BY <3>1 DEF Stops
  <2>2. BlockEnd(w, L) = Len(w) + 1
    <3>1. L \in 1..Len(w) + 1
      BY <1>1, <1>3
    <3> QED
      BY <1>1, <2>1, <3>1, BlockEndIs
  <2>3. (Len(w) + 1) - 1 = Len(w)
    BY <1>1
  <2> QED
    BY <1>1, <1>2, <2>2, <2>3, LineOfLast DEF Block
<1>6. ASSUME NEW p \in BlockStarts(w), PlaceIn(w, p, Len(w)) PROVE p = L
  <2>1. p \in 1..Len(w) /\ BlockEnd(w, p) > Len(w)
    BY <1>1, <1>6, PlaceInBlock
  <2>2. p \in LineStarts(w) /\ p <= L
    BY <1>3, <1>6 DEF BlockStarts
  <2>3. ASSUME p < L PROVE FALSE
    <3>1. L \in Stops(w, p)
      BY <1>3, <2>3 DEF Stops
    <3>2. p \in 1..Len(w) + 1
      BY <1>1, <2>1
    <3>3. BlockEnd(w, p) <= L /\ BlockEnd(w, p) \in p..Len(w) + 1
      BY <1>1, <3>1, <3>2, BlockEndIs
    <3> QED
      BY <1>1, <1>3, <2>1, <3>3
  <2> QED
    BY <1>3, <2>1, <2>2, <2>3
<1>7. PlaceIn(w, L, Len(w)) <=> Len(Line(w, L)) \in LetterPositions(Line(w, L))
  <2>1. PICK m \in Nat : m = Len(Line(w, L)) /\ m = Len(w) - L + 1 /\ Len(w) = L + m - 1
    BY <1>1, <1>2, <1>3
  <2>2. \A n \in LetterPositions(Line(w, L)) : Len(w) = L + n - 1 => n = m
    <3>1. Line(w, L) \in Seq(Characters)
      BY LinesLonger DEF Longer
    <3>2. \A n \in LetterPositions(Line(w, L)) : n \in 1..m
      BY <2>1, <3>1, LetterPositionsWithin
    <3>3. \A n \in Nat : Len(w) = L + n - 1 => n = m
      <4>1. PICK a \in Nat, k \in Nat : a = Len(w) /\ k = L
        BY <1>1, <1>3
      <4>2. a = k + m - 1
        BY <2>1, <4>1
      <4>3. \A n \in Nat : a = k + n - 1 => n = m
        BY <4>2
      <4> QED
        BY <4>1, <4>3
    <3>4. \A n \in 1..m : n \in Nat
      BY <2>1
    <3> QED
      BY <3>2, <3>3, <3>4
  <2> QED
    BY <1>5, <2>1, <2>2 DEF PlaceIn
<1> QED
  BY <1>4, <1>6, <1>7, LetterPlaceIs

\* Above a line that is not blank there is one that opened its block.
LEMMA BlockOpened ==
  ASSUME NEW t \in Seq(Characters), NEW q \in LineStarts(t), ~Blank(Line(t, q))
  PROVE  \E p \in BlockStarts(t) :
           /\ p <= q
           /\ \A n \in LineStarts(t) : p < n /\ n <= q => ~OpensBlock(t, n) /\ ~Blank(Line(t, n))
<1> DEFINE In(p, e) ==
             /\ p \in BlockStarts(t) /\ p <= e
             /\ \A n \in LineStarts(t) : p < n /\ n <= e => ~OpensBlock(t, n) /\ ~Blank(Line(t, n))
           T == {d \in Nat : \A e \in LineStarts(t) : e <= d /\ ~Blank(Line(t, e)) => \E p : In(p, e)}
<1>1. Len(t) \in Nat /\ \A n \in LineStarts(t) : n \in Nat /\ n >= 1
  BY DEF LineStarts
<1>2. 0 \in T
  BY <1>1
<1>3. ASSUME NEW d \in Nat, d \in T PROVE d + 1 \in T
  <2>1. ASSUME NEW e \in LineStarts(t), e <= d + 1, ~Blank(Line(t, e)) PROVE \E p : In(p, e)
    <3>1. CASE OpensBlock(t, e)
      <4>1. e \in BlockStarts(t) /\ \A n \in LineStarts(t) : ~(e < n /\ n <= e)
        BY <1>1, <3>1 DEF BlockStarts
      <4>2. In(e, e)
        BY <1>1, <4>1
      <4> QED
        BY <4>2
    <3>2. CASE ~OpensBlock(t, e)
      <4>1. e # 1 /\ ~Blank(Line(t, PreviousLine(t, e)))
        BY <2>1, <3>2 DEF OpensBlock
      <4>2. e \in Nat /\ 1 < e
        BY <1>1, <4>1
      <4>3. PICK c : c = PreviousLine(t, e) /\ Previous(t, e, c)
        BY <4>2, PreviousIs
      <4>4. c \in LineStarts(t) /\ c < e /\ c <= d /\ \A m \in LineStarts(t) : m < e => m <= c
        BY <1>1, <2>1, <4>3 DEF Previous
      <4>5. PICK p : In(p, c)
        BY <1>3, <4>1, <4>3, <4>4
      <4>6. p <= e
        <5>1. p \in LineStarts(t)
          BY <4>5 DEF BlockStarts
        <5> QED
          BY <1>1, <4>4, <4>5, <5>1
      <4>7. \A n \in LineStarts(t) : n <= e => n <= c \/ n = e
        BY <1>1, <4>4
      <4>8. In(p, e)
        BY <2>1, <3>2, <4>5, <4>6, <4>7
      <4> QED
        BY <4>8
    <3> QED
      BY <3>1, <3>2
  <2>2. d + 1 \in Nat
    OBVIOUS
  <2> HIDE DEF In
  <2> QED
    BY <2>1, <2>2
<1>4. q \in T
  <2> HIDE DEF T
  <2> QED
    BY <1>1, <1>2, <1>3, Induction
<1>5. PICK p : In(p, q)
  <2>1. q <= q
    BY <1>1
  <2> QED
    BY <1>4, <2>1
<1> QED
  BY <1>5

\* The last line goes on with a block: the letter counts behind a full stop,
\* wherever in the block it is.
LEMMA LetterInBlock ==
  ASSUME NEW w, NEW s, Longer(w, s), SimpleText(s),
         NEW p \in BlockStarts(w), p < LastLineStart(s), BlockEnd(w, p) > Len(w)
  PROVE  PlaceIn(w, p, Len(w)) <=> StopAhead(s)
<1>1. /\ s \in Seq(Characters) /\ w \in Seq(Characters) /\ Len(w) = Len(s) + 1 /\ Len(s) \in Nat
  BY DEF Longer
<1>2. PICK L : L = LastLineStart(s)
  OBVIOUS
<1>3. /\ LineStarts(w) = LineStarts(s) /\ L \in LineStarts(w) /\ L \in 1..Len(s) + 1
      /\ p \in LineStarts(w) /\ OpensBlock(w, p) /\ p \in 1..Len(s) /\ p \in 1..Len(w) + 1
  <2>1. p \in LineStarts(w) /\ OpensBlock(w, p)
    BY DEF BlockStarts
  <2>2. L \in LineStarts(s) /\ L \in 1..Len(s) + 1
    BY <1>1, <1>2, LastLine
  <2>3. LineStarts(w) = LineStarts(s)
    BY StartsLonger
  <2>4. p \in Nat /\ p \in 1..Len(w) + 1 /\ L \in Nat /\ p < L
    BY <1>1, <1>2, <2>1, <2>2 DEF LineStarts
  <2>5. p \in 1..Len(s)
    BY <1>1, <2>2, <2>4
  <2> QED
    BY <2>1, <2>2, <2>3, <2>4, <2>5
<1>4. PICK e : /\ e = LineEnd(w, p) /\ e \in p..L - 1 /\ e + 1 \in LineStarts(w) /\ e \in 1..Len(w)
               /\ w[e] = "nl" /\ Previous(w, e + 1, p)
  BY <1>1, <1>2, <1>3, LineBefore
<1>5. e \in 1..Len(s) /\ e + 1 <= Len(w) /\ e + 1 > p /\ e + 1 \in Nat /\ 1 < e + 1
  BY <1>1, <1>3, <1>4
<1>6. Line(w, p) = SubSeq(w, p, e - 1) /\ ~Blank(Line(w, p))
  BY <1>3, <1>4 DEF Line, OpensBlock
\* Not a marker line: the next line would open a block.
<1>7. ~IsMarkerLine(Line(w, p))
  <2>1. ASSUME IsMarkerLine(Line(w, p)) PROVE FALSE
    <3>1. PreviousLine(w, e + 1) = p
      BY <1>1, <1>4, <1>5, PreviousIs
    <3>2. OpensBlock(w, e + 1) \/ Blank(Line(w, e + 1))
      BY <2>1, <3>1 DEF OpensBlock
    <3>3. e + 1 \in Stops(w, p)
      BY <1>4, <1>5, <3>2 DEF Stops
    <3>4. BlockEnd(w, p) <= e + 1 /\ BlockEnd(w, p) \in p..Len(w) + 1
      BY <1>1, <1>3, <3>3, BlockEndIs
    <3> QED
      BY <1>1, <1>5, <3>4
  <2> QED
    BY <2>1
<1>8. BlockEnd(w, p) = Len(w) + 1
  <2>1. BlockEnd(w, p) \in p..Len(w) + 1
    BY <1>1, <1>3, BlockEndIs
  <2> QED
    BY <1>1, <1>3, <2>1
<1>9. Block(w, p) = SubSeq(w, p, Len(w))
  <2>1. (Len(w) + 1) - 1 = Len(w)
    BY <1>1
  <2> QED
    BY <1>8, <2>1 DEF Block
<1>10. PICK x \in Seq(Characters) :
         /\ x = SubSeq(s, p, Len(s)) /\ PartOf(x, s, p)
         /\ Longer(SubSeq(w, p, Len(w)), x) /\ Len(SubSeq(w, p, Len(w))) = Len(w) - p + 1
  <2>1. p \in 1..Len(s) + 1
    BY <1>1, <1>3
  <2>2. /\ PartOf(SubSeq(s, p, Len(s)), s, p)
        /\ Longer(SubSeq(w, p, Len(w)), SubSeq(s, p, Len(s)))
        /\ Len(SubSeq(w, p, Len(w))) = Len(w) - p + 1
    BY <2>1, PartLonger
  <2>3. SubSeq(s, p, Len(s)) \in Seq(Characters)
    BY <2>2 DEF PartOf
  <2> QED
    BY <2>2, <2>3
<1>21. Len(x) = Len(s) - p + 1 /\ \A i \in 1..Len(x) : x[i] = s[p + i - 1]
  BY <1>10 DEF PartOf
<1>11. PICK b \in Seq(Characters) : b = Block(w, p) /\ Longer(b, x) /\ Len(b) = Len(w) - p + 1
  <2>1. SubSeq(w, p, Len(w)) \in Seq(Characters)
    BY <1>10 DEF Longer
  <2> QED
    BY <1>9, <1>10, <2>1
<1>12. \A i \in 1..Len(b) : b[i] = w[p + i - 1]
  <2>1. p \in 1..Len(w) /\ b = SubSeq(w, p, Len(w))
    BY <1>1, <1>3, <1>9, <1>11
  <2> QED
    BY <1>1, <1>11, <2>1
<1>13. SimpleText(x)
  <2>1. \A i \in 1..Len(x) : p + i - 1 \in 1..Len(s)
    BY <1>1, <1>3, <1>21
  <2> QED
    BY <1>21, <2>1 DEF SimpleText
\* The first line of the block.
<1>14. Line(b, 1) = Line(w, p)
  <2>1. PICK m \in Nat : /\ m = e - p + 1 /\ m \in 1..Len(b) /\ p + m - 1 = e
                         /\ m - 1 \in Nat /\ m - 1 = e - p /\ m \in 1..Len(b) + 1
    <3>1. p \in Nat /\ e \in Nat /\ p >= 1 /\ e >= p /\ e <= Len(s) /\ Len(b) = Len(s) + 1 - p + 1
      BY <1>1, <1>3, <1>4, <1>5, <1>11
    <3>2. /\ e - p + 1 \in Nat /\ e - p + 1 \in 1..Len(b) /\ p + (e - p + 1) - 1 = e
          /\ (e - p + 1) - 1 \in Nat /\ (e - p + 1) - 1 = e - p /\ e - p + 1 \in 1..Len(b) + 1
      BY <1>1, <3>1
    <3> QED
      BY <3>2
  <2>2. b[m] = "nl"
    BY <1>4, <1>12, <2>1
  <2>3. \A i \in p..e - 1 : w[i] # "nl"
    BY <1>1, <1>3, <1>4, LineEndIs DEF Breaks
  <2>4. ASSUME NEW i \in 1..m - 1 PROVE b[i] # "nl"
    <3>1. i \in 1..Len(b) /\ p + i - 1 \in p..e - 1
      <4>1. i \in Nat /\ i >= 1 /\ i <= e - p /\ Len(b) \in Nat /\ e - p + 1 <= Len(b)
        BY <2>1
      <4>2. p \in Nat /\ e \in Nat
        BY <1>3, <1>4
      <4> QED
        BY <4>1, <4>2
    <3> QED
      BY <1>12, <2>3, <3>1
  <2>5. Breaks(b, 1, m)
    <3>1. m \in 1..Len(b) + 1
      BY <2>1
    <3> QED
      BY <2>2, <2>4, <3>1 DEF Breaks
  <2>6. LineEnd(b, 1) = m
    <3>1. 1 \in 1..Len(b) + 1
      BY <2>1
    <3> QED
      BY <2>5, <3>1, LineEndIs
  <2>7. SubSeq(b, 1, m - 1) = SubSeq(w, p, e - 1)
    <3>1. PICK y \in Seq(Characters) : y = SubSeq(b, 1, m - 1) /\ Len(y) = m - 1
            /\ \A i \in 1..m - 1 : y[i] = b[i]
      <4>1. SubSeq(b, 1, m - 1) \in Seq(Characters) /\ Len(SubSeq(b, 1, m - 1)) = m - 1
            /\ \A i \in 1..m - 1 : SubSeq(b, 1, m - 1)[i] = b[i]
        BY <2>1
      <4> QED
        BY <4>1
    <3>2. PICK z \in Seq(Characters) : z = SubSeq(w, p, e - 1) /\ Len(z) = e - p
            /\ \A i \in 1..e - p : z[i] = w[p + i - 1]
      <4>2. p \in Nat /\ p >= 1 /\ e \in 1..Len(w) /\ e >= p
        BY <1>3, <1>4
      <4>1. SubSeq(w, p, e - 1) \in Seq(Characters) /\ Len(SubSeq(w, p, e - 1)) = e - p
            /\ \A i \in 1..e - p : SubSeq(w, p, e - 1)[i] = w[p + i - 1]
        BY <1>1, <4>2, CutIs
      <4> QED
        BY <4>1
    <3>3. \A i \in 1..m - 1 : i \in 1..Len(b)
      BY <2>1
    <3>4. Len(y) = Len(z) /\ \A i \in 1..Len(y) : y[i] = z[i]
      <4>1. Len(y) = m - 1 /\ Len(z) = m - 1
        BY <2>1, <3>1, <3>2
      <4>2. \A i \in 1..m - 1 : y[i] = w[p + i - 1]
        BY <1>12, <3>1, <3>3
      <4>3. \A i \in 1..m - 1 : z[i] = w[p + i - 1]
        BY <2>1, <3>2
      <4> QED
        BY <4>1, <4>2, <4>3
    <3>5. y = [i \in 1..Len(y) |-> y[i]] /\ z = [i \in 1..Len(z) |-> z[i]]
      OBVIOUS
    <3>6. y = z
      BY <3>4, <3>5
    <3> QED
      BY <3>1, <3>2, <3>6
  <2> QED
    BY <1>6, <2>6, <2>7 DEF Line
<1>15. Content(b) = 1
  BY <1>7, <1>14 DEF Content
<1>16. \E n \in p..Len(s) : s[n] \notin White
  <2>1. PICK z \in Seq(Characters) : z = SubSeq(w, p, e - 1) /\ Len(z) = e - p
          /\ \A i \in 1..e - p : z[i] = w[p + i - 1]
    <3>1. SubSeq(w, p, e - 1) \in Seq(Characters) /\ Len(SubSeq(w, p, e - 1)) = e - p
          /\ \A i \in 1..e - p : SubSeq(w, p, e - 1)[i] = w[p + i - 1]
      <4>1. p \in Nat /\ p >= 1 /\ e \in 1..Len(w) /\ p <= e
        BY <1>3, <1>4
      <4> QED
        BY <1>1, <4>1, CutIs
    <3> QED
      BY <3>1
  <2>2. PICK i \in 1..e - p : z[i] \notin White
    BY <1>6, <2>1 DEF Blank
  <2>3. p + i - 1 \in p..Len(s) /\ p + i - 1 \in 1..Len(s)
    <3>1. p \in Nat /\ p >= 1 /\ e \in Nat /\ p <= e
      BY <1>3, <1>4
    <3>2. e - 1 <= Len(s)
      BY <1>1, <1>4, <3>1
    <3> QED
      BY <1>1, <3>1, <3>2
  <2>4. s[p + i - 1] = w[p + i - 1]
    BY <2>3 DEF Longer
  <2> QED
    BY <2>1, <2>2, <2>3, <2>4
<1>17. \E n \in 1..Len(x) : x[n] \notin White
  <2>1. PICK n \in p..Len(s) : s[n] \notin White
    BY <1>16
  <2>2. n - p + 1 \in 1..Len(x) /\ p + (n - p + 1) - 1 = n
    BY <1>1, <1>3, <1>21
  <2> QED
    BY <1>21, <2>1, <2>2
<1>18. Len(b) \in LetterPositions(b) <=> StopAhead(x)
  BY <1>11, <1>13, <1>15, <1>17, LetterAtEnd DEF StopAhead
<1>19. StopAhead(x) <=> StopAhead(s)
  BY <1>1, <1>3, <1>10, <1>16, StopInPart
<1>20. PlaceIn(w, p, Len(w)) <=> Len(b) \in LetterPositions(b)
  <2>1. \A n \in LetterPositions(b) : n \in 1..Len(b)
    BY LetterPositionsWithin
  <2>2. Len(w) = p + Len(b) - 1 /\ \A n \in 1..Len(b) : Len(w) = p + n - 1 => n = Len(b)
    BY <1>1, <1>3, <1>11
  <2> QED
    BY <1>11, <2>1, <2>2 DEF PlaceIn
<1> QED
  BY <1>18, <1>19, <1>20

-----------------------------------------------------------------------------
(***************************************************************************)
(* is_md_pre_letter, line by line against the extractor's reading of the   *)
(* longer text.                                                            *)
(***************************************************************************)
\* What is_md_pre_letter looks at.
Filled(s) == {p \in LineStarts(s) : p < LastLineStart(s) /\ ~Blank(Line(s, p))}
Above(s) == Line(s, CHOOSE p \in Filled(s) : \A n \in Filled(s) : n <= p)

LEMMA PreLetterIs ==
  ASSUME NEW s, NEW L, L = LastLineStart(s), NEW x, x = Line(s, L)
  PROVE  IsPreLetter(s) <=>
           IF LineSkippable(x)
           THEN \/ IsMarkerLine(x)
                \/ Filled(s) = {}
                \/ Blank(x) /\ Blank(Line(s, PreviousLine(s, L)))
                \/ IsMarkerLine(Above(s))
                \/ EndsSentence(Above(s))
           ELSE AfterSentence(x)
  BY DEF IsPreLetter, Filled, Above

\* A line that is not blank right before the last one is the one above.
LEMMA AboveIs ==
  ASSUME NEW s \in Seq(Characters), NEW L, L = LastLineStart(s), L # 1,
         NEW q, q = PreviousLine(s, L), ~Blank(Line(s, q))
  PROVE  Filled(s) # {} /\ Above(s) = Line(s, q)
<1>1. L \in 1..Len(s) + 1 /\ L \in Nat /\ 1 < L
  BY LastLine
<1>2. q \in LineStarts(s) /\ q < L /\ \A m \in LineStarts(s) : m < L => m <= q
  BY <1>1, PreviousIs DEF Previous
<1>3. \A m \in LineStarts(s) : m \in Nat
  BY DEF LineStarts
<1>4. q \in Filled(s) /\ \A n \in Filled(s) : n \in Nat /\ n <= q
  BY <1>2, <1>3 DEF Filled
<1>5. PICK c : c = CHOOSE p \in Filled(s) : \A n \in Filled(s) : n <= p
  OBVIOUS
<1>6. c \in Filled(s) /\ \A n \in Filled(s) : n <= c
  BY <1>4, <1>5, Zenon
<1>7. c = q
  <2>1. c <= q /\ q <= c /\ c \in Nat /\ q \in Nat
    BY <1>4, <1>6
  <2> QED
    BY <2>1
<1> QED
  BY <1>4, <1>5, <1>7 DEF Above

\* The last line of a text without code, tags, emphasis and quotes.
LEMMA LastLineSimple ==
  ASSUME NEW s, SimpleText(s), NEW L, L = LastLineStart(s), NEW x, x = Line(s, L)
  PROVE  /\ SimpleLine(x)
         /\ PartOf(x, s, L)
         /\ LineSkippable(x) /\ ~IsMarkerLine(x) => \A n \in L..Len(s) : s[n] \in White
         /\ ~LineSkippable(x) /\ ~IsMarkerLine(x) => \E n \in L..Len(s) : s[n] \notin White
<1>1. s \in Seq(Characters) /\ Len(s) \in Nat
  BY DEF SimpleText
<1>2. L \in 1..Len(s) + 1 /\ (\A n \in L..Len(s) : s[n] # "nl") /\ L \in Nat
  BY <1>1, LastLine
<1>3. x = SubSeq(s, L, Len(s))
  BY <1>1, LineOfLast
<1>4. PartOf(x, s, L)
  <2>1. x \in Seq(Characters) /\ Len(x) = Len(s) - L + 1
        /\ \A i \in 1..Len(s) - L + 1 : x[i] = s[L + i - 1]
    BY <1>1, <1>2, <1>3
  <2> QED
    BY <2>1 DEF PartOf
<1>5. x \in Seq(Characters) /\ Len(x) = Len(s) - L + 1 /\ \A i \in 1..Len(x) : x[i] = s[L + i - 1]
  BY <1>4 DEF PartOf
<1>6. \A i \in 1..Len(x) : L + i - 1 \in L..Len(s) /\ L + i - 1 \in 1..Len(s)
  BY <1>1, <1>2, <1>5
<1>7. SimpleLine(x)
  BY <1>2, <1>5, <1>6 DEF SimpleLine, SimpleText
<1>8. ~IsMarkerLine(x) => (LineSkippable(x) <=> \A i \in 1..Len(x) : x[i] \in White)
  <2> SUFFICES ASSUME ~IsMarkerLine(x)
               PROVE  LineSkippable(x) <=> \A i \in 1..Len(x) : x[i] \in White
    OBVIOUS
  <2>1. AfterMarkers(x) = 1 /\ 1 \in 1..Len(x) + 1
    BY <1>5, PlainLineStart
  <2>2. LineSkippable(x) <=> \A i \in 1..Len(x) : x[i] = " "
    BY <1>7, <2>1, OnlySpaces DEF LineSkippable
  <2>3. \A i \in 1..Len(x) : x[i] = " " <=> x[i] \in White
    BY <1>7 DEF SimpleLine, White
  <2> QED
    BY <2>2, <2>3
<1>9. (\A i \in 1..Len(x) : x[i] \in White) <=> \A n \in L..Len(s) : s[n] \in White
  <2>1. ASSUME NEW n \in L..Len(s) PROVE \E i \in 1..Len(x) : x[i] = s[n]
    <3>1. n - L + 1 \in 1..Len(x) /\ L + (n - L + 1) - 1 = n
      BY <1>1, <1>2, <1>5
    <3> QED
      BY <1>5, <3>1
  <2> QED
    BY <1>5, <1>6, <2>1
<1> QED
  BY <1>4, <1>7, <1>8, <1>9

\* A line that ends a sentence with nothing but white after it in the text.
LEMMA SentenceBefore ==
  ASSUME NEW s, SimpleText(s), NEW q \in LineStarts(s), NEW L, L = LastLineStart(s), q < L,
         NEW y, y = Line(s, q), ~Blank(y), LineEnd(s, q) = L - 1,
         \A n \in L..Len(s) : s[n] \in White
  PROVE  EndsSentence(y) <=> StopAhead(s)
<1>1. s \in Seq(Characters) /\ Len(s) \in Nat /\ L \in LineStarts(s)
  BY LastLine DEF SimpleText
<1>2. PICK e \in 1..Len(s) : e = LineEnd(s, q) /\ e \in q..L - 1 /\ s[e] = "nl" /\ e + 1 = L
  <2>1. /\ LineEnd(s, q) \in 1..Len(s) /\ LineEnd(s, q) \in q..L - 1 /\ s[LineEnd(s, q)] = "nl"
        /\ L \in Nat
    BY <1>1, LineBefore DEF LineStarts
  <2> QED
    BY <2>1
<1>3. q \in Nat /\ q >= 1 /\ e \in Nat /\ e <= Len(s) /\ q <= e /\ L \in Nat
  BY <1>1, <1>2 DEF LineStarts
<1>4. y = SubSeq(s, q, e - 1)
  BY <1>2 DEF Line
<1>5. y \in Seq(Characters) /\ Len(y) = e - q /\ \A i \in 1..e - q : y[i] = s[q + i - 1]
  BY <1>1, <1>3, <1>4
<1>6. \A i \in 1..Len(y) : q + i - 1 \in q..e - 1 /\ q + i - 1 \in 1..Len(s) - 1
  BY <1>1, <1>3, <1>5
<1>7. SimpleText(y)
  <2>1. \A i \in 1..Len(y) : y[i] = s[q + i - 1] /\ q + i - 1 \in 1..Len(s)
    BY <1>1, <1>3, <1>5
  <2> QED
    BY <1>5, <2>1 DEF SimpleText
<1>8. \A n \in e..Len(s) : s[n] \in White
  <2>1. s[e] \in White
    BY <1>2 DEF White
  <2>2. \A n \in e..Len(s) : n = e \/ n \in L..Len(s)
    BY <1>1, <1>2, <1>3
  <2> QED
    BY <2>1, <2>2
<1>9. \E n \in q..e - 1 : s[n] \notin White
  <2>1. PICK i \in 1..Len(y) : y[i] \notin White
    BY DEF Blank
  <2> QED
    BY <1>5, <1>6, <2>1
<1>10. ASSUME NEW i \in 1..Len(y), StopAt(y, i) PROVE StopAhead(s)
  <2>1. PICK j \in 1..Len(s) - 1 : j = q + i - 1
    BY <1>6
  <2>2. s[j] = "."
    BY <1>5, <1>10, <2>1 DEF StopAt
  <2>3. ASSUME NEW n \in j + 1..Len(s) PROVE s[n] \in White
    <3>1. CASE n >= e
      <4>1. n \in e..Len(s)
        BY <1>1, <1>3, <2>1, <3>1
      <4> QED
        BY <1>8, <4>1
    <3>2. CASE n < e
      <4>1. PICK m \in i + 1..Len(y) : m = n - q + 1
        <5>1. n - q + 1 \in i + 1..Len(y)
          BY <1>3, <1>5, <2>1, <3>2
        <5> QED
          BY <5>1
      <4>2. m \in 1..Len(y) /\ q + m - 1 = n
        BY <1>3, <1>5, <4>1
      <4>3. y[m] \in White
        BY <1>10, <4>1 DEF StopAt
      <4> QED
        BY <1>5, <4>2, <4>3
    <3>3. n \in Nat
      BY <2>1
    <3> QED
      BY <1>3, <3>1, <3>2, <3>3
  <2> QED
    BY <2>2, <2>3 DEF StopAt, StopAhead
<1>11. ASSUME NEW j \in 1..Len(s) - 1, StopAt(s, j) PROVE \E i \in 1..Len(y) : StopAt(y, i)
  <2>1. s[j] = "." /\ \A n \in j + 1..Len(s) : s[n] \in White
    BY <1>11 DEF StopAt
  <2>2. j >= q
    <3>1. PICK n \in q..e - 1 : s[n] \notin White
      BY <1>9
    <3>2. ~(j >= q) => n \in j + 1..Len(s)
      BY <1>1, <1>3
    <3> QED
      BY <2>1, <3>1, <3>2
  <2>3. j < e
    <3>1. ~(j < e) => j \in e..Len(s)
      BY <1>1, <1>3
    <3>2. s[j] \notin White
      BY <2>1 DEF White
    <3> QED
      BY <1>8, <3>1, <3>2
  <2>4. PICK i \in 1..Len(y) : i = j - q + 1 /\ q + i - 1 = j
    <3>1. j - q + 1 \in 1..Len(y) /\ q + (j - q + 1) - 1 = j
      BY <1>3, <1>5, <2>2, <2>3
    <3> QED
      BY <3>1
  <2>5. y[i] = "."
    BY <1>5, <2>1, <2>4
  <2>6. ASSUME NEW m \in i + 1..Len(y) PROVE y[m] \in White
    <3>1. m \in 1..e - q /\ q + m - 1 \in j + 1..Len(s)
      BY <1>1, <1>3, <1>5, <2>4
    <3> QED
      BY <1>5, <2>1, <3>1
  <2> QED
    BY <2>5, <2>6 DEF StopAt
<1> QED
  BY <1>7, <1>10, <1>11, EndsSentenceIs DEF StopAhead

\* is_md_pre_letter says of a text what the extractor does with a letter
\* written next.
LEMMA PreLetterOwnBlock ==
  ASSUME NEW s, SimpleText(s), NEW L, L = LastLineStart(s), NEW x, x = Line(s, L),
         \/ L = 1
         \/ IsMarkerLine(x)
         \/ LET before == Line(s, PreviousLine(s, L)) IN Blank(before) \/ IsMarkerLine(before)
  PROVE  IsPreLetter(s) <=> LineSkippable(x) \/ AfterSentence(x)
<1>1. s \in Seq(Characters) /\ Len(s) \in Nat
  BY DEF SimpleText
<1>2. ASSUME LineSkippable(x)
      PROVE  \/ IsMarkerLine(x)
             \/ Filled(s) = {}
             \/ Blank(x) /\ Blank(Line(s, PreviousLine(s, L)))
             \/ IsMarkerLine(Above(s))
  <2>1. CASE L = 1
    <3>1. \A p \in LineStarts(s) : ~(p < 1)
      BY DEF LineStarts
    <3> QED
      BY <2>1, <3>1 DEF Filled
  <2>2. CASE IsMarkerLine(x)
    BY <2>2
  <2>3. CASE L # 1 /\ ~IsMarkerLine(x)
    <3>1. PICK q : q = PreviousLine(s, L)
      OBVIOUS
    <3>2. Blank(Line(s, q)) \/ IsMarkerLine(Line(s, q))
      BY <2>3, <3>1
    <3>3. CASE Blank(Line(s, q))
      <4>1. \A n \in L..Len(s) : s[n] \in White
        BY <1>2, <2>3, LastLineSimple
      <4>2. PartOf(x, s, L)
        BY LastLineSimple
      <4>3. L \in 1..Len(s) + 1
        BY <1>1, LastLine
      <4>4. \A i \in 1..Len(x) : x[i] = s[L + i - 1] /\ L + i - 1 \in L..Len(s)
        BY <1>1, <4>2, <4>3 DEF PartOf
      <4>5. Blank(x)
        BY <4>1, <4>4 DEF Blank
      <4> QED
        BY <3>1, <3>3, <4>5
    <3>4. CASE IsMarkerLine(Line(s, q)) /\ ~Blank(Line(s, q))
      BY <1>1, <2>3, <3>1, <3>4, AboveIs
    <3> QED
      BY <3>2, <3>3, <3>4
  <2> QED
    BY <2>1, <2>2, <2>3
<1>3. IsPreLetter(s) <=>
        IF LineSkippable(x)
        THEN \/ IsMarkerLine(x)
             \/ Filled(s) = {}
             \/ Blank(x) /\ Blank(Line(s, PreviousLine(s, L)))
             \/ IsMarkerLine(Above(s))
             \/ EndsSentence(Above(s))
        ELSE AfterSentence(x)
  BY PreLetterIs
<1> QED
  BY <1>2, <1>3

LEMMA PreLetterInBlock ==
  ASSUME NEW s, SimpleText(s), NEW L, L = LastLineStart(s), NEW x, x = Line(s, L),
         L # 1, ~IsMarkerLine(x), NEW q, q = PreviousLine(s, L),
         ~Blank(Line(s, q)), ~IsMarkerLine(Line(s, q))
  PROVE  IsPreLetter(s) <=> StopAhead(s)
<1>1. s \in Seq(Characters) /\ Len(s) \in Nat
  BY DEF SimpleText
<1>2. Filled(s) # {} /\ Above(s) = Line(s, q)
  BY <1>1, AboveIs
<1>3. L \in LineStarts(s) /\ L \in 1..Len(s) + 1 /\ s[L - 1] = "nl"
      /\ \A p \in LineStarts(s) : p <= L
  BY <1>1, LastLine
<1>4. q \in LineStarts(s) /\ q < L /\ \A m \in LineStarts(s) : m < L => m <= q
  <2>1. L \in Nat /\ 1 < L
    BY <1>3
  <2> QED
    BY <1>1, <2>1, PreviousIs DEF Previous
<1>5. SimpleLine(x) /\ PartOf(x, s, L)
  BY LastLineSimple
<1>6. CASE LineSkippable(x)
  <2>1. IsPreLetter(s) <=> EndsSentence(Line(s, q))
    <3>1. IsPreLetter(s) <=>
            IF LineSkippable(x)
            THEN \/ IsMarkerLine(x)
                 \/ Filled(s) = {}
                 \/ Blank(x) /\ Blank(Line(s, PreviousLine(s, L)))
                 \/ IsMarkerLine(Above(s))
                 \/ EndsSentence(Above(s))
            ELSE AfterSentence(x)
      BY PreLetterIs
    <3> QED
      BY <1>2, <1>6, <3>1
  <2>2. \A n \in L..Len(s) : s[n] \in White
    BY <1>6, LastLineSimple
  <2>3. LineEnd(s, q) = L - 1
    <3>1. PICK e : e = LineEnd(s, q) /\ e \in q..L - 1 /\ e + 1 \in LineStarts(s)
      BY <1>1, <1>3, <1>4, LineBefore
    <3>2. q \in Nat /\ L \in Nat
      BY <1>3, <1>4 DEF LineStarts
    <3>3. e + 1 < L => e + 1 <= q
      BY <1>4, <3>1
    <3> QED
      BY <3>1, <3>2, <3>3
  <2>4. EndsSentence(Line(s, q)) <=> StopAhead(s)
    BY <1>4, <2>2, <2>3, SentenceBefore
  <2> QED
    BY <2>1, <2>4
<1>7. CASE ~LineSkippable(x)
  <2>1. IsPreLetter(s) <=> AfterSentence(x)
    BY <1>7, PreLetterIs
  <2>2. AfterSentence(x) <=> StopAhead(x)
    BY <1>5, AfterSentenceIs
  <2>3. \E n \in L..Len(s) : s[n] \notin White
    BY <1>7, LastLineSimple
  <2>4. L \in 1..Len(s)
    BY <1>1, <1>3, <2>3
  <2>5. StopAhead(x) <=> StopAhead(s)
    BY <1>1, <1>5, <2>3, <2>4, StopInPart
  <2> QED
    BY <2>1, <2>2, <2>5
<1> QED
  BY <1>6, <1>7

LEMMA PreLetterExact ==
  ASSUME NEW w, NEW s, Longer(w, s), SimpleText(s)
  PROVE  IsPreLetter(s) <=> Len(w) \in LetterPlaces(w)
<1>1. /\ s \in Seq(Characters) /\ w \in Seq(Characters) /\ Len(w) = Len(s) + 1 /\ Len(s) \in Nat
  BY DEF Longer
<1>2. PICK L : L = LastLineStart(s) /\ L = LastLineStart(w)
  BY LinesLonger
<1>3. PICK x : x = Line(s, L)
  OBVIOUS
<1>4. /\ LineStarts(w) = LineStarts(s) /\ L \in LineStarts(w) /\ L \in 1..Len(w)
      /\ \A p \in LineStarts(w) : p <= L /\ p \in Nat
  <2>1. L \in LineStarts(s) /\ L \in 1..Len(s) + 1 /\ \A p \in LineStarts(s) : p <= L
    BY <1>1, <1>2, LastLine
  <2>2. \A p \in LineStarts(s) : p \in Nat
    BY DEF LineStarts
  <2> QED
    BY <1>1, <2>1, <2>2, StartsLonger
<1>5. CASE OpensBlock(w, L)
  <2>1. \/ L = 1
        \/ IsMarkerLine(x)
        \/ LET before == Line(s, PreviousLine(s, L)) IN Blank(before) \/ IsMarkerLine(before)
    BY <1>2, <1>3, <1>5, LastOpens
  <2>2. IsPreLetter(s) <=> LineSkippable(x) \/ AfterSentence(x)
    BY <1>2, <1>3, <2>1, PreLetterOwnBlock
  <2>3. Longer(Line(w, L), x) /\ SimpleLine(x)
    BY <1>2, <1>3, LinesLonger, LastLineSimple
  <2>4. Len(Line(w, L)) \in LetterPositions(Line(w, L)) <=> LineSkippable(x) \/ AfterSentence(x)
    BY <2>3, LetterInLine
  <2> QED
    BY <1>2, <1>5, <2>2, <2>4, LetterInOwnBlock
<1>6. CASE ~OpensBlock(w, L)
  <2>1. PICK q : q = PreviousLine(s, L)
    OBVIOUS
  <2>2. L # 1 /\ ~IsMarkerLine(x) /\ ~Blank(Line(s, q)) /\ ~IsMarkerLine(Line(s, q))
    BY <1>2, <1>3, <1>6, <2>1, LastOpens
  <2>3. IsPreLetter(s) <=> StopAhead(s)
    BY <1>2, <1>3, <2>1, <2>2, PreLetterInBlock
  <2>4. q \in LineStarts(w) /\ q < L /\ \A m \in LineStarts(w) : m < L => m <= q
    <3>1. L \in Nat /\ 1 < L
      BY <1>4, <2>2
    <3> QED
      BY <1>1, <1>4, <2>1, <3>1, PreviousIs DEF Previous
  <2>5. Line(w, q) = Line(s, q)
    <3>1. \A p \in LineStarts(s) : p < L => Line(w, p) = Line(s, p)
      BY <1>2, LinesLonger
    <3> QED
      BY <1>4, <2>4, <3>1
  <2>6. PICK p \in BlockStarts(w) :
          /\ p <= q
          /\ \A n \in LineStarts(w) : p < n /\ n <= q => ~OpensBlock(w, n) /\ ~Blank(Line(w, n))
    BY <1>1, <2>2, <2>4, <2>5, BlockOpened
  <2>7. p \in LineStarts(w) /\ p \in 1..Len(w) + 1 /\ p < L
    <3>1. p \in LineStarts(w)
      BY DEF BlockStarts
    <3>2. p \in 1..Len(w) + 1
      BY <3>1 DEF LineStarts
    <3> QED
      BY <1>4, <2>4, <2>6, <3>1, <3>2
  <2>8. BlockEnd(w, p) > Len(w)
    <3>1. ~Blank(Line(w, L))
      BY <1>2, LastOpens
    <3>2. \A n \in LineStarts(w) : n <= q \/ n = L
      BY <1>4, <2>4
    <3>3. Stops(w, p) = {}
      BY <1>6, <2>6, <3>1, <3>2 DEF Stops
    <3>4. BlockEnd(w, p) = Len(w) + 1
      BY <1>1, <2>7, <3>3, BlockEndIs
    <3> QED
      BY <1>1, <3>4
  <2>9. \A r \in BlockStarts(w) : PlaceIn(w, r, Len(w)) =>
          r < L /\ BlockEnd(w, r) > Len(w)
    <3> SUFFICES ASSUME NEW r \in BlockStarts(w), PlaceIn(w, r, Len(w))
                 PROVE  r < L /\ BlockEnd(w, r) > Len(w)
      OBVIOUS
    <3>1. BlockEnd(w, r) > Len(w)
      BY <1>1, PlaceInBlock
    <3>2. r \in LineStarts(w) /\ r # L
      BY <1>6 DEF BlockStarts
    <3> QED
      BY <1>4, <3>1, <3>2
  <2>10. \A r \in BlockStarts(w) : r < L /\ BlockEnd(w, r) > Len(w) =>
           (PlaceIn(w, r, Len(w)) <=> StopAhead(s))
    BY <1>2, LetterInBlock
  <2>11. Len(w) \in LetterPlaces(w) <=> StopAhead(s)
    BY <2>6, <2>7, <2>8, <2>9, <2>10, LetterPlaceIs
  <2> QED
    BY <2>3, <2>11
<1> QED
  BY <1>5, <1>6

-----------------------------------------------------------------------------
(***************************************************************************)
(* The bias is where letters count.                                        *)
(***************************************************************************)
LEMMA LetterCounts ==
  ASSUME NEW w, NEW s, Longer(w, s), SimpleText(s), w = s \o <<w[Len(w)]>>
  PROVE  Len(FirstLetters(w)) > Len(FirstLetters(s)) <=> Len(w) \in LetterPlaces(w)
<1>1. /\ s \in Seq(Characters) /\ w \in Seq(Characters) /\ Len(s) \in Nat
      /\ Len(w) = Len(s) + 1 /\ w[Len(w)] \in Letters
      /\ \A i \in 1..Len(s) : w[i] = s[i]
  BY DEF Longer
<1>2. PlainText(s)
  BY DEF SimpleText, PlainText
<1>3. PlainText(w)
  <2>1. ASSUME NEW i \in 1..Len(w) PROVE w[i] \notin {"fence", "tick", "<"}
    <3>1. CASE i \in 1..Len(s)
      BY <1>1, <1>2, <3>1 DEF PlainText
    <3>2. CASE i = Len(w)
      <4>1. w[i] \notin Marks
        BY <1>1, <3>2, LettersAssumption
      <4>2. "fence" \in Marks /\ "tick" \in Marks /\ "<" \in Marks
        BY Zenon DEF Marks
      <4>3. w[i] # "fence" /\ w[i] # "tick" /\ w[i] # "<"
        BY <4>1, <4>2, Zenon
      <4> QED
        BY <4>3
    <3>3. i \in 1..Len(s) \/ i = Len(w)
      BY <1>1
    <3> QED
      BY <3>1, <3>2, <3>3
  <2> QED
    BY <1>1, <2>1 DEF PlainText
<1>4. /\ FirstLetters(s) = LettersUpTo(s, LetterPlaces(s))[Len(s)]
      /\ FirstLetters(w) = LettersUpTo(w, LetterPlaces(w))[Len(w)]
  <2>1. Preprocess(s) = s /\ Preprocess(w) = w
    BY <1>2, <1>3, PreprocessPlain
  <2> QED
    BY <2>1, FirstLettersAre
<1>5. LettersUpTo(s, LetterPlaces(s))[Len(s)] = LettersUpTo(w, LetterPlaces(w))[Len(s)]
  <2>1. PICK c \in Letters : c = w[Len(w)]
    BY <1>1
  <2>2. <<c>> \in Seq(Characters)
    BY DEF Characters
  <2>3. w = s \o <<c>>
    BY <2>1
  <2> QED
    BY <1>1, <2>2, <2>3, LettersKept
<1>6. PICK f : f = LettersUpTo(w, LetterPlaces(w))[Len(s)]
  OBVIOUS
<1>7. f \in Seq(Characters) /\ Len(f) \in Nat
  <2>1. Len(s) \in 0..Len(w) /\ Len(w) \in Len(s)..Len(w)
    BY <1>1
  <2>2. f \in Seq(Characters)
    BY <1>1, <1>6, <2>1, LettersGrow
  <2> QED
    BY <2>2
<1>8. LettersUpTo(w, LetterPlaces(w))[Len(w)] =
        IF Len(w) \in LetterPlaces(w) THEN Append(f, w[Len(w)]) ELSE f
  <2>1. Len(w) \in 1..Len(w) /\ Len(w) - 1 = Len(s)
    BY <1>1
  <2> QED
    BY <1>1, <1>6, <2>1, LettersSteps
<1>9. Len(Append(f, w[Len(w)])) = Len(f) + 1
  BY <1>7
<1>10. FirstLetters(s) = f
  BY <1>4, <1>5, <1>6
<1>11. CASE Len(w) \in LetterPlaces(w)
  <2>1. Len(FirstLetters(w)) = Len(f) + 1
    BY <1>4, <1>8, <1>9, <1>11
  <2> QED
    BY <1>7, <1>10, <1>11, <2>1
<1>12. CASE Len(w) \notin LetterPlaces(w)
  <2>1. FirstLetters(w) = f
    BY <1>4, <1>8, <1>12
  <2> QED
    BY <1>7, <1>10, <1>12, <2>1
<1> QED
  BY <1>11, <1>12

\* Whether a letter written next counts does not depend on which it is.
LEMMA PreLetterCounts ==
  ASSUME NEW s, SimpleText(s), NEW letter \in Letters
  PROVE  IsPreLetter(s) <=> Len(FirstLetters(Append(s, letter))) > Len(FirstLetters(s))
<1>1. s \in Seq(Characters)
  BY DEF SimpleText
<1>2. PICK w : w = Append(s, letter)
  OBVIOUS
<1>3. Longer(w, s)
  BY <1>1, <1>2, AppendIsLonger
<1>4. w = s \o <<w[Len(w)]>>
  <2>1. letter \in Characters
    BY DEF Characters
  <2>2. Append(s, letter) = s \o <<letter>> /\ Append(s, letter)[Len(Append(s, letter))] = letter
    BY <1>1, <2>1
  <2> QED
    BY <1>2, <2>2
<1>5. IsPreLetter(s) <=> Len(w) \in LetterPlaces(w)
  BY <1>3, PreLetterExact
<1>6. Len(FirstLetters(w)) > Len(FirstLetters(s)) <=> Len(w) \in LetterPlaces(w)
  BY <1>3, <1>4, LetterCounts
<1> QED
  BY <1>2, <1>5, <1>6

\* As long as letters of the secret are left and the response has no code, tags,
\* emphasis or quotes, there is a bias exactly when a letter written next would
\* be counted, whatever the vocabulary.
THEOREM BiasAlwaysWhereCounted == Spec => []BiasWhereCounted
<1>1. Typed /\ CountedInv => BiasWhereCounted
  <2> SUFFICES ASSUME Typed, CountedInv, bias # "ask", ~Exhausted(ctrl), Unadorned(Response),
                      NEW l \in Letters
               PROVE  (bias # "none") <=>
                        Len(FirstLetters(Append(Response, l))) > Len(FirstLetters(Response))
    BY DEF BiasWhereCounted
  <2>1. /\ output \in Seq(Tokens) /\ ctrl.processed = Len(output)
        /\ ctrl.text = Decode(SubSeq(output, 1, ctrl.processed))
        /\ bias = BiasLetter(ctrl) /\ ctrl \in ControllerType
    <3>1. output \in Seq(Tokens) /\ ctrl \in ControllerType
      BY DEF Typed, TypeOK
    <3>2. /\ ctrl.text = Decode(SubSeq(output, 1, ctrl.processed))
          /\ ctrl.processed = Len(output) /\ bias = BiasLetter(ctrl)
      BY DEF CountedInv
    <3> QED
      BY <3>1, <3>2
  <2>2. ctrl.text = Response
    BY <2>1, WholeResponse DEF Response
  <2>3. SimpleText(Response)
    <3>1. Response \in Seq(Characters)
      BY <2>1, DecodeType DEF Response
    <3> QED
      BY <3>1 DEF SimpleText, Unadorned
  <2>4. Wanted(ctrl) # "none"
    <3>1. ctrl.target \in 0..Len(Secret)
      BY <2>1 DEF ControllerType
    <3>2. Wanted(ctrl) \in Letters
      BY <3>1, SecretLetters DEF Exhausted, Wanted
    <3> QED
      BY <3>2, BiasAssumption
  <2>5. bias # "none" <=> IsPreLetter(Response)
    BY <2>1, <2>2, <2>4 DEF BiasLetter
  <2> QED
    BY <2>3, <2>5, PreLetterCounts
<1> QED
  BY <1>1, AlwaysCounted, PTL

=============================================================================
