-------------------------- MODULE DistillationProofs --------------------------
(***************************************************************************)
(* Proofs about DistillationData and DistillationStep, for every length of *)
(* prompts and responses, every truncation, every number of rows and ranks *)
(* and every configuration.                                                *)
(***************************************************************************)
EXTENDS DistillationStep, DataFlowProofs

-----------------------------------------------------------------------------
(***************************************************************************)
(* One sample                                                              *)
(***************************************************************************)

LEMMA SeqLenType ==
  ASSUME NEW P \in Nat, NEW R \in Nat \ {0}
  PROVE  /\ SeqLen(P, R) \in Nat
         /\ 0 < SeqLen(P, R) /\ SeqLen(P, R) <= MaxLength
         /\ SeqLen(P, R) <= P + R
         /\ P + R <= MaxLength => SeqLen(P, R) = P + R
         /\ P + R > MaxLength => SeqLen(P, R) = MaxLength
  BY LengthAssumption DEF SeqLen, Lesser

\* What the comment of _tokenize_sequence (dataset.py:168-176) says of the
\* mask is true before the worker shifts it once more: of a sequence that
\* is not cut, the token before the response is predicted in the loss, and
\* the last token of the response is not.
LEMMA ScoredOffsets ==
  ASSUME NEW P \in Nat, P > 1, NEW R \in Nat \ {0}, P + R <= MaxLength
  PROVE  {TokenAt(P, R)[p] : p \in Scored(P, R)} = -1..(R - 2)
<1>1. SeqLen(P, R) = P + R /\ Dropped(P, R) = 0
  BY SeqLenType, LengthAssumption DEF Dropped
<1>2. Scored(P, R) = (P - 1)..(P + R - 2)
  BY <1>1 DEF Scored, LossMask, Lesser
<1>3. \A p \in Scored(P, R) : TokenAt(P, R)[p] = p - P
  BY <1>1, <1>2 DEF TokenAt
<1>4. \A n \in -1..(R - 2) : n + P \in Scored(P, R) /\ TokenAt(P, R)[n + P] = n
  BY <1>2, <1>3
<1> QED
  BY <1>2, <1>3, <1>4, SMTT(20)

\* However a sequence is cut, a scored position carries the label of the
\* very token it predicts.
LEMMA LiftedLabel ==
  ASSUME NEW P \in Nat, P > 1, NEW R \in Nat \ {0},
         ~TooLong(P, R),
         NEW labels, labels \in Seq(Int),
         NEW p \in Scored(P, R)
  PROVE  Lift(labels, P, R)[p] = LabelOf(labels, TokenAt(P, R)[p])
<1> DEFINE len == SeqLen(P, R)
           drop == P + R - len
           whole == P + R <= len
           left == ~whole /\ Truncation = "left"
           start == IF left THEN Greater(0, P - drop) ELSE P
           offset == IF left THEN Greater(0, drop - P) ELSE 0
           kept == IF whole THEN R
                   ELSE IF left THEN R - offset
                   ELSE Lesser(Greater(0, len - P), R)
           step == offset + p - start
           token == TokenAt(P, R)[p]
<1>1. len \in Nat /\ 0 < len /\ len <= P + R
  BY SeqLenType
<1>2. p \in 0..(len - 1)
  BY DEF Scored, LossMask
<1>3. token = p - P + (IF Truncation = "left" THEN drop ELSE 0)
  BY <1>1, <1>2 DEF TokenAt, Dropped
<1>4. Lift(labels, P, R)[p] = IF p - start \in 0..(kept - 1) /\ step < Len(labels)
                              THEN labels[step + 1] ELSE -1
  BY <1>2 DEF Lift
<1>5. Len(labels) \in Nat
  OBVIOUS
<1>9. whole <=> P + R <= MaxLength
  BY LengthAssumption DEF SeqLen, Lesser
<1>10. token = TokenAt(P, R)[p]
  OBVIOUS
<1> HIDE DEF len, token
<1>6. CASE whole
  BY <1>10, <1>1, <1>2, <1>3, <1>4, <1>5, <1>6 DEF LabelOf
<1>7. CASE left
  <2>1. start \in Int /\ offset \in Int /\ kept \in Int /\ step = token
    BY <1>1, <1>2, <1>3, <1>7 DEF Greater
  <2>2. p - start \in 0..(kept - 1) <=> token >= 0
    BY <1>1, <1>2, <1>3, <1>7 DEF Greater
  <2> HIDE DEF start, offset, kept, step
  <2>3. Lift(labels, P, R)[p] = IF token >= 0 /\ token < Len(labels)
                                THEN labels[token + 1] ELSE -1
    BY <1>4, <2>1, <2>2
  <2>4. token \in Int
    BY <1>1, <1>2, <1>3, <1>7
  <2> QED
    BY <1>10, <1>5, <2>3, <2>4 DEF LabelOf
<1>8. CASE ~whole /\ ~left
  <2>1. Truncation = "right"
    BY <1>1, <1>8, <1>9, LengthAssumption, TruncationAssumption DEF TooLong
  <2>2. start = P /\ offset = 0 /\ step = p - P /\ token = p - P
    BY <1>1, <1>2, <1>3, <1>8, <2>1
  <2>3. p - start \in 0..(kept - 1) <=> token >= 0
    BY <1>1, <1>2, <1>8, <2>2 DEF Greater, Lesser
  <2> QED
    BY <1>10, <1>1, <1>2, <1>4, <1>5, <2>2, <2>3 DEF LabelOf
<1> QED
  BY <1>6, <1>7, <1>8

-----------------------------------------------------------------------------
(***************************************************************************)
(* Rows of shards and micro-batches                                        *)
(***************************************************************************)

LEMMA ProductMonotone ==
  ASSUME NEW a \in Int, NEW b \in Int, NEW c \in Nat, a <= b
  PROVE  a * c <= b * c
<1>1. (b - a) * c >= 0
  OBVIOUS
<1>2. (b - a) * c = b * c - a * c
  OBVIOUS
<1>3. a * c \in Int /\ b * c \in Int
  OBVIOUS
<1> QED
  BY <1>1, <1>2, <1>3

LEMMA ShardRows ==
  ASSUME NEW r \in Ranks
  PROVE  /\ ShardSize \in Nat
         /\ (r - 1) * ShardSize \in Nat
         /\ (r - 1) * ShardSize + ShardSize <= BatchSize
         /\ Shard(r) \subseteq Rows
<1>1. ShardSize \in Nat /\ DpSize * ShardSize = BatchSize
  BY SizeAssumption DEF ShardSize
<1>2. r \in Int /\ 1 <= r /\ r <= DpSize /\ DpSize \in Int
  BY SizeAssumption DEF Ranks
<1>3. r * ShardSize <= DpSize * ShardSize
  BY <1>1, <1>2, ProductMonotone
<1>4. 0 * ShardSize <= (r - 1) * ShardSize
  BY <1>1, <1>2, ProductMonotone
<1>5. (r - 1) * ShardSize + ShardSize = r * ShardSize
  BY <1>1, <1>2
<1>6. (r - 1) * ShardSize \in Nat
  BY <1>1, <1>2, <1>4
<1> QED
  BY <1>1, <1>2, <1>3, <1>5, <1>6, SizeAssumption DEF Shard, Rows

LEMMA MicroBatchRows ==
  ASSUME NEW r \in Ranks, config \in Configs, NEW m \in Nat, m < config.accum
  PROVE  MicroBatch(r, m) \subseteq Rows
<1> DEFINE accum == config.accum
<1>1. accum \in Nat \ {0} /\ ShardSize % accum = 0
  BY ConfigsAssumption
<1>2. ShardSize \in Nat
  BY ShardRows
<1>3. MicroSize \in Nat /\ accum * MicroSize = ShardSize
  <2> HIDE DEF accum
  <2>1. MicroSize = ShardSize \div accum
    BY DEF MicroSize, accum
  <2> QED
    BY <1>1, <1>2, <2>1
<1>4. (m + 1) * MicroSize <= accum * MicroSize
  BY <1>1, <1>3, ProductMonotone
<1>5. (m + 1) * MicroSize = m * MicroSize + MicroSize /\ m * MicroSize \in Nat
  BY <1>3
<1>6. m * MicroSize + MicroSize <= ShardSize
  BY <1>3, <1>4, <1>5
<1> DEFINE base == (r - 1) * ShardSize
           done == m * MicroSize
<1>7. base \in Nat /\ base + ShardSize <= BatchSize
  BY ShardRows
<1>8. MicroBatch(r, m) = (base + done + 1)..(base + done + MicroSize)
  BY DEF MicroBatch
<1>9. done \in Nat
  BY <1>5
<1> HIDE DEF base, done
<1> QED
  BY <1>2, <1>3, <1>6, <1>7, <1>8, <1>9, SizeAssumption DEF Rows, done

-----------------------------------------------------------------------------
(***************************************************************************)
(* Counts and contributions                                                *)
(***************************************************************************)

LEMMA ScoresRange ==
  ASSUME NEW P \in Nat, NEW R \in Nat \ {0}
  PROVE  Scored(P, R) \subseteq 0..(MaxLength - 1)
  BY SeqLenType, LengthAssumption, SMTT(20) DEF Scored, LossMask

LEMMA TokensRange ==
  ASSUME batch \in [Rows -> Samples], NEW rows \in SUBSET Rows
  PROVE  ActorTokens(rows) \subseteq Rows \X (0..(MaxLength - 1))
<1>1. \A i \in Rows : Scores(batch[i]) \subseteq 0..(MaxLength - 1)
  BY ScoresRange, SamplesAssumption DEF Scores
<1> QED
  BY <1>1 DEF ActorTokens

LEMMA CardinalityOfTokens ==
  ASSUME batch \in [Rows -> Samples], NEW rows \in SUBSET Rows,
         NEW T \in SUBSET ActorTokens(rows)
  PROVE  Cardinality(T) \in Nat
<1>1. IsFiniteSet(Rows) /\ IsFiniteSet(0..(MaxLength - 1))
  BY FS_Interval, SizeAssumption, LengthAssumption DEF Rows
<1>2. IsFiniteSet(Rows \X (0..(MaxLength - 1)))
  BY <1>1, FS_Product
<1>3. T \subseteq Rows \X (0..(MaxLength - 1))
  BY TokensRange
<1>4. IsFiniteSet(T)
  BY <1>2, <1>3, FS_Subset
<1> QED
  BY <1>4, FS_CardinalityType

LEMMA LocalCountsType ==
  ASSUME batch \in [Rows -> Samples], NEW rows \in SUBSET Rows
  PROVE  LocalCounts(rows) \in [Kinds -> Nat]
<1>1. \A T \in SUBSET ActorTokens(rows) : Cardinality(T) \in Nat
  BY CardinalityOfTokens
<1>2. DOMAIN LocalCounts(rows) = Kinds
  BY DEF LocalCounts, Kinds
<1>3. \A k \in Kinds : LocalCounts(rows)[k] \in Nat
  BY <1>1 DEF LocalCounts, Kinds
<1>4. LocalCounts(rows) = [k \in Kinds |-> LocalCounts(rows)[k]]
  BY <1>2 DEF LocalCounts
<1> QED
  BY <1>3, <1>4

LEMMA ContributionsType ==
  ASSUME batch \in [Rows -> Samples], config \in Configs, NEW rows \in SUBSET Rows
  PROVE  Contributions(rows) \in SUBSET (Terms \X (Rows \X (0..(MaxLength - 1))))
<1>1. Weighted(config.weights) \subseteq Terms
  BY ConfigsAssumption DEF Weighted, Terms
<1>2. ActorTokens(rows) \subseteq Rows \X (0..(MaxLength - 1))
  BY TokensRange
<1> QED
  BY <1>1, <1>2 DEF Contributions

-----------------------------------------------------------------------------
(***************************************************************************)
(* The type invariant                                                      *)
(***************************************************************************)

\* TypeOK and what its steps need: while an update runs there is a batch of
\* rows that could be tokenised; between two updates, and before its first
\* micro-batch, a rank has finished none.
Typed ==
  /\ TypeOK
  /\ status = "running" =>
       /\ batch \in [Rows -> Samples]
       /\ \A i \in Rows : ~TooLong(batch[i].prompt, batch[i].response)
  /\ status = "idle" => \A r \in Ranks : micro[r] = 0 /\ fed[r] = << >>
  /\ \A r \in Ranks : pc[r] \in {"count", "check"} => micro[r] = 0

LEMMA TypedInit == Init => Typed
<1> SUFFICES ASSUME Init PROVE Typed
  OBVIOUS
<1>1. config.accum \in Nat
  BY ConfigsAssumption DEF Init
<1>2. NoCounts \in [Kinds -> Nat]
  BY DEF NoCounts
<1> QED
  BY <1>1, <1>2 DEF Init, Typed, TypeOK

LEMMA TypedStep == Typed /\ [Next]_vars => Typed'
<1> SUFFICES ASSUME Typed, [Next]_vars PROVE Typed'
  OBVIOUS
<1> USE DEF Typed, TypeOK
<1>0. config.accum \in Nat \ {0}
  BY ConfigsAssumption
<1>a. NoCounts \in [Kinds -> Nat]
  BY DEF NoCounts
<1>1. CASE Load
  BY <1>0, <1>1 DEF Load
<1>2. CASE Collect
  BY <1>0, <1>a, <1>2 DEF Collect
<1>3. CASE Abort
  BY <1>3 DEF Abort, rankVars
<1>4. ASSUME NEW r \in Ranks, Rank(r)
      PROVE  Typed'
  <2>0. status = "running" /\ batch \in [Rows -> Samples]
    BY <1>4 DEF Rank
  <2>1. CASE CountTokens(r)
    <3>1. LocalCounts(Shard(r)) \in [Kinds -> Nat]
      BY <2>0, LocalCountsType, ShardRows
    <3> QED
      BY <2>0, <2>1, <3>1 DEF CountTokens
  <2>2. CASE CheckCounts(r)
    <3>1. pc' \in [Ranks -> {"idle", "count", "check", "forward", "backward",
                            "optimize", "done", "raised"}]
      BY <2>0, <2>2 DEF CheckCounts
    <3>2. \A q \in Ranks : pc'[q] \in {"forward", "backward"} => micro[q] < config.accum
      BY <1>0, <2>0, <2>2 DEF CheckCounts
    <3> QED
      BY <2>0, <2>2, <3>1, <3>2 DEF CheckCounts
  <2>3. CASE Forward(r)
    BY <2>0, <2>3 DEF Forward
  <2>4. CASE BackwardFails(r)
    BY <2>0, <2>4 DEF BackwardFails
  <2>5. CASE Backward(r)
    <3> DEFINE rows == MicroBatch(r, micro[r])
               Fed == SUBSET (Terms \X (Rows \X (0..(MaxLength - 1))))
    <3>1. micro[r] \in Nat /\ micro[r] < config.accum
      BY <1>0, <2>5 DEF Backward
    <3>2. Contributions(rows) \in Fed
      BY <2>0, <3>1, MicroBatchRows, ContributionsType
    <3>3. fed' \in [Ranks -> Seq(Fed)] /\ \A q \in Ranks : Len(fed'[q]) = micro'[q]
      <4> HIDE DEF rows, Fed
      <4>1. fed \in [Ranks -> Seq(Fed)] /\ \A q \in Ranks : Len(fed[q]) = micro[q]
        BY DEF Fed
      <4>2. /\ fed' = [fed EXCEPT ![r] = Append(@, Contributions(rows))]
            /\ micro' = [micro EXCEPT ![r] = @ + 1]
        BY <2>5 DEF Backward, rows
      <4> QED
        BY <3>2, <4>1, <4>2
    <3>4. micro' \in [Ranks -> 0..config.accum]
      BY <1>0, <2>5, <3>1 DEF Backward
    <3>5. metricKeys' \in [Ranks -> SUBSET {"green", "initials"}]
      BY <2>5 DEF Backward, MetricsOf
    <3>6. pc' \in [Ranks -> {"idle", "count", "check", "forward", "backward",
                            "optimize", "done", "raised"}]
      BY <2>5 DEF Backward
    <3>7. \A q \in Ranks : pc'[q] \in {"forward", "backward"} => micro'[q] < config.accum
      BY <1>0, <2>5, <3>1 DEF Backward
    <3> QED
      BY <2>0, <2>5, <3>3, <3>4, <3>5, <3>6, <3>7 DEF Backward
  <2>6. CASE OptimizerStep(r)
    BY <2>0, <2>6 DEF OptimizerStep
  <2> QED
    BY <1>4, <2>1, <2>2, <2>3, <2>4, <2>5, <2>6 DEF Rank
<1>5. CASE UNCHANGED vars
  BY <1>5 DEF vars
<1> QED
  BY <1>1, <1>2, <1>3, <1>4, <1>5 DEF Next

\* Types, for every number of ranks, rows and micro-batches.
THEOREM TypeCorrect == Spec => []TypeOK
<1>1. Spec => []Typed
  BY TypedInit, TypedStep, PTL DEF Spec
<1>2. Typed => TypeOK
  BY DEF Typed
<1> QED
  BY <1>1, <1>2, PTL

-----------------------------------------------------------------------------
(***************************************************************************)
(* Letters                                                                 *)
(***************************************************************************)

LEMMA TypedLetters == Typed => LettersAligned
<1> SUFFICES ASSUME Typed, status = "running", NEW i \in Rows,
                    NEW p \in Scores(batch[i])
             PROVE  LetterAt(batch[i], p) = LabelOf(batch[i].letters, Target(batch[i], p))
  BY DEF LettersAligned
<1> DEFINE s == batch[i]
<1>1. s \in Samples /\ ~TooLong(s.prompt, s.response)
  BY DEF Typed
<1>2. /\ s.prompt \in Nat /\ s.prompt > 1 /\ s.response \in Nat \ {0}
      /\ s.letters \in Seq(Int)
  <2>1. s.letters \in Seq(-1..25)
    BY <1>1, SamplesAssumption
  <2>2. \A a, b \in Int : \A l \in Seq(a..b) : l \in Seq(Int)
    OBVIOUS
  <2>3. s.prompt \in Nat /\ s.prompt > 1 /\ s.response \in Nat \ {0}
    BY <1>1, SamplesAssumption
  <2>4. -1 \in Int /\ 25 \in Int
    OBVIOUS
  <2> HIDE DEF s
  <2>5. s.letters \in Seq(Int)
    BY <2>1, <2>2, <2>4
  <2> QED
    BY <2>3, <2>5
<1>3. p \in Scored(s.prompt, s.response)
  BY DEF Scores
<1> HIDE DEF s
<1>4. Lift(s.letters, s.prompt, s.response)[p]
        = LabelOf(s.letters, TokenAt(s.prompt, s.response)[p])
  BY <1>1, <1>2, <1>3, LiftedLabel
<1> QED
  BY <1>4 DEF LetterAt, Target, s

\* The letter of every prediction that is counted is the one recorded for the
\* token it predicts, however long the prompt and the response are and
\* wherever the sequence is cut.
THEOREM LettersAlways == Spec => []LettersAligned
<1>1. Spec => []Typed
  BY TypedInit, TypedStep, PTL DEF Spec
<1> QED
  BY <1>1, TypedLetters, PTL

-----------------------------------------------------------------------------
(***************************************************************************)
(* The ranks step together                                                 *)
(***************************************************************************)

\* A rank at its optimizer has finished all its micro-batches, and one that
\* is past it has left the barrier every other rank had entered.
Together ==
  /\ \A r \in Ranks : pc[r] \in {"optimize", "done"} => micro[r] = config.accum
  /\ \A q, r \in Ranks : pc[q] = "done" => pc[r] \in {"optimize", "done"}

\* Only the ranks at their optimizers have come as far as an optimizer.
LEMMA OptimizerBarrier ==
  ASSUME Typed, NEW r \in Ranks, pc[r] = "optimize", AllHere(r), NEW q \in Ranks
  PROVE  pc[q] \in {"optimize", "done"}
<1>1. config.accum \in Nat /\ micro[q] \in Nat
  BY ConfigsAssumption DEF Typed, TypeOK
<1>2. Progress(r) = 2 * config.accum /\ Progress(q) >= Progress(r)
  BY DEF AllHere, Progress
<1>3. CASE pc[q] \in {"forward", "backward"}
  <2>1. micro[q] < config.accum
    BY <1>3 DEF Typed, TypeOK
  <2>2. Progress(q) = 2 * micro[q] \/ Progress(q) = 2 * micro[q] + 1
    BY <1>3 DEF Progress
  <2> QED
    BY <1>1, <1>2, <2>1, <2>2
<1>4. CASE pc[q] \in {"idle", "count", "check", "raised"}
  <2>1. Progress(q) = -1
    BY <1>4 DEF Progress
  <2> QED
    BY <1>1, <1>2, <2>1
<1> QED
  BY <1>3, <1>4 DEF Typed, TypeOK

LEMMA TogetherStep == Typed /\ Together /\ [Next]_vars => Together'
<1> SUFFICES ASSUME Typed, Together, [Next]_vars PROVE Together'
  OBVIOUS
<1>0. pc \in [Ranks -> {"idle", "count", "check", "forward", "backward",
                        "optimize", "done", "raised"}]
      /\ micro \in [Ranks -> 0..config.accum]
  BY DEF Typed, TypeOK
<1>1. CASE Load
  BY <1>0, <1>1 DEF Load, Together
<1>2. CASE Collect
  BY <1>2 DEF Collect, Together
<1>3. CASE Abort
  BY <1>3 DEF Abort, rankVars, Together
<1>4. ASSUME NEW r \in Ranks, Rank(r)
      PROVE  Together'
  <2>1. CASE CountTokens(r)
    BY <1>0, <2>1 DEF CountTokens, Together
  <2>2. CASE CheckCounts(r)
    BY <1>0, <2>2 DEF CheckCounts, Together
  <2>3. CASE Forward(r)
    BY <1>0, <2>3 DEF Forward, Together
  <2>4. CASE BackwardFails(r)
    BY <1>0, <2>4 DEF BackwardFails, Together
  <2>5. CASE Backward(r)
    <3>1. config.accum \in Nat
      BY ConfigsAssumption DEF Typed, TypeOK
    <3> QED
      BY <1>0, <2>5, <3>1 DEF Backward, Together
  <2>6. CASE OptimizerStep(r)
    <3>1. \A q \in Ranks : pc[q] \in {"optimize", "done"}
      BY <2>6, OptimizerBarrier DEF OptimizerStep
    <3> QED
      BY <1>0, <2>6, <3>1 DEF OptimizerStep, Together
  <2> QED
    BY <1>4, <2>1, <2>2, <2>3, <2>4, <2>5, <2>6 DEF Rank
<1>5. CASE UNCHANGED vars
  BY <1>5 DEF vars, Together
<1> QED
  BY <1>1, <1>2, <1>3, <1>4, <1>5 DEF Next

\* The replicas never part: no rank steps its optimizer while another has
\* micro-batches left or has raised.
THEOREM OptimizersAlwaysTogether == Spec => []OptimizersTogether
<1>1. Init => Together
  BY DEF Init, Together
<1>2. Typed /\ Together => OptimizersTogether
  BY DEF Together, OptimizersTogether
<1> QED
  BY <1>1, <1>2, TypedInit, TypedStep, TogetherStep, PTL DEF Spec

-----------------------------------------------------------------------------
(***************************************************************************)
(* The places of the predictions in the flattened arrays                   *)
(***************************************************************************)
\* One token precedes another: in an earlier row, or earlier in its row.
Earlier(t, u) == \/ t[1] < u[1]
                 \/ t[1] = u[1] /\ t[2] < u[2]
Preceding(u, tokens) == {t \in tokens : Earlier(t, u)}

LEMMA PlacePreceding ==
  ASSUME NEW tokens, NEW u
  PROVE  Place(u, tokens) = Cardinality(Preceding(u, tokens))
  BY DEF Place, Preceding, Earlier

\* A token has a place of its own.
LEMMA PlaceInjective ==
  ASSUME NEW A \in SUBSET (Int \X Int), IsFiniteSet(A), NEW a \in A, NEW b \in A,
         Place(a, A) = Place(b, A)
  PROVE  a = b
<1>1. ASSUME NEW x \in A, NEW y \in A, Earlier(x, y), Place(x, A) = Place(y, A)
      PROVE  FALSE
  <2>1. Preceding(x, A) \in SUBSET Preceding(y, A)
    BY <1>1 DEF Preceding, Earlier
  <2>2. x \in Preceding(y, A) /\ x \notin Preceding(x, A)
    BY <1>1 DEF Preceding, Earlier
  <2>3. Preceding(y, A) \in SUBSET A
    BY DEF Preceding
  <2>4. IsFiniteSet(Preceding(y, A))
    BY <2>3, FS_Subset
  <2>5. Cardinality(Preceding(x, A)) = Cardinality(Preceding(y, A))
    BY <1>1, PlacePreceding
  <2>6. Preceding(y, A) = Preceding(x, A)
    BY <2>1, <2>4, <2>5, FS_Subset
  <2> QED
    BY <2>2, <2>6
<1>2. Earlier(a, b) \/ Earlier(b, a) \/ a = b
  <2>1. a \in Int \X Int /\ b \in Int \X Int
    OBVIOUS
  <2>2. a = <<a[1], a[2]>> /\ b = <<b[1], b[2]>> /\ a[1] \in Int /\ a[2] \in Int /\ b[1] \in Int /\ b[2] \in Int
    BY <2>1
  <2>3. a[1] < b[1] \/ b[1] < a[1] \/ a[1] = b[1]
    BY <2>2
  <2>4. a[2] < b[2] \/ b[2] < a[2] \/ a[2] = b[2]
    BY <2>2
  <2> QED
    BY <2>2, <2>3, <2>4 DEF Earlier
<1> QED
  BY <1>1, <1>2

KeepsOrder(f, A) == \A s, t \in A : Earlier(s, t) <=> Earlier(f[s], f[t])

\* A bijection that keeps the order keeps the places.
LEMMA PlaceMoved ==
  ASSUME NEW A, NEW B, IsFiniteSet(A), NEW f \in Bijection(A, B), KeepsOrder(f, A),
         NEW t \in A
  PROVE  Place(f[t], B) = Place(t, A)
<1> DEFINE P == Preceding(t, A)
           Q == Preceding(f[t], B)
           g == [s \in P |-> f[s]]
<1>1. /\ f \in [A -> B] /\ \A s, u \in A : f[s] = f[u] => s = u
      /\ \A b \in B : \E s \in A : f[s] = b
  BY DEF Bijection, Injection, IsInjective, Surjection
<1>2. P \in SUBSET A
  BY DEF Preceding
<1>3. \A s \in P : f[s] \in Q
  BY <1>1, <1>2 DEF Preceding, KeepsOrder
<1>4. \A b \in Q : \E s \in P : f[s] = b
  BY <1>1, <1>2 DEF Preceding, KeepsOrder
<1>5. g \in [P -> Q]
  BY <1>3
<1>6. \A s, u \in P : g[s] = g[u] => s = u
  BY <1>1, <1>2
<1>7. \A b \in Q : \E s \in P : g[s] = b
  BY <1>4
<1> HIDE DEF P, Q, g
<1>8. g \in Bijection(P, Q)
  BY <1>5, <1>6, <1>7 DEF Bijection, Injection, IsInjective, Surjection
<1>9. IsFiniteSet(P)
  BY <1>2, FS_Subset
<1>10. ExistsBijection(P, Q)
  BY <1>8 DEF ExistsBijection
<1>11. Cardinality(Q) = Cardinality(P)
  BY <1>9, <1>10, FS_Bijection
<1> QED
  BY <1>11, PlacePreceding DEF P, Q


-----------------------------------------------------------------------------
(***************************************************************************)
(* One row, of which two sequences are scored                              *)
(***************************************************************************)
LEMMA ScoredInterval ==
  ASSUME NEW P \in Nat, P > 1, NEW R \in Nat \ {0}
  PROVE  Scored(P, R) = (P - 1)..(SeqLen(P, R) - 2)
<1>1. SeqLen(P, R) \in Nat /\ SeqLen(P, R) <= P + R /\ 0 < SeqLen(P, R)
  BY SeqLenType
<1> DEFINE len == SeqLen(P, R)
<1> HIDE DEF len
<1>2. Scored(P, R) = {p \in 0..(len - 1) : p >= Lesser(P, len) - 1 /\ p /= len - 1 /\ p # 0}
  BY <1>1 DEF Scored, LossMask, Lesser, len
<1>3. \A p : p \in Scored(P, R) <=> p \in (P - 1)..(len - 2)
  BY <1>1, <1>2 DEF Lesser, len
<1> QED
  BY <1>3 DEF len

\* The place of a prediction in the loss of a row, moved from the one
\* sequence to the other.
LEMMA MovedScored ==
  ASSUME NEW P \in Nat, P > 1, NEW Q \in Nat, Q > 1, Q <= P, NEW R \in Nat \ {0},
         NEW p \in Scored(P, R)
  PROVE  p - P + Q \in Scored(Q, R)
<1>1. Scored(P, R) = (P - 1)..(SeqLen(P, R) - 2) /\ Scored(Q, R) = (Q - 1)..(SeqLen(Q, R) - 2)
  BY ScoredInterval
<1>2. SeqLen(P, R) - P <= SeqLen(Q, R) - Q
  BY LengthAssumption DEF SeqLen, Lesser
<1>3. SeqLen(P, R) \in Nat /\ SeqLen(Q, R) \in Nat
  BY SeqLenType
<1> QED
  BY <1>1, <1>2, <1>3

\* No prediction of the reference is left over.
AllMoved(P, Q, R) == \A u \in Scored(Q, R) : u - Q + P \in Scored(P, R)

LEMMA MovedToken ==
  ASSUME NEW P \in Nat, P > 1, NEW Q \in Nat, Q > 1, Q <= P, NEW R \in Nat \ {0},
         NEW p \in Scored(P, R), AllMoved(P, Q, R)
  PROVE  TokenAt(P, R)[p] = TokenAt(Q, R)[p - P + Q]
<1>1. Scored(P, R) = (P - 1)..(SeqLen(P, R) - 2) /\ Scored(Q, R) = (Q - 1)..(SeqLen(Q, R) - 2)
  BY ScoredInterval
<1>2. SeqLen(P, R) \in Nat /\ SeqLen(Q, R) \in Nat
  BY SeqLenType
<1>3. p - P + Q \in Scored(Q, R)
  BY MovedScored
<1>4. SeqLen(Q, R) - 2 \in Scored(Q, R)
  BY <1>1, <1>2, <1>3
<1>5. SeqLen(Q, R) - 2 - Q + P \in Scored(P, R)
  BY <1>4 DEF AllMoved
<1>6. SeqLen(P, R) - P = SeqLen(Q, R) - Q
  <2>1. SeqLen(P, R) - P <= SeqLen(Q, R) - Q
    BY LengthAssumption DEF SeqLen, Lesser
  <2> QED
    BY <1>1, <1>2, <1>5, <2>1
<1>7. Dropped(P, R) = Dropped(Q, R)
  BY <1>2, <1>6 DEF Dropped
<1>8. p \in 0..(SeqLen(P, R) - 1) /\ p - P + Q \in 0..(SeqLen(Q, R) - 1)
  BY <1>1, <1>2, <1>3
<1>9. Dropped(P, R) \in Int
  BY <1>2 DEF Dropped
<1> QED
  BY <1>7, <1>8, <1>9, <1>3 DEF TokenAt

-----------------------------------------------------------------------------
(***************************************************************************)
(* Rows, and the pairs of their predictions                                *)
(***************************************************************************)
\* The reference reads no more than the actor: its prompt is the clean one,
\* or the same (dataset.py:10-13, build_one_task_train.py:55-59).
CleanReferences == \A s \in Samples : s.promptRef <= s.prompt

\* A prediction of the actor, as the reference makes it.
Moved(t) == <<t[1], t[2] - batch[t[1]].prompt + batch[t[1]].promptRef>>

\* The rows whose two sequences are scored alike.
RowMatched(i) == AllMoved(batch[i].prompt, batch[i].promptRef, batch[i].response)

LEMMA RowType ==
  ASSUME batch \in [Rows -> Samples], NEW i \in Rows
  PROVE  /\ batch[i].prompt \in Nat /\ batch[i].prompt > 1
         /\ batch[i].promptRef \in Nat /\ batch[i].promptRef > 1
         /\ batch[i].response \in Nat \ {0}
  BY SamplesAssumption

LEMMA TokenParts ==
  ASSUME batch \in [Rows -> Samples], NEW rows \in SUBSET Rows
  PROVE  /\ \A t \in ActorTokens(rows) :
              t[1] \in rows /\ t[2] \in Int /\ t[2] \in Scores(batch[t[1]]) /\ t = <<t[1], t[2]>>
         /\ \A t \in RefTokens(rows) :
              t[1] \in rows /\ t[2] \in Int /\ t[2] \in RefScores(batch[t[1]]) /\ t = <<t[1], t[2]>>
         /\ \A i \in rows : \A p \in Scores(batch[i]) : <<i, p>> \in ActorTokens(rows)
         /\ \A i \in rows : \A p \in RefScores(batch[i]) : <<i, p>> \in RefTokens(rows)
<1>1. \A i \in Rows : Scores(batch[i]) \subseteq Int /\ RefScores(batch[i]) \subseteq Int
  <2> SUFFICES ASSUME NEW i \in Rows
               PROVE  Scores(batch[i]) \subseteq Int /\ RefScores(batch[i]) \subseteq Int
    OBVIOUS
  <2>1. \A a \in Int : 0..a \subseteq Int
    OBVIOUS
  <2> QED
    BY <2>1, RowType, ScoresRange, LengthAssumption DEF Scores, RefScores
<1> QED
  BY <1>1 DEF ActorTokens, RefTokens

LEMMA MovedInReference ==
  ASSUME batch \in [Rows -> Samples], CleanReferences, NEW rows \in SUBSET Rows,
         NEW t \in ActorTokens(rows)
  PROVE  Moved(t) \in RefTokens(rows)
<1>1. t[1] \in rows /\ t[2] \in Scores(batch[t[1]])
  BY TokenParts
<1>2. batch[t[1]].promptRef <= batch[t[1]].prompt
  BY <1>1 DEF CleanReferences
<1>3. t[2] - batch[t[1]].prompt + batch[t[1]].promptRef \in RefScores(batch[t[1]])
  BY <1>1, <1>2, RowType, MovedScored DEF Scores, RefScores
<1> QED
  BY <1>1, <1>3, TokenParts DEF Moved

LEMMA MovedInjective ==
  ASSUME batch \in [Rows -> Samples], NEW rows \in SUBSET Rows,
         NEW s \in ActorTokens(rows), NEW t \in ActorTokens(rows)
  PROVE  /\ Moved(s) = Moved(t) => s = t
         /\ Earlier(s, t) <=> Earlier(Moved(s), Moved(t))
<1>1. /\ s[1] \in rows /\ s[2] \in Int /\ s = <<s[1], s[2]>>
      /\ t[1] \in rows /\ t[2] \in Int /\ t = <<t[1], t[2]>>
  BY TokenParts
<1>2. /\ batch[s[1]].prompt \in Int /\ batch[s[1]].promptRef \in Int
      /\ batch[t[1]].prompt \in Int /\ batch[t[1]].promptRef \in Int
  BY <1>1, RowType
<1>3. /\ Moved(s)[1] = s[1] /\ Moved(t)[1] = t[1]
      /\ Moved(s)[2] = s[2] - batch[s[1]].prompt + batch[s[1]].promptRef
      /\ Moved(t)[2] = t[2] - batch[t[1]].prompt + batch[t[1]].promptRef
  BY DEF Moved
<1>4. s[1] = t[1] => (s[2] < t[2] <=> Moved(s)[2] < Moved(t)[2])
  BY <1>1, <1>2, <1>3
<1>5. s[1] = t[1] => (Moved(s)[2] = Moved(t)[2] => s[2] = t[2])
  BY <1>1, <1>2, <1>3
<1>6. Moved(s) = Moved(t) => s = t
  BY <1>1, <1>3, <1>5
<1>7. Earlier(s, t) <=> Earlier(Moved(s), Moved(t))
  BY <1>3, <1>4 DEF Earlier
<1> QED
  BY <1>6, <1>7

LEMMA TokensFinite ==
  ASSUME batch \in [Rows -> Samples], NEW rows \in SUBSET Rows
  PROVE  IsFiniteSet(ActorTokens(rows)) /\ IsFiniteSet(RefTokens(rows))
<1> DEFINE all == Rows \X (0..(MaxLength - 1))
<1>1. \A i \in Rows : Scores(batch[i]) \subseteq 0..(MaxLength - 1)
                      /\ RefScores(batch[i]) \subseteq 0..(MaxLength - 1)
  BY ScoresRange, RowType DEF Scores, RefScores
<1>2. ActorTokens(rows) \in SUBSET all /\ RefTokens(rows) \in SUBSET all
  BY <1>1 DEF ActorTokens, RefTokens
<1>3. IsFiniteSet(Rows) /\ IsFiniteSet(0..(MaxLength - 1))
  BY FS_Interval, SizeAssumption, LengthAssumption DEF Rows
<1>4. IsFiniteSet(all)
  BY <1>3, FS_Product
<1> HIDE DEF all
<1> QED
  BY <1>2, <1>4, FS_Subset

\* If a set of rows has as many predictions of the one model as of the
\* other, each of its rows has.
LEMMA CountsMatchRows ==
  ASSUME batch \in [Rows -> Samples], CleanReferences, NEW rows \in SUBSET Rows,
         Cardinality(ActorTokens(rows)) = Cardinality(RefTokens(rows)),
         NEW i \in rows
  PROVE  RowMatched(i)
<1> DEFINE A == ActorTokens(rows)
           B == RefTokens(rows)
           f == [t \in A |-> Moved(t)]
<1>1. f \in [A -> B]
  BY MovedInReference
<1>2. \A s, t \in A : f[s] = f[t] => s = t
  BY MovedInjective
<1>3. f \in Injection(A, B)
  BY <1>1, <1>2 DEF Injection, IsInjective
<1>4. Cardinality(A) = Cardinality(B) /\ IsFiniteSet(B)
  BY TokensFinite
<1>5. f \in Surjection(A, B)
  <2> HIDE DEF A, B, f
  <2> QED
    BY <1>3, <1>4, FS_Injection
<1>6. \A b \in B : \E t \in A : Moved(t) = b
  BY <1>5 DEF Surjection
<1> HIDE DEF f
<1>7. ASSUME NEW u \in RefScores(batch[i])
      PROVE  u - batch[i].promptRef + batch[i].prompt \in Scores(batch[i])
  <2>1. <<i, u>> \in B /\ u \in Int
    BY TokenParts
  <2>2. PICK t \in A : Moved(t) = <<i, u>>
    BY <1>6, <2>1
  <2>3. t[1] = i /\ u = t[2] - batch[t[1]].prompt + batch[t[1]].promptRef
    BY <2>2 DEF Moved
  <2>4. t[2] \in Int /\ t[2] \in Scores(batch[t[1]])
    BY TokenParts
  <2>5. batch[i].prompt \in Int /\ batch[i].promptRef \in Int
    BY RowType
  <2>6. u - batch[i].promptRef + batch[i].prompt = t[2]
    BY <2>3, <2>4, <2>5
  <2> QED
    BY <2>3, <2>4, <2>6
<1> QED
  BY <1>7 DEF RowMatched, AllMoved, Scores, RefScores

\* Rows that match are paired token by token.
LEMMA MatchedRowsPaired ==
  ASSUME batch \in [Rows -> Samples], CleanReferences, NEW rows \in SUBSET Rows,
         \A i \in rows : RowMatched(i)
  PROVE  /\ Cardinality(ActorTokens(rows)) = Cardinality(RefTokens(rows))
         /\ \A t \in ActorTokens(rows), u \in RefTokens(rows) :
              Place(t, ActorTokens(rows)) = Place(u, RefTokens(rows)) =>
                /\ t[1] = u[1]
                /\ Target(batch[t[1]], t[2]) = RefTarget(batch[u[1]], u[2])
<1> DEFINE A == ActorTokens(rows)
           B == RefTokens(rows)
           f == [t \in A |-> Moved(t)]
<1>1. f \in [A -> B]
  BY MovedInReference
<1>2. \A s, t \in A : f[s] = f[t] => s = t
  BY MovedInjective
<1>3. ASSUME NEW b \in B PROVE \E t \in A : f[t] = b
  <2>1. b[1] \in rows /\ b[2] \in Int /\ b[2] \in RefScores(batch[b[1]]) /\ b = <<b[1], b[2]>>
    BY TokenParts
  <2>2. PICK p : p = b[2] - batch[b[1]].promptRef + batch[b[1]].prompt
    OBVIOUS
  <2>3. p \in Scores(batch[b[1]])
    BY <2>1, <2>2 DEF RowMatched, AllMoved, Scores, RefScores
  <2>4. <<b[1], p>> \in A
    BY <2>1, <2>3, TokenParts
  <2>5. p - batch[b[1]].prompt + batch[b[1]].promptRef = b[2]
    BY <2>1, <2>2, RowType
  <2>6. Moved(<<b[1], p>>) = b
    BY <2>1, <2>5 DEF Moved
  <2> QED
    BY <2>4, <2>6
<1>4. f \in Bijection(A, B)
  <2> HIDE DEF f, A, B
  <2> QED
    BY <1>1, <1>2, <1>3 DEF Bijection, Injection, IsInjective, Surjection
<1>5. KeepsOrder(f, A)
  BY MovedInjective DEF KeepsOrder
<1>6. IsFiniteSet(A) /\ IsFiniteSet(B)
  BY TokensFinite
<1>7. Cardinality(A) = Cardinality(B)
  BY <1>4, <1>6, FS_Bijection DEF ExistsBijection
<1>8. ASSUME NEW t \in A, NEW u \in B, Place(t, A) = Place(u, B)
      PROVE  t[1] = u[1] /\ Target(batch[t[1]], t[2]) = RefTarget(batch[u[1]], u[2])
  <2>1. PICK s \in A : f[s] = u
    BY <1>3
  <2>2. Place(u, B) = Place(s, A)
    <3> HIDE DEF f, A, B
    <3> QED
      BY <1>4, <1>5, <1>6, <2>1, PlaceMoved
  <2>3. A \in SUBSET (Int \X Int)
    <3>1. rows \subseteq Int
      BY DEF Rows
    <3> QED
      BY <3>1, TokenParts
  <2>4. s = t
    <3> HIDE DEF f, A, B
    <3> QED
      BY <1>6, <1>8, <2>2, <2>3, PlaceInjective
  <2>5. u = Moved(t)
    BY <2>1, <2>4
  <2>6. t[1] \in rows /\ t[2] \in Scores(batch[t[1]])
    BY TokenParts
  <2>7. u[1] = t[1] /\ u[2] = t[2] - batch[t[1]].prompt + batch[t[1]].promptRef
    BY <2>5 DEF Moved
  <2> QED
    BY <2>6, <2>7, MovedToken, RowType DEF CleanReferences, RowMatched, Scores, Target, RefTarget
<1> HIDE DEF f
<1> QED
  BY <1>7, <1>8

-----------------------------------------------------------------------------
(***************************************************************************)
(* Every rank compares the distributions of the same predictions           *)
(***************************************************************************)
LEMMA MicroSizes ==
  ASSUME config \in Configs
  PROVE  /\ ShardSize \in Nat /\ MicroSize \in Nat /\ config.accum \in Nat \ {0}
         /\ EqualParts(ShardSize, config.accum, MicroSize)
         /\ EqualParts(BatchSize, DpSize, ShardSize)
<1>1. config.accum \in Nat \ {0} /\ ShardSize % config.accum = 0
  BY ConfigsAssumption
<1>2. ShardSize \in Nat /\ EqualParts(BatchSize, DpSize, ShardSize)
  BY SizeAssumption, ExactDivision DEF ShardSize
<1> QED
  BY <1>1, <1>2, ExactDivision DEF MicroSize

\* The rows before the m-th micro-batch of a rank.
LEMMA MicroBatchRange ==
  ASSUME config \in Configs, NEW r \in Ranks, NEW m \in 0..(config.accum - 1)
  PROVE  /\ Skipped(r, ShardSize) \in Nat /\ Skipped(m + 1, MicroSize) \in Nat
         /\ Skipped(m + 1, MicroSize) + MicroSize <= ShardSize
         /\ MicroBatch(r, m) = (Skipped(r, ShardSize) + Skipped(m + 1, MicroSize) + 1)
                               ..(Skipped(r, ShardSize) + Skipped(m + 1, MicroSize) + MicroSize)
         /\ Shard(r) = (Skipped(r, ShardSize) + 1)..(Skipped(r, ShardSize) + ShardSize)
<1>1. m + 1 \in 1..config.accum
  BY MicroSizes
<1>2. Skipped(m + 1, MicroSize) \in Nat /\ Skipped(m + 1, MicroSize) + MicroSize <= ShardSize
  BY <1>1, MicroSizes, PartWithin
<1>3. Skipped(r, ShardSize) \in Nat /\ r * ShardSize = Skipped(r, ShardSize) + ShardSize
  BY MicroSizes, PartWithin, SizeAssumption DEF Ranks
<1>4. Skipped(m + 1, MicroSize) = m * MicroSize
  <2>1. (m + 1) - 1 = m
    BY MicroSizes
  <2> QED
    BY <2>1 DEF Skipped
<1>5. MicroBatch(r, m) = (Skipped(r, ShardSize) + Skipped(m + 1, MicroSize) + 1)
                         ..(Skipped(r, ShardSize) + Skipped(m + 1, MicroSize) + MicroSize)
  BY <1>4 DEF MicroBatch, Skipped
<1>6. Shard(r) = (Skipped(r, ShardSize) + 1)..(Skipped(r, ShardSize) + ShardSize)
  BY <1>3 DEF Shard, Skipped
<1> QED
  BY <1>2, <1>3, <1>5, <1>6

LEMMA MicroBatchInShard ==
  ASSUME config \in Configs, NEW r \in Ranks, NEW m \in 0..(config.accum - 1)
  PROVE  MicroBatch(r, m) \in SUBSET Shard(r) /\ Shard(r) \in SUBSET Rows
<1>1. Shard(r) \in SUBSET Rows
  BY ShardRows
<1>2. PICK a, b \in Nat : a = Skipped(r, ShardSize) /\ b = Skipped(m + 1, MicroSize)
  BY MicroBatchRange
<1>3. b + MicroSize <= ShardSize /\ MicroBatch(r, m) = (a + b + 1)..(a + b + MicroSize)
      /\ Shard(r) = (a + 1)..(a + ShardSize)
  BY <1>2, MicroBatchRange
<1>4. MicroSize \in Nat /\ ShardSize \in Nat
  BY MicroSizes
<1>5. \A i \in (a + b + 1)..(a + b + MicroSize) : i \in (a + 1)..(a + ShardSize)
  <2>1. PICK w \in Nat, z \in Nat : w = MicroSize /\ z = ShardSize /\ b + w <= z
    BY <1>3, <1>4
  <2>2. \A i \in (a + b + 1)..(a + b + w) : i \in (a + 1)..(a + z)
    BY <2>1
  <2> QED
    BY <2>1, <2>2
<1> QED
  BY <1>1, <1>3, <1>5

\* A rank that is past the comparison of the two models found as many
\* predictions of one as of the other in its shard.
ShardCounted(r) ==
  /\ batch \in [Rows -> Samples]
  /\ Cardinality(ActorTokens(Shard(r))) = Cardinality(RefTokens(Shard(r)))
Working == {"forward", "backward", "optimize", "done"}
Compared ==
  /\ \A r \in Ranks : pc[r] \in Working => ShardCounted(r)
  /\ status = "idle" => \A r \in Ranks : pc[r] = "idle"

LEMMA ComparedInit == Init => Compared
  BY DEF Init, Compared, Working

LEMMA ComparedStep == Typed /\ Compared /\ [Next]_vars => Compared'
<1> SUFFICES ASSUME Typed, Compared, [Next]_vars PROVE Compared'
  OBVIOUS
<1>0. pc \in [Ranks -> {"idle", "count", "check", "forward", "backward",
                        "optimize", "done", "raised"}]
  BY DEF Typed, TypeOK
<1>1. ASSUME UNCHANGED batch, NEW r \in Ranks, ShardCounted(r)
      PROVE  ShardCounted(r)'
  BY <1>1 DEF ShardCounted, ActorTokens, RefTokens
<1>2. CASE Load
  <2>1. \A r \in Ranks : pc[r] \notin Working /\ pc'[r] \notin Working
    BY <1>0, <1>2 DEF Load, Working, Compared
  <2>2. status' /= "idle"
    BY <1>2 DEF Load
  <2> QED
    BY <2>1, <2>2 DEF Compared
<1>3. CASE Collect
  <2>1. \A r \in Ranks : pc'[r] = "idle"
    BY <1>3 DEF Collect
  <2> QED
    BY <2>1 DEF Compared, Working
<1>4. CASE Abort
  BY <1>4, <1>1 DEF Abort, rankVars, Compared
<1>5. ASSUME NEW r \in Ranks, Rank(r)
      PROVE  Compared'
  <2>0. UNCHANGED batch
    BY <1>5 DEF Rank, CountTokens, CheckCounts, Forward, BackwardFails, Backward, OptimizerStep
  <2>1. \A q \in Ranks : pc'[q] \in Working => pc[q] \in Working \/ ShardCounted(q)
    <3>1. CASE CountTokens(r)
      BY <1>0, <3>1 DEF CountTokens, Working
    <3>2. CASE CheckCounts(r)
      <4>1. status = "running" /\ batch \in [Rows -> Samples]
        BY <1>5 DEF Rank, Typed
      <4> QED
        BY <1>0, <3>2, <4>1 DEF CheckCounts, ShardCounted, Working
    <3>3. CASE Forward(r)
      BY <1>0, <3>3 DEF Forward, Working
    <3>4. CASE BackwardFails(r)
      BY <1>0, <3>4 DEF BackwardFails, Working
    <3>5. CASE Backward(r)
      BY <1>0, <3>5 DEF Backward, Working
    <3>6. CASE OptimizerStep(r)
      BY <1>0, <3>6 DEF OptimizerStep, Working
    <3> QED
      BY <1>5, <3>1, <3>2, <3>3, <3>4, <3>5, <3>6 DEF Rank
  <2>2. status = "running" /\ status' = "running"
    BY <1>5 DEF Rank, CountTokens, CheckCounts, Forward, BackwardFails, Backward, OptimizerStep
  <2> QED
    BY <1>1, <2>0, <2>1, <2>2 DEF Compared
<1>6. CASE UNCHANGED vars
  BY <1>1, <1>6 DEF vars, Compared
<1> QED
  BY <1>2, <1>3, <1>4, <1>5, <1>6 DEF Next

LEMMA ComparedPaired ==
  ASSUME Typed, Compared, CleanReferences
  PROVE  SamePrediction
<1> SUFFICES ASSUME NEW r \in Ranks, pc[r] = "forward"
             PROVE  LET actor == ActorTokens(MicroBatch(r, micro[r]))
                        ref == RefTokens(MicroBatch(r, micro[r]))
                    IN /\ Cardinality(actor) = Cardinality(ref)
                       /\ \A t \in actor, u \in ref :
                            Place(t, actor) = Place(u, ref) =>
                              /\ t[1] = u[1]
                              /\ Target(batch[t[1]], t[2]) = RefTarget(batch[u[1]], u[2])
  BY DEF SamePrediction
<1>1. batch \in [Rows -> Samples]
      /\ Cardinality(ActorTokens(Shard(r))) = Cardinality(RefTokens(Shard(r)))
  BY DEF Compared, ShardCounted, Working
<1>2. PICK m \in 0..(config.accum - 1) : m = micro[r]
  <2>1. config \in Configs /\ micro[r] \in 0..config.accum /\ micro[r] < config.accum
    BY DEF Typed, TypeOK
  <2>2. config.accum \in Nat
    BY <2>1, ConfigsAssumption
  <2>3. micro[r] \in 0..(config.accum - 1)
    BY <2>1, <2>2
  <2> QED
    BY <2>3
<1>3. MicroBatch(r, m) \in SUBSET Shard(r) /\ Shard(r) \in SUBSET Rows
  BY MicroBatchInShard DEF Typed, TypeOK
<1>4. \A i \in MicroBatch(r, m) : RowMatched(i)
  BY <1>1, <1>3, CountsMatchRows
<1>5. MicroBatch(r, m) \in SUBSET Rows
  BY <1>3
<1> QED
  BY <1>1, <1>2, <1>4, <1>5, MatchedRowsPaired

\* Where no reference prompt is longer than the prompt of its row, the check
\* of the totals is enough: the loss compares distributions of one and the
\* same token of one and the same row.
THEOREM PredictionsAlwaysPaired ==
  ASSUME CleanReferences
  PROVE  Spec => []SamePrediction
<1>1. Init => Compared
  BY ComparedInit
<1>2. Typed /\ Compared => SamePrediction
  BY ComparedPaired
<1> QED
  BY <1>1, <1>2, TypedInit, TypedStep, ComparedStep, PTL DEF Spec

-----------------------------------------------------------------------------
(***************************************************************************)
(* Sums of sizes                                                           *)
(***************************************************************************)
\* The function by which numbers are added up.
Picked(s) == CHOOSE x \in s : TRUE
SumStep(numbers, sums, s) ==
  IF s = {} THEN 0 ELSE numbers[Picked(s)] + sums[s \ {Picked(s)}]
Sums(numbers, sums) ==
  sums = [s \in SUBSET DOMAIN numbers |-> SumStep(numbers, sums, s)]
SumsOf(numbers) == CHOOSE sums : Sums(numbers, sums)

LEMMA SumOfIs ==
  ASSUME NEW numbers
  PROVE  SumOf(numbers) = SumsOf(numbers)[DOMAIN numbers]
  BY DEF SumOf, MapThenSumSet, MapThenFoldSet, SumsOf, Sums, SumStep, Picked

\* What the sets of some indices hold, and sets of which no two share an
\* element.
AllOf(sets, s) == UNION {sets[d] : d \in s}
Disjoint(sets) == \A c, d \in DOMAIN sets : sets[c] \cap sets[d] # {} => c = d
Sizes(sets) == [d \in DOMAIN sets |-> Cardinality(sets[d])]
AllFinite(sets) == \A d \in DOMAIN sets : IsFiniteSet(sets[d])

LEMMA AllOfFinite ==
  ASSUME NEW sets, IsFiniteSet(DOMAIN sets), AllFinite(sets), NEW s \in SUBSET DOMAIN sets
  PROVE  IsFiniteSet(s) /\ IsFiniteSet(AllOf(sets, s))
<1> DEFINE f == [d \in s |-> sets[d]]
           family == {sets[d] : d \in s}
<1>1. IsFiniteSet(s)
  BY FS_Subset
<1>2. f \in Surjection(s, family)
  BY DEF Surjection
<1>3. IsFiniteSet(family)
  <2> HIDE DEF f, family
  <2> QED
    BY <1>1, <1>2, FS_Surjection
<1>4. \A T \in family : IsFiniteSet(T)
  BY DEF AllFinite
<1> HIDE DEF family
<1>5. IsFiniteSet(UNION family)
  BY <1>3, <1>4, FS_UNION
<1> QED
  BY <1>1, <1>5 DEF AllOf, family

\* One set more adds its size.
LEMMA OneSetMore ==
  ASSUME NEW sets, IsFiniteSet(DOMAIN sets), AllFinite(sets), Disjoint(sets),
         NEW s \in SUBSET DOMAIN sets, NEW d \in s
  PROVE  Cardinality(AllOf(sets, s))
           = Cardinality(sets[d]) + Cardinality(AllOf(sets, s \ {d}))
<1> DEFINE rest == AllOf(sets, s \ {d})
<1>1. AllOf(sets, s) = sets[d] \cup rest
  BY DEF AllOf
<1>2. sets[d] \cap rest = {}
  BY DEF AllOf, Disjoint
<1>3. IsFiniteSet(sets[d]) /\ IsFiniteSet(rest)
  BY AllOfFinite DEF AllFinite
<1> HIDE DEF rest
<1>4. Cardinality(sets[d] \cup rest)
        = Cardinality(sets[d]) + Cardinality(rest) - Cardinality({})
  BY <1>2, <1>3, FS_Union
<1>5. Cardinality(sets[d]) \in Nat /\ Cardinality(rest) \in Nat /\ Cardinality({}) = 0
  BY <1>3, FS_CardinalityType, FS_EmptySet
<1> QED
  BY <1>1, <1>4, <1>5 DEF rest

SizesOfAll(sets) == [s \in SUBSET DOMAIN sets |-> Cardinality(AllOf(sets, s))]

LEMMA SizesOfAllSums ==
  ASSUME NEW sets, IsFiniteSet(DOMAIN sets), AllFinite(sets), Disjoint(sets)
  PROVE  Sums(Sizes(sets), SizesOfAll(sets))
<1>1. DOMAIN Sizes(sets) = DOMAIN sets
  BY DEF Sizes
<1>2. ASSUME NEW s \in SUBSET DOMAIN sets
      PROVE  Cardinality(AllOf(sets, s)) = SumStep(Sizes(sets), SizesOfAll(sets), s)
  <2>1. CASE s = {}
    <3>1. AllOf(sets, s) = {}
      BY <2>1 DEF AllOf
    <3> QED
      BY <2>1, <3>1, FS_EmptySet DEF SumStep
  <2>2. CASE s # {}
    <3>1. Picked(s) \in s /\ s \ {Picked(s)} \in SUBSET DOMAIN sets
      BY <2>2 DEF Picked
    <3>2. Sizes(sets)[Picked(s)] = Cardinality(sets[Picked(s)])
      BY <3>1 DEF Sizes
    <3>3. SizesOfAll(sets)[s \ {Picked(s)}] = Cardinality(AllOf(sets, s \ {Picked(s)}))
      BY <3>1 DEF SizesOfAll
    <3> QED
      BY <2>2, <3>1, <3>2, <3>3, OneSetMore DEF SumStep
  <2> QED
    BY <2>1, <2>2
<1> QED
  BY <1>1, <1>2, Zenon DEF Sums, SizesOfAll

\* Sizes added up in whatever order are the size of the union, where no two
\* of the sets have an element in common.
LEMMA SumOfSizes ==
  ASSUME NEW sets, IsFiniteSet(DOMAIN sets), AllFinite(sets), Disjoint(sets)
  PROVE  SumOf(Sizes(sets)) = Cardinality(UNION {sets[d] : d \in DOMAIN sets})
<1> DEFINE D == DOMAIN sets
           sums == SumsOf(Sizes(sets))
           Agree(s) == sums[s] = SizesOfAll(sets)[s]
           T == {n \in Nat : \A s \in SUBSET D : Cardinality(s) = n => Agree(s)}
<1>1. DOMAIN Sizes(sets) = D
  BY DEF Sizes
<1>2. Sums(Sizes(sets), sums)
  BY SizesOfAllSums DEF SumsOf
<1>3. \A s \in SUBSET D : sums[s] = SumStep(Sizes(sets), sums, s)
  <2>1. sums = [s \in SUBSET D |-> SumStep(Sizes(sets), sums, s)]
    BY <1>1, <1>2 DEF Sums
  <2> HIDE DEF sums, D
  <2> QED
    BY <2>1, Zenon
<1>4. \A s \in SUBSET D : SizesOfAll(sets)[s] = SumStep(Sizes(sets), SizesOfAll(sets), s)
  <2>1. SizesOfAll(sets) = [s \in SUBSET D |-> SumStep(Sizes(sets), SizesOfAll(sets), s)]
    BY <1>1, SizesOfAllSums DEF Sums
  <2> HIDE DEF D
  <2> QED
    BY <2>1, Zenon
<1>5. \A s \in SUBSET D : IsFiniteSet(s)
  BY FS_Subset
<1> HIDE DEF D, sums
<1>6. 0 \in T
  <2>1. ASSUME NEW s \in SUBSET D, Cardinality(s) = 0 PROVE Agree(s)
    <3>1. s = {}
      BY <1>5, <2>1, FS_EmptySet
    <3>2. sums[s] = SumStep(Sizes(sets), sums, s)
          /\ SizesOfAll(sets)[s] = SumStep(Sizes(sets), SizesOfAll(sets), s)
      BY <1>3, <1>4
    <3> QED
      BY <3>1, <3>2 DEF SumStep
  <2> QED
    BY <2>1
<1>7. ASSUME NEW n \in Nat, n \in T PROVE n + 1 \in T
  <2>1. ASSUME NEW s \in SUBSET D, Cardinality(s) = n + 1 PROVE Agree(s)
    <3>1. s # {}
      BY <2>1, FS_EmptySet
    <3>2. Picked(s) \in s
      BY <3>1 DEF Picked
    <3>3. Cardinality(s \ {Picked(s)}) = Cardinality(s) - 1
      BY <1>5, <3>2, FS_RemoveElement
    <3>6. Cardinality(s \ {Picked(s)}) = n
      BY <2>1, <3>3
    <3>4. Agree(s \ {Picked(s)})
      BY <1>7, <3>6
    <3>5. sums[s] = SumStep(Sizes(sets), sums, s)
          /\ SizesOfAll(sets)[s] = SumStep(Sizes(sets), SizesOfAll(sets), s)
      BY <1>3, <1>4
    <3> QED
      BY <3>4, <3>5 DEF SumStep
  <2> HIDE DEF Agree
  <2> QED
    BY <2>1
<1>8. Cardinality(D) \in T
  <2>1. Cardinality(D) \in Nat
    BY FS_CardinalityType DEF D
  <2> HIDE DEF T
  <2> QED
    BY <1>6, <1>7, <2>1, Induction
<1>9. Agree(D)
  BY <1>8
<1>10. SumOf(Sizes(sets)) = sums[D]
  BY <1>1, SumOfIs DEF sums
<1>11. SizesOfAll(sets)[D] = Cardinality(UNION {sets[d] : d \in D})
  BY DEF SizesOfAll, AllOf, D
<1> QED
  BY <1>9, <1>10, <1>11 DEF D

-----------------------------------------------------------------------------
(***************************************************************************)
(* What the ranks have counted and fed                                     *)
(***************************************************************************)
\* What a rank has fed, in order: the contributions of the micro-batches it
\* has finished.
FedOf(r) == \A m \in 1..Len(fed[r]) : fed[r][m] = Contributions(MicroBatch(r, m - 1))
\* A rank that has counted holds the counts of its shard.
Counting == Working \cup {"check"}
CountedOf(r) == batch \in [Rows -> Samples] /\ counts[r] = LocalCounts(Shard(r))
Accounted ==
  /\ \A r \in Ranks : FedOf(r)
  /\ \A r \in Ranks : pc[r] \in Counting => CountedOf(r)

LEMMA AccountedStep == Typed /\ Compared /\ Accounted /\ [Next]_vars => Accounted'
<1> SUFFICES ASSUME Typed, Compared, Accounted, [Next]_vars PROVE Accounted'
  OBVIOUS
<1>0. /\ pc \in [Ranks -> {"idle", "count", "check", "forward", "backward",
                           "optimize", "done", "raised"}]
      /\ \E S : fed \in [Ranks -> Seq(S)]
      /\ \A r \in Ranks : Len(fed[r]) = micro[r]
      /\ \E S : counts \in [Ranks -> S]
  BY DEF Typed, TypeOK
<1>1. ASSUME UNCHANGED <<config, batch>>, NEW r \in Ranks, FedOf(r), UNCHANGED (fed[r])
      PROVE  FedOf(r)'
  BY <1>1 DEF FedOf, Contributions, MicroBatch, MicroSize, ActorTokens
<1>2. ASSUME UNCHANGED <<config, batch>>, NEW r \in Ranks, CountedOf(r), UNCHANGED (counts[r])
      PROVE  CountedOf(r)'
  BY <1>2 DEF CountedOf, LocalCounts, ActorTokens
<1>3. CASE Load
  <2>1. \A r \in Ranks : pc'[r] \notin Counting
    BY <1>0, <1>3 DEF Load, Working, Counting, Compared
  <2>2. \A r \in Ranks : fed'[r] = << >>
    BY <1>3 DEF Load, Typed
  <2>3. \A r \in Ranks : FedOf(r)'
    BY <2>2 DEF FedOf
  <2> QED
    BY <2>1, <2>3 DEF Accounted
<1>4. CASE Collect
  <2>1. \A r \in Ranks : pc'[r] = "idle" /\ fed'[r] = << >>
    BY <1>4 DEF Collect
  <2>3. \A r \in Ranks : FedOf(r)'
    BY <2>1 DEF FedOf
  <2>4. "idle" \notin Counting
    BY DEF Counting, Working
  <2> QED
    BY <2>1, <2>3, <2>4 DEF Accounted
<1>5. CASE Abort
  <2>1. UNCHANGED <<config, batch, pc, fed, counts>>
    BY <1>5 DEF Abort, rankVars
  <2> QED
    BY <2>1, <1>1, <1>2 DEF Accounted
<1>6. ASSUME NEW r \in Ranks, Rank(r)
      PROVE  Accounted'
  <2>0. UNCHANGED <<config, batch>> /\ status = "running" /\ batch \in [Rows -> Samples]
    BY <1>6 DEF Rank, CountTokens, CheckCounts, Forward, BackwardFails, Backward,
                OptimizerStep, Typed
  <2>1. CASE CountTokens(r)
    <3>1. UNCHANGED fed /\ counts' = [counts EXCEPT ![r] = LocalCounts(Shard(r))]
          /\ pc' = [pc EXCEPT ![r] = "check"]
      BY <2>1 DEF CountTokens
    <3>2. \A q \in Ranks : FedOf(q)'
      BY <1>1, <2>0, <3>1 DEF Accounted
    <3>3. CountedOf(r)'
      <4>1. counts'[r] = LocalCounts(Shard(r))
        BY <1>0, <3>1
      <4>2. LocalCounts(Shard(r))' = LocalCounts(Shard(r))
        BY <2>0 DEF LocalCounts, ActorTokens
      <4> QED
        BY <2>0, <4>1, <4>2 DEF CountedOf
    <3>4. \A q \in Ranks : q # r => counts'[q] = counts[q] /\ pc'[q] = pc[q]
      BY <1>0, <3>1
    <3> QED
      BY <1>2, <2>0, <3>2, <3>3, <3>4 DEF Accounted
  <2>2. CASE \/ CheckCounts(r) \/ Forward(r) \/ BackwardFails(r) \/ OptimizerStep(r)
    <3>1. UNCHANGED <<fed, counts>>
      BY <2>2 DEF CheckCounts, Forward, BackwardFails, OptimizerStep
    <3>2. \A q \in Ranks : pc'[q] \in Counting => pc[q] \in Counting
      <4>1. pc[r] \in Counting /\ \A q \in Ranks : q # r => pc'[q] = pc[q]
        BY <1>0, <2>2 DEF CheckCounts, Forward, BackwardFails, OptimizerStep, Counting, Working
      <4> QED
        BY <4>1
    <3> QED
      BY <1>1, <1>2, <2>0, <3>1, <3>2 DEF Accounted
  <2>3. CASE Backward(r)
    <3>1. UNCHANGED counts /\ pc[r] = "backward"
          /\ fed' = [fed EXCEPT ![r] = Append(@, Contributions(MicroBatch(r, micro[r])))]
          /\ \E next : pc' = [pc EXCEPT ![r] = next]
      BY <2>3 DEF Backward
    <3>2. pc[r] \in Counting /\ \A q \in Ranks : q # r => pc'[q] = pc[q] /\ fed'[q] = fed[q]
      BY <1>0, <3>1 DEF Counting, Working
    <3>3. FedOf(r)'
      <4>1. PICK m \in Nat : m = micro[r] /\ Len(fed[r]) = m
        BY <1>0
      <4>2. PICK new : new = Contributions(MicroBatch(r, m))
        OBVIOUS
      <4>3. fed'[r] = Append(fed[r], new)
        BY <1>0, <3>1, <4>1, <4>2
      <4>4. PICK S : fed[r] \in Seq(S)
        BY <1>0
      <4>5. /\ Len(fed'[r]) = m + 1 /\ fed'[r][m + 1] = new
            /\ \A k \in 1..m : fed'[r][k] = fed[r][k]
        BY <4>1, <4>3, <4>4
      <4>6. \A k \in 1..m : fed[r][k] = Contributions(MicroBatch(r, k - 1))
        BY <4>1 DEF Accounted, FedOf
      <4>7. (m + 1) - 1 = m /\ \A k \in 1..(m + 1) : k \in 1..m \/ k = m + 1
        OBVIOUS
      <4>8. \A k \in 1..(m + 1) : fed'[r][k] = Contributions(MicroBatch(r, k - 1))
        BY <4>2, <4>5, <4>6, <4>7
      <4>9. \A k : Contributions(MicroBatch(r, k - 1))' = Contributions(MicroBatch(r, k - 1))
        BY <2>0 DEF Contributions, MicroBatch, MicroSize, ActorTokens
      <4> QED
        BY <4>5, <4>8, <4>9 DEF FedOf
    <3>4. \A q \in Ranks : FedOf(q)'
      BY <1>1, <2>0, <3>2, <3>3 DEF Accounted
    <3> QED
      BY <1>2, <2>0, <3>1, <3>2, <3>4 DEF Accounted
  <2> QED
    BY <1>6, <2>1, <2>2, <2>3 DEF Rank
<1>7. CASE UNCHANGED vars
  BY <1>1, <1>2, <1>7 DEF vars, Accounted
<1> QED
  BY <1>3, <1>4, <1>5, <1>6, <1>7 DEF Next

-----------------------------------------------------------------------------
(***************************************************************************)
(* Shards and micro-batches add up to the batch                            *)
(***************************************************************************)
LEMMA RowInShard ==
  ASSUME NEW i \in Rows
  PROVE  \E r \in Ranks : i \in Shard(r)
<1>1. ShardSize \in Nat /\ EqualParts(BatchSize, DpSize, ShardSize)
  BY SizeAssumption, ExactDivision DEF ShardSize
<1>2. PICK r \in 1..DpSize : i \in (Skipped(r, ShardSize) + 1)..(Skipped(r, ShardSize) + ShardSize)
  BY <1>1, PlaceInPart, SizeAssumption DEF Rows
<1>3. r * ShardSize = Skipped(r, ShardSize) + ShardSize
  BY <1>1, PartWithin, SizeAssumption
<1> QED
  BY <1>2, <1>3 DEF Shard, Skipped, Ranks

LEMMA ShardsDisjoint ==
  ASSUME NEW q \in Ranks, NEW r \in Ranks, NEW i \in Shard(q), i \in Shard(r)
  PROVE  q = r
<1>1. ShardSize \in Nat /\ EqualParts(BatchSize, DpSize, ShardSize)
  BY SizeAssumption, ExactDivision DEF ShardSize
<1>2. ASSUME NEW k \in Ranks
      PROVE  Shard(k) = (Skipped(k, ShardSize) + 1)..(Skipped(k, ShardSize) + ShardSize)
  <2>1. k * ShardSize = Skipped(k, ShardSize) + ShardSize
    BY <1>1, PartWithin, SizeAssumption DEF Ranks
  <2> QED
    BY <2>1 DEF Shard, Skipped
<1>3. q \in Nat \ {0} /\ r \in Nat \ {0}
  BY DEF Ranks
<1>4. i \in Int
  BY ShardRows DEF Rows
<1> QED
  BY <1>1, <1>2, <1>3, <1>4, PartsDisjoint

LEMMA RowInMicroBatch ==
  ASSUME config \in Configs, NEW r \in Ranks, NEW i \in Shard(r)
  PROVE  \E m \in 0..(config.accum - 1) : i \in MicroBatch(r, m)
<1>1. PICK a \in Nat, z \in Nat, w \in Nat, n \in Nat \ {0} :
        a = Skipped(r, ShardSize) /\ z = ShardSize /\ w = MicroSize /\ n = config.accum
  BY MicroSizes, PartWithin, SizeAssumption DEF Ranks
<1>2. Shard(r) = (a + 1)..(a + z)
  <2>1. r * ShardSize = Skipped(r, ShardSize) + ShardSize
    BY MicroSizes, PartWithin, SizeAssumption DEF Ranks
  <2> QED
    BY <1>1, <2>1 DEF Shard, Skipped
<1>3. EqualParts(z, n, w)
  BY <1>1, MicroSizes
<1>4. PICK j \in 1..z : i = a + j
  <2>1. i - a \in 1..z /\ i = a + (i - a)
    BY <1>2
  <2> QED
    BY <2>1
<1>5. PICK k \in 1..n : j \in (Skipped(k, w) + 1)..(Skipped(k, w) + w)
  BY <1>3, PlaceInPart
<1>6. PICK m \in 0..(n - 1) : m = k - 1 /\ k = m + 1
  OBVIOUS
<1>7. PICK b \in Nat : b = Skipped(k, w)
  BY <1>3, PartWithin
<1>8. MicroBatch(r, m) = (a + b + 1)..(a + b + w)
  BY <1>1, <1>6, <1>7, MicroBatchRange
<1>9. i \in (a + b + 1)..(a + b + w)
  BY <1>4, <1>5, <1>7
<1> QED
  BY <1>1, <1>6, <1>8, <1>9

LEMMA MicroBatchesDisjoint ==
  ASSUME config \in Configs, NEW r \in Ranks, NEW m \in 0..(config.accum - 1),
         NEW n \in 0..(config.accum - 1), NEW i \in MicroBatch(r, m), i \in MicroBatch(r, n)
  PROVE  m = n
<1>1. PICK a \in Nat, w \in Nat, b \in Nat, c \in Nat :
        a = Skipped(r, ShardSize) /\ w = MicroSize
        /\ b = Skipped(m + 1, w) /\ c = Skipped(n + 1, w)
  BY MicroBatchRange, MicroSizes
<1>2. i \in (a + b + 1)..(a + b + w) /\ i \in (a + c + 1)..(a + c + w)
  BY <1>1, MicroBatchRange
<1>3. PICK j \in Int : j = i - a
  BY <1>2
<1>4. j \in (b + 1)..(b + w) /\ j \in (c + 1)..(c + w)
  BY <1>2, <1>3
<1>5. m + 1 \in Nat \ {0} /\ n + 1 \in Nat \ {0}
  BY MicroSizes
<1>6. m + 1 = n + 1
  BY <1>1, <1>4, <1>5, PartsDisjoint
<1> QED
  BY <1>6, MicroSizes

LEMMA ContributionsOf ==
  ASSUME NEW rows \in SUBSET Rows
  PROVE  Contributions(rows) = {t \in Contributions(Rows) : t[2][1] \in rows}
<1>1. \A t : t \in ActorTokens(rows) <=> t \in ActorTokens(Rows) /\ t[1] \in rows
  BY DEF ActorTokens
<1>2. \A t : t \in Contributions(rows) <=> t \in Contributions(Rows) /\ t[2][1] \in rows
  BY <1>1 DEF Contributions
<1> QED
  BY <1>2

FedAll(r) == UNION {fed[r][m] : m \in 1..Len(fed[r])}

LEMMA ContributionsFinite ==
  ASSUME batch \in [Rows -> Samples], config \in Configs, NEW rows \in SUBSET Rows
  PROVE  IsFiniteSet(Contributions(rows))
<1>1. IsFiniteSet(Terms)
  <2>1. Terms = {"ce", "green"} \cup {"biased", "clean"} \cup {"cleanpos", "self"}
    BY DEF Terms
  <2>2. \A x, y : IsFiniteSet({x, y})
    <3> TAKE x, y
    <3>1. IsFiniteSet({x}) /\ IsFiniteSet({y})
      BY FS_Singleton
    <3>2. IsFiniteSet({x} \cup {y})
      BY <3>1, FS_Union
    <3>3. {x} \cup {y} = {x, y}
      OBVIOUS
    <3> QED
      BY <3>2, <3>3
  <2> QED
    BY <2>1, <2>2, FS_Union
<1>2. IsFiniteSet(Rows) /\ IsFiniteSet(0..(MaxLength - 1))
  BY FS_Interval, SizeAssumption, LengthAssumption DEF Rows
<1>3. IsFiniteSet(Terms \X (Rows \X (0..(MaxLength - 1))))
  BY <1>1, <1>2, FS_Product
<1> QED
  BY <1>3, ContributionsType, FS_Subset

\* What a rank that has finished its micro-batches has fed.
RankFed(r) ==
  /\ FedAll(r) = Contributions(Shard(r))
  /\ SumOf([m \in 1..Len(fed[r]) |-> Cardinality(fed[r][m])])
       = Cardinality(Contributions(Shard(r)))

LEMMA RankFedAll ==
  ASSUME Typed, Accounted, batch \in [Rows -> Samples],
         NEW r \in Ranks, micro[r] = config.accum
  PROVE  RankFed(r)
<1> DEFINE accum == config.accum
           sets == [m \in 1..accum |-> Contributions(MicroBatch(r, m - 1))]
<1>1. config \in Configs /\ accum \in Nat \ {0} /\ Len(fed[r]) = accum
  BY MicroSizes DEF Typed, TypeOK
<1>2. \A m \in 1..accum : fed[r][m] = Contributions(MicroBatch(r, m - 1))
  BY <1>1 DEF Accounted, FedOf
<1>3. \A m \in 1..accum : m - 1 \in 0..(accum - 1)
  BY <1>1
<1>4. \A m \in 0..(accum - 1) : m + 1 \in 1..accum /\ (m + 1) - 1 = m
  BY <1>1
<1> HIDE DEF accum
<1>5. \A m \in 0..(accum - 1) : MicroBatch(r, m) \in SUBSET Shard(r)
                                /\ MicroBatch(r, m) \in SUBSET Rows
  BY <1>1, MicroBatchInShard DEF accum
<1>6. Shard(r) \in SUBSET Rows
  BY ShardRows
<1>7. UNION {sets[m] : m \in 1..accum} = Contributions(Shard(r))
  <2>1. ASSUME NEW t, t \in Contributions(Shard(r))
        PROVE  \E m \in 1..accum : t \in sets[m]
    <3>1. t \in Contributions(Rows) /\ t[2][1] \in Shard(r)
      BY <1>6, <2>1, ContributionsOf
    <3>2. PICK k \in 0..(accum - 1) : t[2][1] \in MicroBatch(r, k)
      BY <1>1, <3>1, RowInMicroBatch DEF accum
    <3>3. t \in Contributions(MicroBatch(r, k))
      BY <1>5, <3>1, <3>2, ContributionsOf
    <3>4. k + 1 \in 1..accum /\ (k + 1) - 1 = k
      BY <1>4
    <3>5. sets[k + 1] = Contributions(MicroBatch(r, k))
      BY <3>4
    <3> QED
      BY <3>3, <3>4, <3>5
  <2>2. ASSUME NEW m \in 1..accum, NEW t \in sets[m]
        PROVE  t \in Contributions(Shard(r))
    <3>1. PICK k \in 0..(accum - 1) : k = m - 1
      BY <1>3
    <3>2. t \in Contributions(MicroBatch(r, k))
      BY <2>2, <3>1
    <3>3. MicroBatch(r, k) \in SUBSET Shard(r) /\ MicroBatch(r, k) \in SUBSET Rows
      BY <1>5
    <3>4. t \in Contributions(Rows) /\ t[2][1] \in MicroBatch(r, k)
      BY <3>2, <3>3, ContributionsOf
    <3> QED
      BY <1>6, <3>3, <3>4, ContributionsOf
  <2> HIDE DEF sets
  <2> QED
    BY <2>1, <2>2
<1>8. DOMAIN sets = 1..accum /\ IsFiniteSet(DOMAIN sets)
  BY <1>1, FS_Interval
<1>9. AllFinite(sets)
  BY <1>1, <1>3, <1>5, ContributionsFinite DEF AllFinite
<1>10. Disjoint(sets)
  <2> SUFFICES ASSUME NEW c \in 1..accum, NEW d \in 1..accum, NEW t \in sets[c], t \in sets[d]
               PROVE  c = d
    BY <1>8 DEF Disjoint
  <2>1. PICK k \in 0..(accum - 1), n \in 0..(accum - 1) : k = c - 1 /\ n = d - 1
    BY <1>3
  <2>2. t \in Contributions(MicroBatch(r, k)) /\ t \in Contributions(MicroBatch(r, n))
    BY <2>1
  <2>3. t[2][1] \in MicroBatch(r, k) /\ t[2][1] \in MicroBatch(r, n)
    BY <1>5, <2>2, ContributionsOf
  <2>4. k = n
    BY <1>1, <2>3, MicroBatchesDisjoint DEF accum
  <2> QED
    BY <1>1, <2>1, <2>4
<1>11. Sizes(sets) = [m \in 1..Len(fed[r]) |-> Cardinality(fed[r][m])]
  BY <1>1, <1>2 DEF Sizes
<1>12. FedAll(r) = UNION {sets[m] : m \in 1..accum}
  BY <1>1, <1>2 DEF FedAll
<1> HIDE DEF sets
<1>13. SumOf(Sizes(sets)) = Cardinality(UNION {sets[m] : m \in 1..accum})
  BY <1>8, <1>9, <1>10, SumOfSizes
<1> QED
  BY <1>7, <1>11, <1>12, <1>13 DEF RankFed

LEMMA AllRanksFed ==
  ASSUME Typed, Accounted, batch \in [Rows -> Samples],
         \A r \in Ranks : micro[r] = config.accum
  PROVE  /\ AllFed = Contributions(Rows)
         /\ Cardinality(AllFed) =
              SumOf([r \in Ranks |->
                SumOf([m \in 1..Len(fed[r]) |-> Cardinality(fed[r][m])])])
<1> DEFINE sets == [r \in Ranks |-> Contributions(Shard(r))]
           sums == [r \in Ranks |-> SumOf([m \in 1..Len(fed[r]) |-> Cardinality(fed[r][m])])]
<1>1. \A r \in Ranks : RankFed(r)
  BY RankFedAll
<1>2. config \in Configs
  BY DEF Typed, TypeOK
<1>3. \A r \in Ranks : Shard(r) \in SUBSET Rows
  BY ShardRows
<1>4. UNION {sets[r] : r \in Ranks} = Contributions(Rows)
  <2>1. ASSUME NEW t, t \in Contributions(Rows)
        PROVE  \E r \in Ranks : t \in sets[r]
    <3>1. t[2][1] \in Rows
      BY <2>1, ContributionsOf
    <3>2. PICK r \in Ranks : t[2][1] \in Shard(r)
      BY <3>1, RowInShard
    <3> QED
      BY <1>3, <2>1, <3>2, ContributionsOf
  <2>2. \A r \in Ranks : sets[r] \in SUBSET Contributions(Rows)
    BY <1>3, ContributionsOf
  <2> HIDE DEF sets
  <2> QED
    BY <2>1, <2>2
<1>5. AllFed = UNION {sets[r] : r \in Ranks}
  <2>1. \A r \in Ranks : FedAll(r) = sets[r]
    BY <1>1 DEF RankFed
  <2>2. AllFed = UNION {FedAll(r) : r \in Ranks}
    BY DEF AllFed, FedAll
  <2> HIDE DEF sets
  <2> QED
    BY <2>1, <2>2
<1>6. DOMAIN sets = Ranks /\ IsFiniteSet(DOMAIN sets)
  BY FS_Interval, SizeAssumption DEF Ranks
<1>7. AllFinite(sets)
  BY <1>2, <1>3, ContributionsFinite DEF AllFinite
<1>8. Disjoint(sets)
  <2> SUFFICES ASSUME NEW c \in Ranks, NEW d \in Ranks, NEW t \in sets[c], t \in sets[d]
               PROVE  c = d
    BY <1>6 DEF Disjoint
  <2>1. t[2][1] \in Shard(c) /\ t[2][1] \in Shard(d)
    BY <1>3, ContributionsOf
  <2> QED
    BY <2>1, ShardsDisjoint
<1>9. Sizes(sets) = sums
  BY <1>1, <1>6 DEF Sizes, RankFed
<1> HIDE DEF sets
<1>10. SumOf(Sizes(sets)) = Cardinality(UNION {sets[r] : r \in Ranks})
  BY <1>6, <1>7, <1>8, SumOfSizes
<1>11. Cardinality(AllFed) = SumOf(sums)
  BY <1>5, <1>9, <1>10
<1> QED
  BY <1>4, <1>5, <1>11

LEMMA DoneFed ==
  ASSUME Typed, Together, Accounted
  PROVE  EachPredictionOnce
<1>1. AllDone => batch \in [Rows -> Samples] /\ \A r \in Ranks : micro[r] = config.accum
  BY DEF AllDone, Typed, Together
<1> QED
  BY <1>1, AllRanksFed DEF EachPredictionOnce

LEMMA AccountedInit == Init => Accounted
  BY DEF Init, Accounted, FedOf, Counting, Working

LEMMA TogetherInit == Init => Together
  BY DEF Init, Together

\* However the batch is cut into shards and these into micro-batches, and in
\* whatever order the ranks work through them, each prediction of each row has
\* fed each of its terms once when the optimizers have stepped.
THEOREM EachPredictionAlwaysOnce == Spec => []EachPredictionOnce
<1>1. Typed /\ Together /\ Accounted => EachPredictionOnce
  BY DoneFed
<1> QED
  BY <1>1, TypedInit, TypedStep, TogetherInit, TogetherStep, ComparedInit, ComparedStep,
     AccountedInit, AccountedStep, PTL DEF Spec

-----------------------------------------------------------------------------
(***************************************************************************)
(* The counts add up to what feeds the terms                               *)
(***************************************************************************)
OfTask(task, rows) == {t \in ActorTokens(rows) : batch[t[1]].task = task}
MaskedOf(rows) == IF config.mode = "none" THEN {} ELSE OfTask("green", rows)
GreenAt(t) == GreenTarget(batch[t[1]], t[2])

\* The tokens of some rows a kind counts.
KindTokens(kind, rows) ==
  CASE kind = "tokens" -> ActorTokens(rows)
    [] kind = "posNonAcr" -> OfTask("green", rows) \cup OfTask("initials", rows)
    [] kind = "neg" -> OfTask("neg", rows)
    [] kind = "acr" -> OfTask("acrostics", rows)
    [] kind = "acrActive" ->
         {t \in OfTask("acrostics", rows) : LetterAt(batch[t[1]], t[2]) >= 0}
    [] kind = "initials" -> OfTask("initials", rows)
    [] kind = "initialsActive" ->
         {t \in OfTask("initials", rows) : ActiveAt(batch[t[1]], t[2]) >= 0}
    [] kind = "greenActive" -> {t \in MaskedOf(rows) : GreenAt(t)}
    [] kind = "greenNonActive" -> {t \in MaskedOf(rows) : ~GreenAt(t)}

LEMMA LocalCountsAre ==
  ASSUME NEW kind \in Kinds, NEW rows
  PROVE  LocalCounts(rows)[kind] = Cardinality(KindTokens(kind, rows))
  BY DEF LocalCounts, Kinds, KindTokens, OfTask, MaskedOf, GreenAt

LEMMA KindTokensOf ==
  ASSUME NEW rows \in SUBSET Rows, NEW kind \in Kinds
  PROVE  /\ KindTokens(kind, rows) = {t \in KindTokens(kind, Rows) : t[1] \in rows}
         /\ KindTokens(kind, rows) \in SUBSET ActorTokens(rows)
<1>1. \A t : t \in ActorTokens(rows) <=> t \in ActorTokens(Rows) /\ t[1] \in rows
  BY DEF ActorTokens
<1>2. \A task, t : t \in OfTask(task, rows) <=> t \in OfTask(task, Rows) /\ t[1] \in rows
  BY <1>1 DEF OfTask
<1>3. \A t : t \in MaskedOf(rows) <=> t \in MaskedOf(Rows) /\ t[1] \in rows
  BY <1>2 DEF MaskedOf
<1>4. \A t : t \in KindTokens(kind, rows) <=> t \in KindTokens(kind, Rows) /\ t[1] \in rows
  BY <1>1, <1>2, <1>3 DEF KindTokens, Kinds
<1>5. \A task : OfTask(task, rows) \in SUBSET ActorTokens(rows)
  BY DEF OfTask
<1>6. MaskedOf(rows) \in SUBSET ActorTokens(rows)
  BY <1>5 DEF MaskedOf
<1>7. KindTokens(kind, rows) \in SUBSET ActorTokens(rows)
  BY <1>5, <1>6 DEF KindTokens, Kinds
<1> QED
  BY <1>4, <1>7

\* What the all-reduce adds up is the number of the tokens of the batch.
LEMMA TotalCounts ==
  ASSUME batch \in [Rows -> Samples], \A r \in Ranks : CountedOf(r), NEW kind \in Kinds
  PROVE  /\ IsFiniteSet(KindTokens(kind, Rows))
         /\ Total(kind) = Cardinality(KindTokens(kind, Rows))
<1> DEFINE sets == [r \in Ranks |-> KindTokens(kind, Shard(r))]
<1>1. \A r \in Ranks : Shard(r) \in SUBSET Rows
  BY ShardRows
<1>2. IsFiniteSet(KindTokens(kind, Rows))
  <2>1. KindTokens(kind, Rows) \in SUBSET ActorTokens(Rows)
    BY KindTokensOf
  <2> QED
    BY <2>1, TokensFinite, FS_Subset
<1>3. UNION {sets[r] : r \in Ranks} = KindTokens(kind, Rows)
  <2>1. ASSUME NEW t, t \in KindTokens(kind, Rows)
        PROVE  \E r \in Ranks : t \in sets[r]
    <3>1. t[1] \in Rows
      BY <2>1, KindTokensOf
    <3>2. PICK r \in Ranks : t[1] \in Shard(r)
      BY <3>1, RowInShard
    <3> QED
      BY <1>1, <2>1, <3>2, KindTokensOf
  <2>2. \A r \in Ranks : sets[r] \in SUBSET KindTokens(kind, Rows)
    BY <1>1, KindTokensOf
  <2> HIDE DEF sets
  <2> QED
    BY <2>1, <2>2
<1>4. DOMAIN sets = Ranks /\ IsFiniteSet(DOMAIN sets)
  BY FS_Interval, SizeAssumption DEF Ranks
<1>5. \A r \in Ranks : sets[r] \in SUBSET KindTokens(kind, Rows)
  BY <1>1, KindTokensOf
<1>6. AllFinite(sets)
  BY <1>2, <1>4, <1>5, FS_Subset DEF AllFinite
<1>7. Disjoint(sets)
  <2> SUFFICES ASSUME NEW c \in Ranks, NEW d \in Ranks, NEW t \in sets[c], t \in sets[d]
               PROVE  c = d
    BY <1>4 DEF Disjoint
  <2>1. t[1] \in Shard(c) /\ t[1] \in Shard(d)
    BY <1>1, KindTokensOf
  <2> QED
    BY <2>1, ShardsDisjoint
<1>8. Sizes(sets) = [r \in Ranks |-> counts[r][kind]]
  <2>1. \A r \in Ranks : counts[r][kind] = Cardinality(KindTokens(kind, Shard(r)))
    BY LocalCountsAre DEF CountedOf
  <2> QED
    BY <1>4, <2>1 DEF Sizes
<1> HIDE DEF sets
<1>9. SumOf(Sizes(sets)) = Cardinality(UNION {sets[r] : r \in Ranks})
  BY <1>4, <1>6, <1>7, SumOfSizes
<1> QED
  BY <1>2, <1>3, <1>8, <1>9 DEF Total

\* The tokens of the batch that feed a term.
FeedingTokens(term) ==
  {t \in ActorTokens(Rows) : Feeds(term, batch[t[1]], t[2], config.mode)}

LEMMA FeedingSize ==
  ASSUME batch \in [Rows -> Samples], NEW term \in Weighted(config.weights)
  PROVE  /\ {t \in Contributions(Rows) : t[1] = term} = {term} \X FeedingTokens(term)
         /\ Cardinality({term} \X FeedingTokens(term)) = Cardinality(FeedingTokens(term))
         /\ Cardinality(FeedingTokens(term)) \in Nat
         /\ FeedingTokens(term) # {} => Cardinality(FeedingTokens(term)) >= 1
<1>1. {t \in Contributions(Rows) : t[1] = term} = {term} \X FeedingTokens(term)
  BY DEF Contributions, FeedingTokens
<1>2. IsFiniteSet(FeedingTokens(term))
  <2>1. FeedingTokens(term) \in SUBSET ActorTokens(Rows)
    BY DEF FeedingTokens
  <2> QED
    BY <2>1, TokensFinite, FS_Subset
<1>3. IsFiniteSet({term}) /\ Cardinality({term}) = 1
  BY FS_Singleton
<1>4. Cardinality(FeedingTokens(term)) \in Nat
  BY <1>2, FS_CardinalityType
<1>5. Cardinality({term} \X FeedingTokens(term)) = 1 * Cardinality(FeedingTokens(term))
  BY <1>2, <1>3, FS_Product
<1>6. FeedingTokens(term) # {} => Cardinality(FeedingTokens(term)) # 0
  BY <1>2, FS_EmptySet
<1> QED
  BY <1>1, <1>4, <1>5, <1>6

NoInitials == \A i \in Rows : batch[i].task /= "initials"

LEMMA WithoutInitials ==
  ASSUME batch \in [Rows -> Samples], \A r \in Ranks : CountedOf(r), NoInitials
  PROVE  /\ OfTask("initials", Rows) = {}
         /\ Total("initialsActive") = 0
<1>1. \A t \in ActorTokens(Rows) : t[1] \in Rows
  BY TokenParts
<1>2. OfTask("initials", Rows) = {}
  BY <1>1 DEF OfTask, NoInitials
<1>3. KindTokens("initialsActive", Rows) = {} /\ "initialsActive" \in Kinds
  BY <1>2 DEF KindTokens, Kinds
<1>4. Total("initialsActive") = Cardinality(KindTokens("initialsActive", Rows))
  BY <1>3, TotalCounts
<1> QED
  BY <1>2, <1>3, <1>4, FS_EmptySet

\* The tokens a term is divided by the number of.
LEMMA DividedBy ==
  ASSUME batch \in [Rows -> Samples], config \in Configs,
         \A r \in Ranks : CountedOf(r), NoInitials,
         config.normalization = "per_task",
         NEW term \in Weighted(config.weights), FeedingTokens(term) # {}
  PROVE  Denominator(term) = Cardinality(FeedingTokens(term))
<1> DEFINE pos == Total("posNonAcr")
           act == Total("acrActive")
           grn == Total("greenActive")
           size == Cardinality(FeedingTokens(term))
<1>1. \A kind \in Kinds : /\ IsFiniteSet(KindTokens(kind, Rows))
                          /\ Total(kind) = Cardinality(KindTokens(kind, Rows))
                          /\ Total(kind) \in Nat
  BY TotalCounts, FS_CardinalityType
<1>2. {"tokens", "posNonAcr", "neg", "acrActive", "greenActive", "greenNonActive"} \subseteq Kinds
  BY DEF Kinds
<1>3. OfTask("initials", Rows) = {} /\ Total("initialsActive") = 0
  BY WithoutInitials
<1>4. size \in Nat /\ size >= 1
  BY FeedingSize
<1>5. pos \in Nat /\ act \in Nat /\ grn \in Nat
  BY <1>1, <1>2
<1>6. Greater(pos - 0, 0) = pos
  BY <1>5 DEF Greater
<1>7. Greater(size, 1) = size
  BY <1>4 DEF Greater
<1>8. \A t \in ActorTokens(Rows) : t[1] \in Rows
  BY TokenParts
<1>9. KindTokens("posNonAcr", Rows) = OfTask("green", Rows)
  BY <1>3 DEF KindTokens
<1>10. CASE term = "ce"
  <2>1. FeedingTokens(term) = KindTokens("tokens", Rows)
    BY <1>10 DEF FeedingTokens, Feeds, KindTokens
  <2>2. Total("tokens") = size
    BY <1>1, <1>2, <2>1
  <2>3. Denominator(term) = Greater(Total("tokens"), 1)
    BY <1>10 DEF Denominator
  <2> QED
    BY <1>7, <2>2, <2>3
<1>11. CASE term = "clean"
  <2>1. FeedingTokens(term) = KindTokens("neg", Rows)
    BY <1>11 DEF FeedingTokens, Feeds, KindTokens, OfTask
  <2>2. Total("neg") = size
    BY <1>1, <1>2, <2>1
  <2>3. Denominator(term) = Greater(Total("neg"), 1)
    BY <1>11 DEF Denominator
  <2> QED
    BY <1>7, <2>2, <2>3
<1>12. CASE term = "green" \/ term = "self"
  <2>1. FeedingTokens(term) = KindTokens("posNonAcr", Rows)
    BY <1>9, <1>12 DEF FeedingTokens, Feeds, OfTask
  <2>2. pos = size
    BY <1>1, <1>2, <2>1
  <2>3. Denominator(term) = Greater(Greater(pos - 0, 0) + Total("initialsActive"), 1)
    BY <1>12 DEF Denominator
  <2>4. Greater(pos - 0, 0) + Total("initialsActive") = pos
    BY <1>3, <1>5, <1>6
  <2> QED
    BY <1>7, <2>2, <2>3, <2>4
<1>13. CASE term = "cleanpos"
  <2>1. config.mode = "cleanref"
    BY <1>13 DEF FeedingTokens, Feeds
  <2>2. FeedingTokens(term) = KindTokens("greenNonActive", Rows)
    BY <1>13, <2>1 DEF FeedingTokens, Feeds, OfTask, KindTokens, MaskedOf, GreenAt
  <2>3. Total("greenNonActive") = size
    BY <1>1, <1>2, <2>2
  <2>4. Denominator(term) = Greater(Total("greenNonActive"), 1)
    BY <1>13 DEF Denominator
  <2> QED
    BY <1>7, <2>3, <2>4
<1>14. CASE term = "biased"
  <2> DEFINE kind == IF config.mode = "none" THEN "posNonAcr" ELSE "greenActive"
             A == KindTokens(kind, Rows)
             B == KindTokens("acrActive", Rows)
  <2>1. A = {t \in ActorTokens(Rows) :
               batch[t[1]].task = "green" /\ (config.mode = "none" \/ GreenAt(t))}
    BY <1>9 DEF KindTokens, MaskedOf, OfTask
  <2>2. B = {t \in ActorTokens(Rows) :
               batch[t[1]].task = "acrostics" /\ LetterAt(batch[t[1]], t[2]) >= 0}
    BY DEF KindTokens, OfTask
  <2>3. \A t \in ActorTokens(Rows) : batch[t[1]].task # "initials"
    BY <1>8 DEF NoInitials
  <2>4. FeedingTokens(term) = A \cup B
    BY <1>14, <2>1, <2>2, <2>3 DEF FeedingTokens, Feeds, GreenAt
  <2>5. A \cap B = {}
    BY <2>1, <2>2
  <2>6. /\ IsFiniteSet(A) /\ Total(kind) = Cardinality(A) /\ Total(kind) \in Nat
        /\ IsFiniteSet(B) /\ act = Cardinality(B)
    BY <1>1, <1>2
  <2>7. Denominator(term) = Greater((IF config.mode = "none" THEN Greater(pos - 0, 0) ELSE grn)
                                    + Total("initialsActive") + act, 1)
    BY <1>14 DEF Denominator
  <2>8. (IF config.mode = "none" THEN Greater(pos - 0, 0) ELSE grn) = Total(kind)
    BY <1>6
  <2> HIDE DEF A, B, kind
  <2>9. size = Cardinality(A) + Cardinality(B) - 0
    <3>1. Cardinality(A \cap B) = 0
      BY <2>5, FS_EmptySet
    <3>2. Cardinality(A \cup B) = Cardinality(A) + Cardinality(B) - Cardinality(A \cap B)
      BY <2>6, FS_Union
    <3> QED
      BY <2>4, <3>1, <3>2
  <2>10. Total(kind) + Total("initialsActive") + act = size
    BY <1>3, <1>5, <2>6, <2>9
  <2> QED
    BY <1>7, <2>7, <2>8, <2>10
<1>15. term \in Terms
  BY ConfigsAssumption DEF Weighted, Terms
<1> QED
  BY <1>10, <1>11, <1>12, <1>13, <1>14, <1>15 DEF Terms

LEMMA DoneCounted ==
  ASSUME Typed, Together, Accounted
  PROVE  DenominatorsCount
<1> SUFFICES ASSUME AllDone, config.normalization = "per_task", NoInitials,
                    NEW term \in Weighted(config.weights),
                    {t \in AllFed : t[1] = term} /= {}
             PROVE  Denominator(term) = Cardinality({t \in AllFed : t[1] = term})
  BY DEF DenominatorsCount, NoInitials
<1>1. /\ batch \in [Rows -> Samples] /\ config \in Configs
      /\ \A r \in Ranks : micro[r] = config.accum
  BY DEF AllDone, Typed, TypeOK, Together
<1>2. AllFed = Contributions(Rows)
  BY <1>1, AllRanksFed
<1>3. \A r \in Ranks : CountedOf(r)
  BY DEF AllDone, Accounted, Counting, Working
<1>4. {t \in AllFed : t[1] = term} = {term} \X FeedingTokens(term)
  BY <1>1, <1>2, FeedingSize
<1>5. FeedingTokens(term) # {}
  BY <1>4
<1>6. Denominator(term) = Cardinality(FeedingTokens(term))
  BY <1>1, <1>3, <1>5, DividedBy
<1> QED
  BY <1>1, <1>4, <1>6, FeedingSize

\* Under per_task normalization, the counts the ranks take before they start
\* and add up over the shards are, term by term, the numbers of predictions
\* that have fed the terms when all have finished.
THEOREM DenominatorsAlwaysCount == Spec => []DenominatorsCount
<1>1. Typed /\ Together /\ Accounted => DenominatorsCount
  BY DoneCounted
<1> QED
  BY <1>1, TypedInit, TypedStep, TogetherInit, TogetherStep, ComparedInit, ComparedStep,
     AccountedInit, AccountedStep, PTL DEF Spec

=============================================================================
