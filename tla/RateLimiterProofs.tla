--------------------------- MODULE RateLimiterProofs ---------------------------
(***************************************************************************)
(* The limits of the reward manager hold for every rate, every size of a   *)
(* request, every number of workers, rows and permits, and calls that may  *)
(* take any time.                                                          *)
(***************************************************************************)
EXTENDS RateLimiter, FiniteSetTheorems, TLAPS

-----------------------------------------------------------------------------
(***************************************************************************)
(* Shapes                                                                  *)
(***************************************************************************)
RowType ==
  [at : Stages, wake : Int, thread : {"none", "queued", "running"}, start : Int,
   end : Int \cup {Never}, result : {"none", "score", "error", "timeout"}]

Shape ==
  /\ config \in Configs /\ now \in Nat
  /\ bucket \in [Workers -> [Limiters -> [tokens : Int, last : Int]]]
  /\ row \in [Rows -> RowType]
  /\ waiters \in [Workers -> Seq(Rows)]
  /\ permits \in [Workers -> Int]
  /\ batch \in [Workers -> {"open", "scored", "raised"}]
  /\ granted \in [Workers -> [Limiters -> Seq(Int)]]

(***************************************************************************)
(* The semaphore: its queue holds the rows that wait, each of them once,   *)
(* and its value is what the calls under way leave of max_concurrent.      *)
(***************************************************************************)
Waiting(w) == {r \in RowsOf(w) : row[r].at = "semaphore"}
Calling(w) == {r \in RowsOf(w) : row[r].at = "calling"}
Distinct(s) == \A i, j \in 1..Len(s) : s[i] = s[j] => i = j

Semaphore ==
  \A w \in Workers :
    /\ ToSet(waiters[w]) = Waiting(w) /\ Distinct(waiters[w])
    /\ permits[w] >= 0 /\ permits[w] + Cardinality(Calling(w)) = config.concurrent

\* What the configuration fixes for all times.
LEMMA ConfigFixed ==
  [Next]_vars => config' = config /\ Workers' = Workers /\ Rows' = Rows
<1> SUFFICES ASSUME [Next]_vars PROVE config' = config
  BY DEF Workers, Rows
<1>1. ASSUME NEW r \in Rows, Arrive(r) \/ Decode(r) \/ Enter(r) \/ Call(r) \/ Answer(r)
                              \/ TimeOut(r) \/ ThreadEnds(r)
      PROVE  config' = config
  BY <1>1 DEF Arrive, Decode, Enter, Call, Answer, TimeOut, Return, ThreadEnds
<1>2. ASSUME NEW r \in Rows, NEW b \in Limiters, Acquire(r, b) \/ Reserve(r, b) \/ WakeUp(r, b)
      PROVE  config' = config
  BY <1>2 DEF Acquire, Reserve, WakeUp
<1>3. ASSUME NEW w \in Workers, Join(w)
      PROVE  config' = config
  BY <1>3 DEF Join
<1>4. Tick => config' = config
  BY DEF Tick
<1> QED
  BY <1>1, <1>2, <1>3, <1>4 DEF Next, Run, Limit, vars

\* The numbers of a configuration.
LEMMA ConfigNumbers ==
  ASSUME config \in Configs
  PROVE  /\ config.cost \in [Limiters -> Nat] /\ config.workers \in Nat \ {0}
         /\ config.rows \in Nat \ {0} /\ config.concurrent \in Nat \ {0}
         /\ config.sync \in BOOLEAN /\ Second \in Nat \ {0} /\ Threads \in Nat \ {0}
  BY LimiterAssumption, LimiterConfigsAssumption DEF Limiters

\* A row belongs to a worker, and a worker has finitely many rows.
LEMMA RowsOfWorkers ==
  ASSUME config \in Configs
  PROVE  /\ \A r \in Rows : r[1] \in Workers /\ r \in RowsOf(r[1])
         /\ \A w \in Workers : RowsOf(w) \subseteq Rows /\ IsFiniteSet(RowsOf(w))
<1>1. IsFiniteSet(Workers) /\ IsFiniteSet(1..config.rows)
  <2>1. 1 \in Int /\ config.workers \in Int /\ config.rows \in Int
    BY ConfigNumbers
  <2> QED
    BY <2>1, FS_Interval DEF Workers
<1>2. IsFiniteSet(Rows)
  BY <1>1, FS_Product DEF Rows
<1>3. \A w \in Workers : RowsOf(w) \subseteq Rows
  BY DEF RowsOf
<1>4. \A r \in Rows : r[1] \in Workers /\ r \in RowsOf(r[1])
  BY DEF Rows, RowsOf
<1> QED
  BY <1>2, <1>3, <1>4, FS_Subset

\* The refilled balance never exceeds a bucket.
LEMMA RefillBounds ==
  ASSUME Shape, NEW w \in Workers, NEW b \in Limiters
  PROVE  Refilled(bucket[w][b]) \in Int /\ Refilled(bucket[w][b]) <= Second
<1>1. bucket[w][b] \in [tokens : Int, last : Int] /\ now \in Nat /\ Second \in Nat
  BY LimiterAssumption DEF Shape
<1> QED
  BY <1>1 DEF Refilled, Gained, Smaller

\* Where a row goes next is a stage.
LEMMA StagesReached ==
  /\ FirstStage \in {"rpm", "tpm", "semaphore"}
  /\ \A b \in Limiters : After(b) \in {"tpm", "semaphore"} /\ Paid(b) \in {"paid_rpm", "paid_tpm"}
  /\ \A b \in Limiters : After(b) # b
  BY DEF FirstStage, After, Paid, Limiters

\* Going to a stage, with the queue of the semaphore.
LEMMA GoShape ==
  ASSUME Shape, NEW r \in Rows, NEW stage \in Stages, Go(r, stage)
  PROVE  /\ row' \in [Rows -> RowType]
         /\ waiters' \in [Workers -> Seq(Rows)]
         /\ row'[r].at = stage /\ row'[r].wake = now /\ row'[r].thread = row[r].thread
         /\ \A q \in Rows \ {r} : row'[q] = row[q]
<1>1. r[1] \in Workers
  BY RowsOfWorkers DEF Shape
<1>2. Append(waiters[r[1]], r) \in Seq(Rows)
  BY <1>1 DEF Shape
<1>3. waiters' \in [Workers -> Seq(Rows)]
  BY <1>1, <1>2 DEF Go, Shape
<1>4. row' = [row EXCEPT ![r].at = stage, ![r].wake = now] /\ now \in Int
  BY DEF Go, Shape
<1> QED
  BY <1>3, <1>4, Zenon DEF Shape, RowType

\* One row changes.
LEMMA RowChange ==
  ASSUME row \in [Rows -> RowType], NEW r \in Rows, NEW new \in RowType
  PROVE  [row EXCEPT ![r] = new] \in [Rows -> RowType]
  OBVIOUS

\* One entry of a table changes.
LEMMA EntryChange ==
  ASSUME NEW S, NEW T, NEW V, NEW f \in [S -> [T -> V]], NEW s \in S, NEW t \in T, NEW v \in V
  PROVE  /\ [f EXCEPT ![s][t] = v] \in [S -> [T -> V]]
         /\ [f EXCEPT ![s][t] = v][s][t] = v
         /\ \A u \in S, x \in T : u # s \/ x # t => [f EXCEPT ![s][t] = v][u][x] = f[u][x]
  OBVIOUS

\* One action at a time.
LEMMA ShapeStep == Shape /\ Semaphore /\ [Next]_vars => Shape'
<1> SUFFICES ASSUME Shape, Semaphore, [Next]_vars PROVE Shape'
  OBVIOUS
<1>0. config' = config /\ Workers' = Workers /\ Rows' = Rows
  BY ConfigFixed
<1> USE <1>0
<1>1. \A r \in Rows : r[1] \in Workers
  BY RowsOfWorkers DEF Shape
<1>2. CASE Tick
  BY <1>2 DEF Tick, Shape
<1>3. ASSUME NEW r \in Rows, Arrive(r)
      PROVE  Shape'
  <2>1. [row[r] EXCEPT !.at = "decode"] \in RowType
    BY Zenon DEF Shape, RowType, Stages
  <2> QED
    BY <1>3, <2>1, RowChange DEF Arrive, Shape
<1>4. ASSUME NEW r \in Rows, Decode(r)
      PROVE  Shape'
  <2>1. Go(r, FirstStage) /\ FirstStage \in Stages
    BY <1>4, StagesReached DEF Decode, Stages
  <2> QED
    BY <1>4, <2>1, GoShape DEF Decode, Shape
<1>5. ASSUME NEW r \in Rows, NEW b \in Limiters, Acquire(r, b) \/ Reserve(r, b) \/ WakeUp(r, b)
      PROVE  Shape'
  <2>1. After(b) \in Stages /\ Paid(b) \in Stages
    BY StagesReached DEF Stages
  <2>2. UNCHANGED <<config, now, permits, batch>>
    BY <1>5 DEF Acquire, Reserve, WakeUp
  <2>3. row' \in [Rows -> RowType] /\ waiters' \in [Workers -> Seq(Rows)]
    <3>1. CASE Go(r, After(b))
      BY <2>1, <3>1, GoShape
    <3>2. CASE /\ waiters' = waiters
               /\ row' = [row EXCEPT ![r].wake = now + Missing(bucket[r[1]][b], config.cost[b])]
      <4>1. now + Missing(bucket[r[1]][b], config.cost[b]) \in Int
        BY <1>1, RefillBounds, ConfigNumbers DEF Missing, Shape
      <4>2. [row[r] EXCEPT !.wake = now + Missing(bucket[r[1]][b], config.cost[b])] \in RowType
        BY <4>1 DEF Shape, RowType
      <4> QED
        BY <3>2, <4>2, RowChange DEF Shape
    <3>3. CASE Reserve(r, b)
      <4>1. now + Missing(bucket[r[1]][b], config.cost[b]) \in Int
        BY <1>1, RefillBounds, ConfigNumbers DEF Missing, Shape
      <4>2. [row[r] EXCEPT !.at = Paid(b),
                           !.wake = now + Missing(bucket[r[1]][b], config.cost[b])] \in RowType
        BY <2>1, <4>1 DEF Shape, RowType
      <4> QED
        BY <3>3, <4>2, RowChange DEF Reserve, Shape
    <3> QED
      BY <1>5, <3>1, <3>2, <3>3 DEF Acquire, WakeUp
  <2>4. bucket' \in [Workers -> [Limiters -> [tokens : Int, last : Int]]]
    <3>1. /\ Filled(bucket[r[1]][b]) \in [tokens : Int, last : Int]
          /\ [Filled(bucket[r[1]][b]) EXCEPT !.tokens = @ - config.cost[b]]
               \in [tokens : Int, last : Int]
      BY <1>1, RefillBounds, ConfigNumbers DEF Filled, Shape
    <3>2. \/ bucket' = bucket
          \/ \E k \in [tokens : Int, last : Int] : bucket' = [bucket EXCEPT ![r[1]][b] = k]
      BY <1>5, <3>1 DEF Acquire, Reserve, WakeUp
    <3>3. bucket \in [Workers -> [Limiters -> [tokens : Int, last : Int]]]
      BY DEF Shape
    <3>4. ASSUME NEW k \in [tokens : Int, last : Int]
          PROVE  [bucket EXCEPT ![r[1]][b] = k] \in [Workers -> [Limiters -> [tokens : Int, last : Int]]]
      BY <1>1, <3>3, EntryChange
    <3> QED
      BY <3>2, <3>3, <3>4
  <2>5. granted' \in [Workers -> [Limiters -> Seq(Int)]]
    <3>1. Append(granted[r[1]][b], now) \in Seq(Int)
      BY <1>1 DEF Shape
    <3>2. \/ granted' = granted
          \/ \E g \in Seq(Int) : granted' = [granted EXCEPT ![r[1]][b] = g]
      <4>1. \/ granted' = granted
            \/ granted' = [granted EXCEPT ![r[1]][b] = Append(@, now)]
        BY <1>5 DEF Acquire, Reserve, WakeUp
      <4>2. [granted EXCEPT ![r[1]][b] = Append(@, now)]
              = [granted EXCEPT ![r[1]][b] = Append(granted[r[1]][b], now)]
        BY <1>1 DEF Shape
      <4> QED
        BY <3>1, <4>1, <4>2
    <3>3. granted \in [Workers -> [Limiters -> Seq(Int)]]
      BY DEF Shape
    <3>4. ASSUME NEW g \in Seq(Int)
          PROVE  [granted EXCEPT ![r[1]][b] = g] \in [Workers -> [Limiters -> Seq(Int)]]
      BY <1>1, <3>3, EntryChange
    <3> QED
      BY <3>2, <3>3, <3>4
  <2> QED
    BY <2>2, <2>3, <2>4, <2>5 DEF Shape
<1>6. ASSUME NEW r \in Rows, Enter(r)
      PROVE  Shape'
  <2>1. row' \in [Rows -> RowType] /\ permits' \in [Workers -> Int]
    <3>1. [row[r] EXCEPT !.at = "calling", !.start = now, !.thread = "queued"] \in RowType
      <4>1. now \in Int /\ row[r] \in RowType
        BY DEF Shape
      <4> QED
        BY <4>1 DEF RowType, Stages
    <3>2. row' \in [Rows -> RowType]
      BY <1>6, <3>1, RowChange DEF Enter, Shape
    <3> QED
      BY <1>1, <1>6, <3>2 DEF Enter, Shape
  <2>2. waiters' \in [Workers -> Seq(Rows)]
    <3>1. row[r].at = "semaphore" /\ waiters' = [waiters EXCEPT ![r[1]] = Tail(@)]
      BY <1>6 DEF Enter
    <3>2. r \in ToSet(waiters[r[1]])
      BY <1>1, <3>1, RowsOfWorkers DEF Semaphore, Waiting, Shape
    <3>3. Tail(waiters[r[1]]) \in Seq(Rows)
      <4>1. waiters[r[1]] \in Seq(Rows) /\ waiters[r[1]] # << >>
        BY <1>1, <3>2 DEF Shape, ToSet
      <4> QED
        BY <4>1
    <3> QED
      BY <1>1, <3>1, <3>3 DEF Shape
  <2> QED
    BY <1>6, <2>1, <2>2 DEF Enter, Shape
<1>7. ASSUME NEW r \in Rows, Call(r)
      PROVE  Shape'
  <2>1. PICK d \in Durations \cup (IF config.sync THEN {} ELSE {Never}) :
          row' = [row EXCEPT ![r].thread = "running", ![r].end = IF d = Never THEN Never ELSE now + d]
    BY <1>7 DEF Call
  <2>2. (IF d = Never THEN Never ELSE now + d) \in Int \cup {Never}
    BY LimiterAssumption DEF Shape
  <2>3. [row[r] EXCEPT !.thread = "running",
                       !.end = IF d = Never THEN Never ELSE now + d] \in RowType
    BY <2>2 DEF Shape, RowType
  <2> QED
    BY <1>7, <2>1, <2>3, RowChange DEF Call, Shape
<1>8. ASSUME NEW r \in Rows, Answer(r) \/ TimeOut(r)
      PROVE  Shape'
  <2>1. PICK result \in {"score", "error", "timeout"}, thread \in {"none", "running"} :
          Return(r, result, thread)
    BY <1>8 DEF Answer, TimeOut, ThreadAfterTimeout
  <2>2. [row[r] EXCEPT !.at = "done", !.result = result, !.thread = thread] \in RowType
    BY Zenon DEF Shape, RowType, Stages
  <2>3. row' \in [Rows -> RowType]
    BY <2>1, <2>2, RowChange DEF Return, Shape
  <2> QED
    BY <1>1, <2>1, <2>3 DEF Return, Released, Shape
<1>9. ASSUME NEW r \in Rows, ThreadEnds(r)
      PROVE  Shape'
  <2>1. [row[r] EXCEPT !.thread = "none"] \in RowType
    BY DEF Shape, RowType
  <2> QED
    BY <1>9, <2>1, RowChange DEF ThreadEnds, Shape
<1>10. ASSUME NEW w \in Workers, Join(w)
       PROVE  Shape'
  BY <1>10 DEF Join, Shape
<1>11. CASE UNCHANGED vars
  BY <1>11 DEF vars, Shape
<1> QED
  BY <1>2, <1>3, <1>4, <1>5, <1>6, <1>7, <1>8, <1>9, <1>10, <1>11 DEF Next, Run, Limit


-----------------------------------------------------------------------------
\* How the sets of rows change when one row moves.
LEMMA RowMoves ==
  ASSUME Shape, NEW r \in Rows, config' = config, \A q \in Rows \ {r} : row'[q] = row[q],
         NEW w \in Workers
  PROVE  /\ Calling(w)' = IF w = r[1] /\ row'[r].at = "calling"
                          THEN Calling(w) \cup {r} ELSE Calling(w) \ {r}
         /\ Waiting(w)' = IF w = r[1] /\ row'[r].at = "semaphore"
                          THEN Waiting(w) \cup {r} ELSE Waiting(w) \ {r}
         /\ Running(w)' = IF w = r[1] /\ row'[r].thread = "running"
                          THEN Running(w) \cup {r} ELSE Running(w) \ {r}
<1>1. RowsOf(w)' = RowsOf(w)
  BY DEF RowsOf, Rows, Workers
<1>2. r \in RowsOf(w) <=> w = r[1]
  BY DEF RowsOf
<1>3. \A q \in RowsOf(w) : q \in Rows
  BY DEF RowsOf
<1>4. Calling(w)' = {q \in RowsOf(w) : row'[q].at = "calling"}
  BY <1>1 DEF Calling
<1>5. Waiting(w)' = {q \in RowsOf(w) : row'[q].at = "semaphore"}
  BY <1>1 DEF Waiting
<1>6. Running(w)' = {q \in RowsOf(w) : row'[q].thread = "running"}
  BY <1>1 DEF Running
<1>7. Calling(w)' = IF w = r[1] /\ row'[r].at = "calling"
                    THEN Calling(w) \cup {r} ELSE Calling(w) \ {r}
  BY <1>2, <1>3, <1>4 DEF Calling
<1>8. Waiting(w)' = IF w = r[1] /\ row'[r].at = "semaphore"
                    THEN Waiting(w) \cup {r} ELSE Waiting(w) \ {r}
  BY <1>2, <1>3, <1>5 DEF Waiting
<1>9. Running(w)' = IF w = r[1] /\ row'[r].thread = "running"
                    THEN Running(w) \cup {r} ELSE Running(w) \ {r}
  BY <1>2, <1>3, <1>6 DEF Running
<1> QED
  BY <1>7, <1>8, <1>9

\* The sets are finite.
LEMMA RowSetsFinite ==
  ASSUME Shape, NEW w \in Workers
  PROVE  /\ IsFiniteSet(Calling(w)) /\ Cardinality(Calling(w)) \in Nat
         /\ IsFiniteSet(Running(w)) /\ Cardinality(Running(w)) \in Nat
<1>1. IsFiniteSet(RowsOf(w))
  BY RowsOfWorkers DEF Shape
<1>2. Calling(w) \in SUBSET RowsOf(w) /\ Running(w) \in SUBSET RowsOf(w)
  BY DEF Calling, Running
<1>3. IsFiniteSet(Calling(w)) /\ IsFiniteSet(Running(w))
  BY <1>1, <1>2, FS_Subset
<1> QED
  BY <1>3, FS_CardinalityType

\* A row that is neither at the semaphore nor calling, before and after.
LEMMA SemaphoreUntouched ==
  ASSUME Shape, Semaphore, NEW r \in Rows, UNCHANGED <<config, waiters, permits>>,
         \A q \in Rows \ {r} : row'[q] = row[q],
         row[r].at \in {"semaphore", "calling"} \/ row'[r].at \in {"semaphore", "calling"}
           => row'[r].at = row[r].at
  PROVE  Semaphore'
<1>1. Workers' = Workers
  BY DEF Workers
<1>2. ASSUME NEW w \in Workers
      PROVE  Calling(w)' = Calling(w) /\ Waiting(w)' = Waiting(w)
  <2>1. r \in Calling(w) <=> w = r[1] /\ row[r].at = "calling"
    BY RowsOfWorkers DEF Shape, Calling, RowsOf
  <2>2. r \in Waiting(w) <=> w = r[1] /\ row[r].at = "semaphore"
    BY RowsOfWorkers DEF Shape, Waiting, RowsOf
  <2>3. /\ Calling(w)' = IF w = r[1] /\ row'[r].at = "calling"
                         THEN Calling(w) \cup {r} ELSE Calling(w) \ {r}
        /\ Waiting(w)' = IF w = r[1] /\ row'[r].at = "semaphore"
                         THEN Waiting(w) \cup {r} ELSE Waiting(w) \ {r}
    BY RowMoves
  <2> QED
    BY <2>1, <2>2, <2>3
<1> QED
  BY <1>1, <1>2 DEF Semaphore

\* A queue with one more entry.
LEMMA AppendDistinct ==
  ASSUME NEW S, NEW s \in Seq(S), NEW e \in S, e \notin ToSet(s), Distinct(s)
  PROVE  ToSet(Append(s, e)) = ToSet(s) \cup {e} /\ Distinct(Append(s, e))
<1>1. /\ Len(s) \in Nat /\ DOMAIN s = 1..Len(s)
      /\ Len(Append(s, e)) = Len(s) + 1 /\ DOMAIN Append(s, e) = 1..(Len(s) + 1)
      /\ \A i \in 1..Len(s) : Append(s, e)[i] = s[i]
      /\ Append(s, e)[Len(s) + 1] = e
  OBVIOUS
<1>2. \A i \in 1..(Len(s) + 1) : i \in 1..Len(s) \/ i = Len(s) + 1
  BY <1>1
<1>3. ToSet(Append(s, e)) = ToSet(s) \cup {e}
  BY <1>1, <1>2 DEF ToSet
<1>4. \A i \in 1..Len(s) : s[i] # e
  BY <1>1 DEF ToSet
<1>5. Distinct(Append(s, e))
  BY <1>1, <1>2, <1>4 DEF Distinct
<1> QED
  BY <1>3, <1>5

\* A queue without its head.
LEMMA TailDistinct ==
  ASSUME NEW S, NEW s \in Seq(S), Distinct(s), s # << >>
  PROVE  ToSet(Tail(s)) = ToSet(s) \ {Head(s)} /\ Distinct(Tail(s)) /\ Head(s) \in ToSet(s)
<1>1. /\ Len(s) \in Nat \ {0} /\ DOMAIN s = 1..Len(s) /\ Head(s) = s[1]
      /\ Len(Tail(s)) = Len(s) - 1 /\ DOMAIN Tail(s) = 1..(Len(s) - 1)
      /\ \A i \in 1..(Len(s) - 1) : Tail(s)[i] = s[i + 1]
  OBVIOUS
<1>2. \A i \in 1..Len(s) : i = 1 \/ (i - 1 \in 1..(Len(s) - 1) /\ s[i] = Tail(s)[i - 1])
  <2> SUFFICES ASSUME NEW i \in 1..Len(s), i # 1
               PROVE  i - 1 \in 1..(Len(s) - 1) /\ s[i] = Tail(s)[i - 1]
    OBVIOUS
  <2>1. i - 1 \in 1..(Len(s) - 1) /\ (i - 1) + 1 = i
    BY <1>1
  <2> QED
    BY <1>1, <2>1
<1>3. \A i \in 1..(Len(s) - 1) : Tail(s)[i] # s[1]
  <2> SUFFICES ASSUME NEW i \in 1..(Len(s) - 1) PROVE s[i + 1] # s[1]
    BY <1>1
  <2>1. i + 1 \in 1..Len(s) /\ 1 \in 1..Len(s) /\ i + 1 # 1
    BY <1>1
  <2> QED
    BY <2>1 DEF Distinct
<1>4. ToSet(Tail(s)) = ToSet(s) \ {Head(s)} /\ Head(s) \in ToSet(s)
  <2>1. ToSet(s) = {s[i] : i \in 1..Len(s)} /\ ToSet(Tail(s)) = {Tail(s)[i] : i \in 1..(Len(s) - 1)}
    BY <1>1 DEF ToSet
  <2>2. \A i \in 1..(Len(s) - 1) : i + 1 \in 1..Len(s) /\ Tail(s)[i] = s[i + 1] /\ Tail(s)[i] # s[1]
    BY <1>1, <1>3
  <2>3. \A x : x \in ToSet(Tail(s)) => x \in ToSet(s) /\ x # s[1]
    BY <2>1, <2>2
  <2>4. \A x : x \in ToSet(s) /\ x # s[1] => x \in ToSet(Tail(s))
    BY <1>2, <2>1
  <2>5. s[1] \in ToSet(s)
    BY <1>1, <2>1
  <2> QED
    BY <1>1, <2>3, <2>4, <2>5
<1>5. Distinct(Tail(s))
  <2> SUFFICES ASSUME NEW i \in 1..(Len(s) - 1), NEW j \in 1..(Len(s) - 1), s[i + 1] = s[j + 1]
               PROVE  i = j
    BY <1>1 DEF Distinct
  <2>1. i + 1 \in 1..Len(s) /\ j + 1 \in 1..Len(s)
    BY <1>1
  <2>2. i + 1 = j + 1
    BY <2>1 DEF Distinct
  <2> QED
    BY <2>2
<1> QED
  BY <1>4, <1>5


\* A row that goes on to a limiter or joins the queue of the semaphore.
LEMMA SemaphoreGo ==
  ASSUME Shape, Semaphore, NEW r \in Rows, NEW stage \in {"rpm", "tpm", "semaphore"},
         Go(r, stage), UNCHANGED <<config, permits>>, row[r].at \notin {"semaphore", "calling"}
  PROVE  Semaphore'
<1>1. row'[r].at = stage /\ \A q \in Rows \ {r} : row'[q] = row[q]
  BY GoShape DEF Stages
<1>2. CASE stage # "semaphore"
  BY <1>1, <1>2, SemaphoreUntouched DEF Go
<1>3. CASE stage = "semaphore"
  <2>1. r[1] \in Workers /\ r \in RowsOf(r[1]) /\ Workers' = Workers
    BY RowsOfWorkers DEF Shape, Workers
  <2>2. waiters' = [waiters EXCEPT ![r[1]] = Append(@, r)]
    BY <1>3 DEF Go
  <2>3. \A w \in Workers : waiters'[w] = IF w = r[1] THEN Append(waiters[w], r) ELSE waiters[w]
    BY <2>1, <2>2 DEF Shape
  <2>4. r \notin ToSet(waiters[r[1]]) /\ r \notin Calling(r[1])
    BY <2>1 DEF Semaphore, Waiting, Calling
  <2>5. \A w \in Workers : w # r[1] => r \notin Calling(w) /\ r \notin Waiting(w)
    BY DEF Calling, Waiting, RowsOf
  <2>6. ASSUME NEW w \in Workers
        PROVE  /\ Calling(w)' = Calling(w)
               /\ Waiting(w)' = IF w = r[1] THEN Waiting(w) \cup {r} ELSE Waiting(w)
    <3>1. /\ Calling(w)' = Calling(w) \ {r}
          /\ Waiting(w)' = IF w = r[1] THEN Waiting(w) \cup {r} ELSE Waiting(w) \ {r}
      BY <1>1, <1>3, RowMoves
    <3> QED
      BY <2>4, <2>5, <3>1
  <2>7. waiters[r[1]] \in Seq(Rows) /\ Distinct(waiters[r[1]])
    BY <2>1 DEF Shape, Semaphore
  <2>8. ToSet(Append(waiters[r[1]], r)) = ToSet(waiters[r[1]]) \cup {r}
        /\ Distinct(Append(waiters[r[1]], r))
    BY <2>4, <2>7, AppendDistinct
  <2> QED
    BY <2>1, <2>3, <2>6, <2>8 DEF Semaphore
<1> QED
  BY <1>2, <1>3

\* The head of the queue takes a permit.
LEMMA SemaphoreEnter ==
  ASSUME Shape, Semaphore, NEW r \in Rows, Enter(r)
  PROVE  Semaphore'
<1>1. r[1] \in Workers /\ r \in RowsOf(r[1]) /\ Workers' = Workers
  BY RowsOfWorkers DEF Shape, Workers, Enter
<1>2. row'[r].at = "calling" /\ \A q \in Rows \ {r} : row'[q] = row[q]
  BY DEF Enter, Shape, RowType
<1>3. \A w \in Workers :
        /\ waiters'[w] = IF w = r[1] THEN Tail(waiters[w]) ELSE waiters[w]
        /\ permits'[w] = IF w = r[1] THEN permits[w] - 1 ELSE permits[w]
  BY <1>1 DEF Enter, Shape
<1>4. r \in Waiting(r[1]) /\ r \notin Calling(r[1])
  BY <1>1 DEF Enter, Waiting, Calling
<1>5. \A w \in Workers : w # r[1] => r \notin Calling(w) /\ r \notin Waiting(w)
  BY DEF Calling, Waiting, RowsOf
<1>6. ASSUME NEW w \in Workers
      PROVE  /\ Calling(w)' = IF w = r[1] THEN Calling(w) \cup {r} ELSE Calling(w)
             /\ Waiting(w)' = IF w = r[1] THEN Waiting(w) \ {r} ELSE Waiting(w)
  <2>1. /\ Calling(w)' = IF w = r[1] THEN Calling(w) \cup {r} ELSE Calling(w) \ {r}
        /\ Waiting(w)' = Waiting(w) \ {r}
    BY <1>2, RowMoves DEF Enter
  <2> QED
    BY <1>5, <2>1
<1>7. waiters[r[1]] \in Seq(Rows) /\ waiters[r[1]] # << >> /\ Distinct(waiters[r[1]])
  BY <1>1, <1>4 DEF Shape, Semaphore, ToSet
<1>8. ToSet(Tail(waiters[r[1]])) = ToSet(waiters[r[1]]) \ {r} /\ Distinct(Tail(waiters[r[1]]))
  BY <1>7, TailDistinct DEF Enter
<1>9. Cardinality(Calling(r[1]) \cup {r}) = Cardinality(Calling(r[1])) + 1
      /\ Cardinality(Calling(r[1])) \in Nat
  BY <1>1, <1>4, RowSetsFinite, FS_AddElement
<1>10. permits[r[1]] \in Int /\ permits[r[1]] > 0 /\ config.concurrent \in Nat /\ config' = config
  BY <1>1, ConfigNumbers DEF Shape, Enter
<1>11. permits'[r[1]] >= 0 /\ permits'[r[1]] + Cardinality(Calling(r[1]) \cup {r}) = config.concurrent
  BY <1>1, <1>3, <1>9, <1>10 DEF Semaphore
<1>12. ASSUME NEW w \in Workers
       PROVE  /\ ToSet(waiters'[w]) = Waiting(w)' /\ Distinct(waiters'[w])
              /\ permits'[w] >= 0 /\ permits'[w] + Cardinality(Calling(w)') = config.concurrent
  <2>1. CASE w = r[1]
    BY <1>3, <1>6, <1>8, <1>11, <2>1 DEF Semaphore
  <2>2. CASE w # r[1]
    BY <1>3, <1>6, <2>2 DEF Semaphore
  <2> QED
    BY <2>1, <2>2
<1> QED
  BY <1>1, <1>10, <1>12 DEF Semaphore

\* A call that ends gives its permit back.
LEMMA SemaphoreReturn ==
  ASSUME Shape, Semaphore, NEW r \in Rows, row[r].at = "calling",
         NEW result, NEW thread, Return(r, result, thread)
  PROVE  Semaphore'
<1>1. r[1] \in Workers /\ r \in RowsOf(r[1]) /\ Workers' = Workers
  BY RowsOfWorkers DEF Shape, Workers, Return
<1>2. row'[r].at = "done" /\ \A q \in Rows \ {r} : row'[q] = row[q]
  BY DEF Return, Shape, RowType
<1>3. \A w \in Workers : permits'[w] = IF w = r[1] THEN permits[w] + 1 ELSE permits[w]
  BY <1>1 DEF Return, Released, Shape
<1>4. r \in Calling(r[1]) /\ r \notin Waiting(r[1])
  BY <1>1 DEF Waiting, Calling
<1>5. \A w \in Workers : w # r[1] => r \notin Calling(w) /\ r \notin Waiting(w)
  BY DEF Calling, Waiting, RowsOf
<1>6. ASSUME NEW w \in Workers
      PROVE  /\ Calling(w)' = IF w = r[1] THEN Calling(w) \ {r} ELSE Calling(w)
             /\ Waiting(w)' = Waiting(w)
  <2>1. Calling(w)' = Calling(w) \ {r} /\ Waiting(w)' = Waiting(w) \ {r}
    BY <1>2, RowMoves DEF Return
  <2> QED
    BY <1>4, <1>5, <2>1
<1>7. Cardinality(Calling(r[1]) \ {r}) = Cardinality(Calling(r[1])) - 1
      /\ Cardinality(Calling(r[1])) \in Nat
  BY <1>1, <1>4, RowSetsFinite, FS_RemoveElement
<1>8. permits[r[1]] \in Int /\ config.concurrent \in Nat /\ UNCHANGED <<config, waiters>>
  BY <1>1, ConfigNumbers DEF Shape, Return
<1>9. permits'[r[1]] >= 0 /\ permits'[r[1]] + Cardinality(Calling(r[1]) \ {r}) = config.concurrent
  BY <1>1, <1>3, <1>7, <1>8 DEF Semaphore
<1> QED
  BY <1>1, <1>3, <1>6, <1>8, <1>9 DEF Semaphore

\* One action at a time.
LEMMA SemaphoreStep == Shape /\ Semaphore /\ [Next]_vars => Semaphore'
<1> SUFFICES ASSUME Shape, Semaphore, [Next]_vars PROVE Semaphore'
  OBVIOUS
<1>1. ASSUME UNCHANGED <<config, row, waiters, permits>>
      PROVE  Semaphore'
  <2>1. Workers' = Workers /\ \A w \in Workers : RowsOf(w)' = RowsOf(w)
    BY <1>1 DEF Workers, Rows, RowsOf
  <2>2. \A w \in Workers : Waiting(w)' = Waiting(w) /\ Calling(w)' = Calling(w)
    BY <1>1, <2>1 DEF Waiting, Calling
  <2> QED
    BY <1>1, <2>1, <2>2 DEF Semaphore
<1>2. ASSUME NEW r \in Rows, Arrive(r) \/ Call(r) \/ ThreadEnds(r)
      PROVE  Semaphore'
  <2>1. \A q \in Rows \ {r} : row'[q] = row[q]
    BY <1>2 DEF Arrive, Call, ThreadEnds, Shape
  <2>2. CASE Arrive(r)
    <3>1. row[r].at = "away" /\ row'[r].at = "decode" /\ UNCHANGED <<config, waiters, permits>>
      BY <2>2 DEF Arrive, Shape, RowType
    <3> QED
      BY <2>1, <3>1, SemaphoreUntouched
  <2>3. CASE Call(r) \/ ThreadEnds(r)
    <3>1. row'[r].at = row[r].at
      BY <2>3 DEF Call, ThreadEnds, Shape, RowType
    <3> QED
      BY <2>1, <2>3, <3>1, SemaphoreUntouched DEF Call, ThreadEnds
  <2> QED
    BY <1>2, <2>2, <2>3
<1>3. ASSUME NEW r \in Rows, Decode(r)
      PROVE  Semaphore'
  BY <1>3, StagesReached, SemaphoreGo DEF Decode
<1>4. ASSUME NEW r \in Rows, NEW b \in Limiters, Acquire(r, b) \/ Reserve(r, b) \/ WakeUp(r, b)
      PROVE  Semaphore'
  <2>1. row[r].at \notin {"semaphore", "calling"} /\ UNCHANGED <<config, permits>>
    BY <1>4, StagesReached DEF Acquire, Reserve, WakeUp, Limiters
  <2>2. CASE Go(r, After(b))
    BY <2>1, <2>2, StagesReached, SemaphoreGo
  <2>3. CASE /\ waiters' = waiters
             /\ row' = [row EXCEPT ![r].wake = now + Missing(bucket[r[1]][b], config.cost[b])]
    <3>1. row'[r].at = row[r].at /\ \A q \in Rows \ {r} : row'[q] = row[q]
      BY <2>3 DEF Shape, RowType
    <3> QED
      BY <2>1, <2>3, <3>1, SemaphoreUntouched
  <2>4. CASE Reserve(r, b)
    <3>1. row'[r].at = Paid(b) /\ \A q \in Rows \ {r} : row'[q] = row[q]
      BY <2>4 DEF Reserve, Shape, RowType
    <3>2. row'[r].at \notin {"semaphore", "calling"} /\ UNCHANGED waiters
      BY <2>4, <3>1, StagesReached DEF Reserve
    <3> QED
      BY <2>1, <3>1, <3>2, SemaphoreUntouched
  <2> QED
    BY <1>4, <2>2, <2>3, <2>4 DEF Acquire, WakeUp
<1>5. ASSUME NEW r \in Rows, Answer(r) \/ TimeOut(r)
      PROVE  Semaphore'
  <2>1. \E result, thread : Return(r, result, thread) /\ row[r].at = "calling"
    BY <1>5 DEF Answer, TimeOut
  <2> QED
    BY <2>1, SemaphoreReturn
<1> QED
  BY <1>1, <1>2, <1>3, <1>4, <1>5, SemaphoreEnter DEF Next, Run, Limit, Tick, Join, vars

LEMMA SemaphoreInit == Init => Shape /\ Semaphore
<1>1. Init => Shape
  <2> SUFFICES ASSUME Init PROVE Shape
    OBVIOUS
  <2>1. Second \in Int /\ config.concurrent \in Int
    BY ConfigNumbers DEF Init
  <2>2. row \in [Rows -> RowType]
    BY DEF Init, RowType, Stages
  <2>3. bucket \in [Workers -> [Limiters -> [tokens : Int, last : Int]]]
    BY <2>1 DEF Init
  <2>4. granted \in [Workers -> [Limiters -> Seq(Int)]] /\ waiters \in [Workers -> Seq(Rows)]
    BY DEF Init
  <2> QED
    BY <2>1, <2>2, <2>3, <2>4 DEF Init, Shape
<1>2. Init => Semaphore
  <2> SUFFICES ASSUME Init, NEW w \in Workers
               PROVE  /\ ToSet(waiters[w]) = Waiting(w) /\ Distinct(waiters[w])
                      /\ permits[w] >= 0 /\ permits[w] + Cardinality(Calling(w)) = config.concurrent
    BY DEF Semaphore
  <2>1. \A r \in RowsOf(w) : row[r].at = "away"
    BY DEF Init, RowsOf
  <2>2. Waiting(w) = {} /\ Calling(w) = {}
    BY <2>1 DEF Waiting, Calling
  <2>3. waiters[w] = << >> /\ permits[w] = config.concurrent /\ config.concurrent \in Nat
    BY ConfigNumbers DEF Init
  <2>4. ToSet(<< >>) = {} /\ Distinct(<< >>)
    BY DEF ToSet, Distinct
  <2> QED
    BY <2>2, <2>3, <2>4, FS_EmptySet
<1> QED
  BY <1>1, <1>2

-----------------------------------------------------------------------------
(***************************************************************************)
(* The rate. While requests fit into the bucket, what has been granted     *)
(* since any grant and what the bucket holds now are together no more than *)
(* a full bucket and the time since. A larger request is granted when its  *)
(* sleep ends: sleeps end at least one request's time apart, and a request *)
(* that came now would end its sleep after all of them.                    *)
(***************************************************************************)
Balance(w, b) == Refilled(bucket[w][b])
Paying(w, b) == {r \in RowsOf(w) : row[r].at = Paid(b)}

\* The conditions on the times g of the grants, for requests of cost c.
Within(g, c, burst) ==
  \A i \in 1..Len(g) : \A j \in i..Len(g) : (j - i + 1) * c <= burst + (g[j] - g[i])
Spent(g, c, balance, t) ==
  \A i \in 1..Len(g) : (Len(g) - i + 1) * c + balance <= Second + (t - g[i])
Before(g, c, t) == \A i \in 1..Len(g) : g[i] + (Len(g) - i + 1) * c <= t

BucketOK(w, b) == bucket[w][b].tokens <= Second /\ bucket[w][b].last \in -1..now

SmallOK(w, b) ==
  config.cost[b] <= Second =>
    /\ bucket[w][b].tokens >= 0 /\ Paying(w, b) = {}
    /\ Spent(granted[w][b], config.cost[b], Balance(w, b), now)

LargeOK(w, b) ==
  config.cost[b] > Second =>
    /\ \A r \in Paying(w, b) : now <= row[r].wake /\ row[r].wake + Balance(w, b) <= now
    /\ \A r, q \in Paying(w, b) : r # q =>
         \/ row[r].wake + config.cost[b] <= row[q].wake
         \/ row[q].wake + config.cost[b] <= row[r].wake
    /\ \A r \in Paying(w, b) : Before(granted[w][b], config.cost[b], row[r].wake)
    /\ Before(granted[w][b], config.cost[b], now + config.cost[b] - Balance(w, b))

PassedOK(w, b) ==
  Within(granted[w][b], config.cost[b], Larger(Second, config.cost[b]))

WaitOK(w, b) ==
  \A r \in RowsOf(w) : row[r].at = b /\ row[r].wake > now =>
    Balance(w, b) + (row[r].wake - now) <= config.cost[b]

RateInv(w, b) ==
  BucketOK(w, b) /\ SmallOK(w, b) /\ LargeOK(w, b) /\ PassedOK(w, b) /\ WaitOK(w, b)

\* A list of times with one more.
LEMMA OneMore ==
  ASSUME NEW g \in Seq(Int), NEW t \in Int
  PROVE  /\ Append(g, t) \in Seq(Int) /\ Len(g) \in Nat /\ Len(Append(g, t)) = Len(g) + 1
         /\ \A i \in 1..Len(g) : Append(g, t)[i] = g[i] /\ g[i] \in Int
         /\ Append(g, t)[Len(g) + 1] = t
         /\ \A i \in 1..(Len(g) + 1) : i \in 1..Len(g) \/ i = Len(g) + 1
  OBVIOUS

\* One more grant costs once more.
LEMMA OnceMore ==
  ASSUME NEW m \in Int, NEW c \in Int
  PROVE  (m + 1) * c = m * c + c /\ 1 * c = c /\ m * c \in Int
  OBVIOUS

\* A grant stays within the rate if all those before it leave room for it.
LEMMA GrantWithin ==
  ASSUME NEW g \in Seq(Int), NEW t \in Int, NEW c \in Nat, NEW burst \in Int, c <= burst,
         Within(g, c, burst),
         \A i \in 1..Len(g) : (Len(g) - i + 2) * c <= burst + (t - g[i])
  PROVE  Within(Append(g, t), c, burst)
<1> DEFINE h == Append(g, t)
<1> SUFFICES ASSUME NEW i \in 1..Len(h), NEW j \in i..Len(h)
             PROVE  (j - i + 1) * c <= burst + (h[j] - h[i])
  BY DEF Within
<1>1. Len(h) = Len(g) + 1 /\ Len(g) \in Nat
  BY OneMore
<1>2. CASE j \in i..Len(g)
  <2>1. i \in 1..Len(g) /\ j \in 1..Len(g)
    BY <1>1, <1>2
  <2>2. h[i] = g[i] /\ h[j] = g[j]
    BY <2>1, OneMore
  <2> QED
    BY <1>2, <2>1, <2>2 DEF Within
<1>3. CASE j = Len(g) + 1 /\ i \in 1..Len(g)
  <2>1. h[i] = g[i] /\ h[j] = t
    BY <1>3, OneMore
  <2>2. j - i + 1 = Len(g) - i + 2
    BY <1>1, <1>3
  <2> QED
    BY <1>3, <2>1, <2>2
<1>4. CASE j = Len(g) + 1 /\ i = Len(g) + 1
  <2>1. h[i] = t /\ h[j] = t /\ j - i + 1 = 1
    BY <1>1, <1>4, OneMore
  <2> QED
    BY <2>1
<1> QED
  BY <1>1, <1>2, <1>3, <1>4

\* A grant paid from the bucket.
LEMMA GrantSpent ==
  ASSUME NEW g \in Seq(Int), NEW t \in Int, NEW c \in Nat, NEW balance \in Int,
         balance <= Second, Spent(g, c, balance, t)
  PROVE  Spent(Append(g, t), c, balance - c, t)
<1> DEFINE h == Append(g, t)
<1> SUFFICES ASSUME NEW i \in 1..Len(h)
             PROVE  (Len(h) - i + 1) * c + (balance - c) <= Second + (t - h[i])
  BY DEF Spent
<1>0. Second \in Nat
  BY LimiterAssumption
<1>1. Len(h) = Len(g) + 1 /\ Len(g) \in Nat
  BY OneMore
<1>2. CASE i \in 1..Len(g)
  <2>1. h[i] = g[i] /\ g[i] \in Int
    BY <1>2, OneMore
  <2>2. Len(h) - i + 1 = (Len(g) - i + 1) + 1 /\ Len(g) - i + 1 \in Int
    BY <1>1, <1>2
  <2>3. ((Len(g) - i + 1) + 1) * c = (Len(g) - i + 1) * c + c /\ (Len(g) - i + 1) * c \in Int
    BY <2>2, OnceMore
  <2>4. (Len(g) - i + 1) * c + balance <= Second + (t - g[i])
    BY <1>2 DEF Spent
  <2> QED
    BY <1>0, <2>1, <2>2, <2>3, <2>4
<1>3. CASE i = Len(g) + 1
  <2>1. h[i] = t /\ Len(h) - i + 1 = 1
    BY <1>1, <1>3, OneMore
  <2> QED
    BY <1>0, <2>1, SMTT(20)
<1> QED
  BY <1>1, <1>2, <1>3

\* A grant at the end of a sleep, before a time at least one request later.
LEMMA GrantBefore ==
  ASSUME NEW g \in Seq(Int), NEW t \in Int, NEW c \in Nat, NEW u \in Int,
         t + c <= u, Before(g, c, t)
  PROVE  Before(Append(g, t), c, u)
<1> DEFINE h == Append(g, t)
<1> SUFFICES ASSUME NEW i \in 1..Len(h)
             PROVE  h[i] + (Len(h) - i + 1) * c <= u
  BY DEF Before
<1>1. Len(h) = Len(g) + 1 /\ Len(g) \in Nat
  BY OneMore
<1>2. CASE i \in 1..Len(g)
  <2>1. h[i] = g[i] /\ g[i] \in Int
    BY <1>2, OneMore
  <2>2. Len(h) - i + 1 = (Len(g) - i + 1) + 1 /\ Len(g) - i + 1 \in Int
    BY <1>1, <1>2
  <2>3. ((Len(g) - i + 1) + 1) * c = (Len(g) - i + 1) * c + c /\ (Len(g) - i + 1) * c \in Int
    BY <2>2, OnceMore
  <2>4. g[i] + (Len(g) - i + 1) * c <= t
    BY <1>2 DEF Before
  <2> QED
    BY <2>1, <2>2, <2>3, <2>4
<1>3. CASE i = Len(g) + 1
  <2>1. h[i] = t /\ Len(h) - i + 1 = 1
    BY <1>1, <1>3, OneMore
  <2> QED
    BY <2>1
<1> QED
  BY <1>1, <1>2, <1>3


\* Both leave room for one more grant.
LEMMA RoomSpent ==
  ASSUME NEW g \in Seq(Int), NEW t \in Int, NEW c \in Nat, NEW balance \in Int,
         c <= balance, c <= Second, Spent(g, c, balance, t), Within(g, c, Second)
  PROVE  Within(Append(g, t), c, Second)
<1>1. ASSUME NEW i \in 1..Len(g)
      PROVE  (Len(g) - i + 2) * c <= Second + (t - g[i])
  <2>1. (Len(g) - i + 1) * c + balance <= Second + (t - g[i]) /\ g[i] \in Int /\ Len(g) \in Nat
    BY DEF Spent
  <2>2. Len(g) - i + 1 \in Int /\ Len(g) - i + 2 = (Len(g) - i + 1) + 1
    BY <2>1
  <2>3. (Len(g) - i + 2) * c = (Len(g) - i + 1) * c + c /\ (Len(g) - i + 1) * c \in Int
    BY <2>2, OnceMore
  <2> QED
    BY <2>1, <2>3, LimiterAssumption
<1> QED
  BY <1>1, GrantWithin, LimiterAssumption

LEMMA RoomBefore ==
  ASSUME NEW g \in Seq(Int), NEW t \in Int, NEW c \in Nat, Before(g, c, t), Within(g, c, c)
  PROVE  Within(Append(g, t), c, c)
<1>1. ASSUME NEW i \in 1..Len(g)
      PROVE  (Len(g) - i + 2) * c <= c + (t - g[i])
  <2>1. g[i] + (Len(g) - i + 1) * c <= t /\ g[i] \in Int /\ Len(g) \in Nat
    BY DEF Before
  <2>2. Len(g) - i + 1 \in Int /\ Len(g) - i + 2 = (Len(g) - i + 1) + 1
    BY <2>1
  <2>3. (Len(g) - i + 2) * c = (Len(g) - i + 1) * c + c /\ (Len(g) - i + 1) * c \in Int
    BY <2>2, OnceMore
  <2> QED
    BY <2>1, <2>3
<1> QED
  BY <1>1, GrantWithin

\* A later time only leaves more room.
LEMMA BeforeLater ==
  ASSUME NEW g \in Seq(Int), NEW c \in Nat, NEW t \in Int, NEW u \in Int, t <= u, Before(g, c, t)
  PROVE  Before(g, c, u)
<1> SUFFICES ASSUME NEW i \in 1..Len(g) PROVE g[i] + (Len(g) - i + 1) * c <= u
  BY DEF Before
<1>1. g[i] \in Int /\ Len(g) \in Nat /\ g[i] + (Len(g) - i + 1) * c <= t
  BY DEF Before
<1>2. (Len(g) - i + 1) * c \in Int
  BY <1>1, OnceMore
<1> QED
  BY <1>1, <1>2

\* So does a smaller balance, and one that grows no faster than the time.
LEMMA SpentLess ==
  ASSUME NEW g \in Seq(Int), NEW c \in Nat, NEW x \in Int, NEW y \in Int, NEW t \in Int, NEW u \in Int,
         y - x <= u - t, Spent(g, c, x, t)
  PROVE  Spent(g, c, y, u)
<1> SUFFICES ASSUME NEW i \in 1..Len(g)
             PROVE  (Len(g) - i + 1) * c + y <= Second + (u - g[i])
  BY DEF Spent
<1>1. g[i] \in Int /\ Len(g) \in Nat /\ Second \in Nat
      /\ (Len(g) - i + 1) * c + x <= Second + (t - g[i])
  BY LimiterAssumption DEF Spent
<1>2. (Len(g) - i + 1) * c \in Int
  BY <1>1, OnceMore
<1> QED
  BY <1>1, <1>2

\* A bucket that has just been updated holds what was written.
LEMMA JustUpdated ==
  ASSUME NEW k, k.last = now, k.tokens \in Int, k.tokens <= Second, now \in Nat
  PROVE  Refilled(k) = k.tokens
  BY LimiterAssumption DEF Refilled, Gained, Smaller

\* The types of all that the rate depends on.
LEMMA RateTypes ==
  ASSUME Shape, NEW w \in Workers, NEW b \in Limiters
  PROVE  /\ config.cost[b] \in Nat /\ Second \in Nat \ {0} /\ now \in Nat
         /\ granted[w][b] \in Seq(Int) /\ Balance(w, b) \in Int /\ Balance(w, b) <= Second
         /\ bucket[w][b].tokens \in Int /\ bucket[w][b].last \in Int
         /\ \A r \in RowsOf(w) : r \in Rows /\ row[r].wake \in Int
<1>1. config.cost[b] \in Nat /\ Second \in Nat \ {0}
  BY ConfigNumbers DEF Shape
<1>2. bucket[w][b] \in [tokens : Int, last : Int] /\ granted[w][b] \in Seq(Int) /\ now \in Nat
  BY DEF Shape
<1>3. \A r \in RowsOf(w) : r \in Rows /\ row[r] \in RowType
  BY DEF RowsOf, Shape
<1> QED
  BY <1>1, <1>2, <1>3, RefillBounds DEF Balance, RowType

\* What a step leaves alone: the bucket, its grants and the rows at it.
LEMMA RateUntouched ==
  ASSUME Shape, NEW w \in Workers, NEW b \in Limiters, RateInv(w, b),
         UNCHANGED <<config, now>>,
         bucket'[w][b] = bucket[w][b], granted'[w][b] = granted[w][b],
         \A r \in RowsOf(w) : row'[r].at = Paid(b) =>
           row[r].at = Paid(b) /\ row'[r].wake = row[r].wake,
         \A r \in RowsOf(w) : row'[r].at = b /\ row'[r].wake > now =>
           row[r].at = b /\ row'[r].wake = row[r].wake
  PROVE  RateInv(w, b)'
<1>1. RowsOf(w)' = RowsOf(w) /\ config.cost[b]' = config.cost[b]
  BY DEF RowsOf, Rows, Workers
<1>2. Balance(w, b)' = Balance(w, b)
  BY DEF Balance, Refilled, Gained
<1>3. \A r \in Paying(w, b)' : r \in Paying(w, b) /\ row'[r].wake = row[r].wake
  BY <1>1 DEF Paying
<1>4. BucketOK(w, b)' /\ PassedOK(w, b)'
  BY <1>1 DEF RateInv, BucketOK, PassedOK, Within
<1>5. SmallOK(w, b)'
  BY <1>1, <1>2, <1>3 DEF RateInv, SmallOK, Spent
<1>6. LargeOK(w, b)'
  BY <1>1, <1>2, <1>3 DEF RateInv, LargeOK, Before
<1>7. WaitOK(w, b)'
  BY <1>1, <1>2 DEF RateInv, WaitOK
<1> QED
  BY <1>4, <1>5, <1>6, <1>7 DEF RateInv


\* A tick refills every bucket by one, and no sleeper oversleeps it.
LEMMA RateTick ==
  ASSUME Shape, NEW w \in Workers, NEW b \in Limiters, RateInv(w, b), Tick
  PROVE  RateInv(w, b)'
<1> DEFINE C == config.cost[b]
           B == Balance(w, b)
<1>0. /\ C \in Nat /\ Second \in Nat \ {0} /\ now \in Nat /\ granted[w][b] \in Seq(Int)
      /\ B \in Int /\ \A r \in RowsOf(w) : r \in Rows /\ row[r].wake \in Int
  BY RateTypes
<1>1. RowsOf(w)' = RowsOf(w) /\ config' = config /\ now' = now + 1
      /\ UNCHANGED <<row, bucket, granted>>
  BY DEF Tick, RowsOf, Rows, Workers
<1>2. B' \in Int /\ B' <= B + 1
  <2>1. bucket[w][b].tokens \in Int /\ bucket[w][b].last \in Int
    BY RateTypes
  <2>2. Gained(bucket[w][b]) \in Int /\ Gained(bucket[w][b])' \in Int
        /\ Gained(bucket[w][b])' <= Gained(bucket[w][b]) + 1
    BY <1>0, <1>1, <2>1 DEF Gained
  <2> QED
    BY <1>0, <1>1, <2>1, <2>2 DEF Balance, Refilled, Smaller
<1>3. Paying(w, b)' = Paying(w, b)
  BY <1>1 DEF Paying
<1>4. BucketOK(w, b)' /\ PassedOK(w, b)'
  BY <1>0, <1>1 DEF RateInv, BucketOK, PassedOK, Within
<1>5. SmallOK(w, b)'
  <2> SUFFICES ASSUME C <= Second
               PROVE  bucket[w][b].tokens >= 0 /\ Paying(w, b) = {}
                      /\ Spent(granted[w][b], C, B', now + 1)
    BY <1>1, <1>3 DEF SmallOK, Spent
  <2>1. bucket[w][b].tokens >= 0 /\ Paying(w, b) = {} /\ Spent(granted[w][b], C, B, now)
    BY DEF RateInv, SmallOK
  <2>2. B' - B <= (now + 1) - now /\ now + 1 \in Int
    BY <1>0, <1>2
  <2>3. Spent(granted[w][b], C, B', now + 1)
    BY <1>0, <1>2, <2>1, <2>2, SpentLess
  <2> QED
    BY <2>1, <2>3
<1>6. LargeOK(w, b)'
  <2> SUFFICES ASSUME C > Second
               PROVE  /\ \A r \in Paying(w, b) : now + 1 <= row[r].wake /\ row[r].wake + B' <= now + 1
                      /\ \A r, q \in Paying(w, b) : r # q =>
                           row[r].wake + C <= row[q].wake \/ row[q].wake + C <= row[r].wake
                      /\ \A r \in Paying(w, b) : Before(granted[w][b], C, row[r].wake)
                      /\ Before(granted[w][b], C, now + 1 + C - B')
    BY <1>1, <1>3 DEF LargeOK, Before
  <2>1. ASSUME NEW r \in Paying(w, b)
        PROVE  now + 1 <= row[r].wake /\ row[r].wake + B' <= now + 1
    <3>1. r \in Rows /\ row[r].wake \in Int /\ row[r].at \in {"paid_rpm", "paid_tpm"}
      BY <1>0, StagesReached DEF Paying
    <3>2. ~(row[r].wake <= now)
      BY <3>1 DEF Tick, Due
    <3>3. row[r].wake + B <= now
      BY DEF RateInv, LargeOK
    <3> QED
      BY <1>0, <1>2, <3>1, <3>2, <3>3
  <2>2. Before(granted[w][b], C, now + C - B)
    BY DEF RateInv, LargeOK
  <2>3. Before(granted[w][b], C, now + 1 + C - B')
    <3>1. now + C - B \in Int /\ now + 1 + C - B' \in Int /\ now + C - B <= now + 1 + C - B'
      BY <1>0, <1>2, SMTT(20)
    <3> QED
      BY <1>0, <2>2, <3>1, BeforeLater
  <2> QED
    BY <2>1, <2>3 DEF RateInv, LargeOK
<1>7. WaitOK(w, b)'
  <2> SUFFICES ASSUME NEW r \in RowsOf(w), row[r].at = b, row[r].wake > now + 1
               PROVE  B' + (row[r].wake - (now + 1)) <= C
    BY <1>1 DEF WaitOK
  <2>1. row[r].wake \in Int /\ row[r].wake > now
    BY <1>0
  <2>2. B + (row[r].wake - now) <= C
    BY <2>1 DEF RateInv, WaitOK
  <2> QED
    BY <1>0, <1>2, <2>1, <2>2
<1> QED
  BY <1>4, <1>5, <1>6, <1>7 DEF RateInv

\* The rows of a worker when one of them has moved.
LEMMA PayingMoves ==
  ASSUME Shape, NEW r \in Rows, config' = config, \A q \in Rows \ {r} : row'[q] = row[q],
         NEW b \in Limiters
  PROVE  /\ RowsOf(r[1])' = RowsOf(r[1]) /\ r \in RowsOf(r[1]) /\ r[1] \in Workers
         /\ Paying(r[1], b)' = IF row'[r].at = Paid(b)
                               THEN Paying(r[1], b) \cup {r} ELSE Paying(r[1], b) \ {r}
         /\ \A q \in Paying(r[1], b) : q \in Rows
<1>1. RowsOf(r[1])' = RowsOf(r[1]) /\ r \in RowsOf(r[1]) /\ r[1] \in Workers
  BY RowsOfWorkers DEF RowsOf, Rows, Workers, Shape
<1>2. \A q \in RowsOf(r[1]) : q \in Rows
  BY DEF RowsOf
<1>3. Paying(r[1], b)' = {q \in RowsOf(r[1]) : row'[q].at = Paid(b)}
  BY <1>1 DEF Paying, Paid
<1>4. Paying(r[1], b)' = IF row'[r].at = Paid(b)
                         THEN Paying(r[1], b) \cup {r} ELSE Paying(r[1], b) \ {r}
  BY <1>1, <1>2, <1>3 DEF Paying
<1> QED
  BY <1>1, <1>2, <1>4 DEF Paying


\* A request that the bucket can hold: granted at once, or tried again later.
LEMMA RateAcquire ==
  ASSUME Shape, NEW r \in Rows, NEW b \in Limiters, RateInv(r[1], b), Acquire(r, b)
  PROVE  RateInv(r[1], b)'
<1> DEFINE w == r[1]
           g == granted[w][b]
           C == config.cost[b]
           B == Balance(w, b)
<1>0. /\ C \in Nat /\ Second \in Nat \ {0} /\ now \in Nat /\ g \in Seq(Int)
      /\ B \in Int /\ B <= Second /\ w \in Workers
      /\ \A q \in RowsOf(w) : q \in Rows /\ row[q].wake \in Int
  <2>1. w \in Workers
    BY RowsOfWorkers DEF Shape
  <2> QED
    BY <2>1, RateTypes
<1>1. C \in 1..Second /\ UNCHANGED <<config, now>> /\ row[r].at = b
  BY DEF Acquire
<1>2. Paid(b) # b /\ After(b) # b /\ After(b) # Paid(b)
  BY DEF Paid, After, Limiters
<1>3. Paying(w, b) = {} /\ Spent(g, C, B, now) /\ Within(g, C, Second)
  BY <1>0, <1>1 DEF RateInv, SmallOK, PassedOK, Larger
<1>4. CASE B >= C
  <2>1. /\ bucket' = [bucket EXCEPT ![w][b] = [Filled(bucket[w][b]) EXCEPT !.tokens = @ - C]]
        /\ granted' = [granted EXCEPT ![w][b] = Append(@, now)]
        /\ Go(r, After(b))
    BY <1>4 DEF Acquire, Balance
  <2>2. /\ bucket'[w][b].tokens = B - C /\ bucket'[w][b].last = now
        /\ granted'[w][b] = Append(g, now)
    BY <1>0, <2>1 DEF Shape, Filled, Balance
  <2>3. row'[r].at = After(b) /\ \A q \in Rows \ {r} : row'[q] = row[q]
    BY <2>1, StagesReached, GoShape DEF Stages
  <2>4. RowsOf(w)' = RowsOf(w) /\ Paying(w, b)' = {}
    BY <1>1, <1>2, <1>3, <2>3, PayingMoves
  <2>5. Balance(w, b)' = B - C
    BY <1>0, <1>1, <1>4, <2>2 DEF Balance, Refilled, Gained, Smaller
  <2>6. BucketOK(w, b)'
    BY <1>0, <1>1, <2>2 DEF BucketOK
  <2>7. SmallOK(w, b)'
    <3>1. Spent(Append(g, now), C, B - C, now)
      BY <1>0, <1>3, GrantSpent
    <3>2. bucket'[w][b].tokens >= 0
      BY <1>0, <1>4, <2>2
    <3> QED
      BY <1>1, <2>2, <2>4, <2>5, <3>1, <3>2 DEF SmallOK, Spent
  <2>8. LargeOK(w, b)'
    BY <1>0, <1>1 DEF LargeOK
  <2>9. PassedOK(w, b)'
    <3>1. Within(Append(g, now), C, Second)
      BY <1>0, <1>1, <1>3, <1>4, RoomSpent
    <3>2. Larger(Second, C) = Second
      BY <1>0, <1>1 DEF Larger
    <3> QED
      BY <1>1, <2>2, <3>1, <3>2, Zenon DEF PassedOK, Within
  <2>10. WaitOK(w, b)'
    <3> SUFFICES ASSUME NEW q \in RowsOf(w), row'[q].at = b, row'[q].wake > now
                 PROVE  (B - C) + (row'[q].wake - now) <= C
      BY <1>1, <2>4, <2>5 DEF WaitOK
    <3>1. q # r /\ q \in Rows /\ row'[q] = row[q]
      BY <1>0, <1>2, <2>3
    <3>2. B + (row[q].wake - now) <= C /\ row[q].wake \in Int
      BY <1>0, <3>1 DEF RateInv, WaitOK
    <3> QED
      BY <1>0, <3>1, <3>2
  <2> QED
    BY <2>6, <2>7, <2>8, <2>9, <2>10 DEF RateInv
<1>5. CASE ~(B >= C)
  <2>1. /\ bucket' = [bucket EXCEPT ![w][b] = Filled(bucket[w][b])]
        /\ row' = [row EXCEPT ![r].wake = now + Missing(bucket[w][b], C)]
        /\ UNCHANGED granted
    BY <1>5 DEF Acquire, Balance
  <2>2. bucket'[w][b].tokens = B /\ bucket'[w][b].last = now
    BY <1>0, <2>1 DEF Shape, Filled, Balance
  <2>3. /\ row'[r].at = b /\ row'[r].wake = now + (C - B)
        /\ \A q \in Rows \ {r} : row'[q] = row[q]
    BY <1>1, <2>1 DEF Shape, RowType, Missing, Balance
  <2>4. RowsOf(w)' = RowsOf(w) /\ Paying(w, b)' = {}
    BY <1>1, <1>2, <1>3, <2>3, PayingMoves
  <2>5. Balance(w, b)' = B
    BY <1>0, <1>1, <2>2 DEF Balance, Refilled, Gained, Smaller
  <2>6. BucketOK(w, b)'
    BY <1>0, <1>1, <2>2 DEF BucketOK
  <2>7. SmallOK(w, b)'
    <3>1. bucket'[w][b].tokens >= 0
      <4>1. bucket[w][b].tokens >= 0 /\ bucket[w][b].tokens \in Int /\ bucket[w][b].last \in -1..now
        BY <1>0, <1>1, RateTypes DEF RateInv, SmallOK, BucketOK
      <4> QED
        BY <1>0, <2>2, <4>1 DEF Balance, Refilled, Gained, Smaller
    <3> QED
      BY <1>1, <1>3, <2>1, <2>4, <2>5, <3>1 DEF SmallOK, Spent
  <2>8. LargeOK(w, b)'
    BY <1>0, <1>1 DEF LargeOK
  <2>9. PassedOK(w, b)'
    BY <1>1, <2>1 DEF RateInv, PassedOK, Within
  <2>10. WaitOK(w, b)'
    <3> SUFFICES ASSUME NEW q \in RowsOf(w), row'[q].at = b, row'[q].wake > now
                 PROVE  B + (row'[q].wake - now) <= C
      BY <1>1, <2>4, <2>5 DEF WaitOK
    <3>1. CASE q = r
      BY <1>0, <2>3, <3>1
    <3>2. CASE q # r
      BY <1>0, <2>3, <3>2 DEF RateInv, WaitOK
    <3> QED
      BY <3>1, <3>2
  <2> QED
    BY <2>6, <2>7, <2>8, <2>9, <2>10 DEF RateInv
<1> QED
  BY <1>4, <1>5

\* A request larger than the bucket: paid now, granted when its sleep ends.
LEMMA RateReserve ==
  ASSUME Shape, NEW r \in Rows, NEW b \in Limiters, RateInv(r[1], b), Reserve(r, b)
  PROVE  RateInv(r[1], b)'
<1> DEFINE w == r[1]
           g == granted[w][b]
           C == config.cost[b]
           B == Balance(w, b)
<1>0. /\ C \in Nat /\ Second \in Nat \ {0} /\ now \in Nat /\ g \in Seq(Int)
      /\ B \in Int /\ B <= Second /\ w \in Workers
      /\ \A q \in RowsOf(w) : q \in Rows /\ row[q].wake \in Int
  <2>1. w \in Workers
    BY RowsOfWorkers DEF Shape
  <2> QED
    BY <2>1, RateTypes
<1>1. C > Second /\ UNCHANGED <<config, now, granted>> /\ row[r].at = b
  BY DEF Reserve
<1>2. Paid(b) # b
  BY DEF Paid, Limiters
<1>3. bucket'[w][b].tokens = B - C /\ bucket'[w][b].last = now
  BY <1>0 DEF Reserve, Shape, Filled, Balance
<1>4. /\ row'[r].at = Paid(b) /\ row'[r].wake = now + (C - B)
      /\ \A q \in Rows \ {r} : row'[q] = row[q]
  BY DEF Reserve, Shape, RowType, Missing, Balance
<1>5. /\ RowsOf(w)' = RowsOf(w) /\ Paying(w, b)' = Paying(w, b) \cup {r}
      /\ \A q \in Paying(w, b) : q # r /\ row'[q] = row[q] /\ row[q].wake \in Int
  <2>1. \A q \in Paying(w, b) : q \in RowsOf(w) /\ q \in Rows /\ q # r
    BY <1>0, <1>1, <1>2 DEF Paying
  <2> QED
    BY <1>0, <1>1, <1>4, <2>1, PayingMoves
<1>6. Balance(w, b)' = B - C
  BY <1>0, <1>1, <1>3 DEF Balance, Refilled, Gained, Smaller
<1>7. /\ \A q \in Paying(w, b) : now <= row[q].wake /\ row[q].wake + B <= now
      /\ \A p, q \in Paying(w, b) : p # q =>
           row[p].wake + C <= row[q].wake \/ row[q].wake + C <= row[p].wake
      /\ \A q \in Paying(w, b) : Before(g, C, row[q].wake)
      /\ Before(g, C, now + C - B)
  BY <1>1 DEF RateInv, LargeOK
<1>8. BucketOK(w, b)' /\ PassedOK(w, b)'
  BY <1>0, <1>1, <1>3 DEF RateInv, BucketOK, PassedOK, Within
<1>9. SmallOK(w, b)'
  BY <1>0, <1>1 DEF SmallOK
<1>10. LargeOK(w, b)'
  <2>1. \A q \in Paying(w, b)' : now <= row'[q].wake /\ row'[q].wake + (B - C) <= now
    BY <1>0, <1>1, <1>4, <1>5, <1>7
  <2>2. \A p, q \in Paying(w, b)' : p # q =>
          row'[p].wake + C <= row'[q].wake \/ row'[q].wake + C <= row'[p].wake
    <3>1. \A q \in Paying(w, b) : row'[q].wake + C <= row'[r].wake
      BY <1>0, <1>4, <1>5, <1>7
    <3> QED
      BY <1>5, <1>7, <3>1
  <2>3. \A q \in Paying(w, b)' : Before(g, C, row'[q].wake)
    <3>1. now + (C - B) = now + C - B
      BY <1>0
    <3> QED
      BY <1>4, <1>5, <1>7, <3>1
  <2>4. Before(g, C, now + C - (B - C))
    <3>1. now + C - B \in Int /\ now + C - (B - C) \in Int /\ now + C - B <= now + C - (B - C)
      BY <1>0
    <3> QED
      BY <1>0, <1>7, <3>1, BeforeLater
  <2> QED
    BY <1>1, <1>6, <2>1, <2>2, <2>3, <2>4 DEF LargeOK, Before
<1>11. WaitOK(w, b)'
  <2> SUFFICES ASSUME NEW q \in RowsOf(w), row'[q].at = b, row'[q].wake > now
               PROVE  (B - C) + (row'[q].wake - now) <= C
    BY <1>1, <1>5, <1>6 DEF WaitOK
  <2>1. q # r /\ q \in Rows /\ row'[q] = row[q]
    BY <1>0, <1>2, <1>4
  <2>2. B + (row[q].wake - now) <= C /\ row[q].wake \in Int
    BY <1>0, <2>1 DEF RateInv, WaitOK
  <2> QED
    BY <1>0, <2>1, <2>2
<1> QED
  BY <1>8, <1>9, <1>10, <1>11 DEF RateInv

\* The end of a sleep.
LEMMA RateWakeUp ==
  ASSUME Shape, NEW r \in Rows, NEW b \in Limiters, RateInv(r[1], b), WakeUp(r, b)
  PROVE  RateInv(r[1], b)'
<1> DEFINE w == r[1]
           g == granted[w][b]
           C == config.cost[b]
           B == Balance(w, b)
<1>0. /\ C \in Nat /\ Second \in Nat \ {0} /\ now \in Nat /\ g \in Seq(Int)
      /\ B \in Int /\ B <= Second /\ w \in Workers /\ r \in RowsOf(w)
      /\ \A q \in RowsOf(w) : q \in Rows /\ row[q].wake \in Int
  <2>1. w \in Workers /\ r \in RowsOf(w)
    BY RowsOfWorkers DEF Shape
  <2> QED
    BY <2>1, RateTypes
<1>1. /\ UNCHANGED <<config, now, bucket>> /\ row[r].at = Paid(b) /\ row[r].wake <= now
      /\ granted' = [granted EXCEPT ![w][b] = Append(@, now)] /\ Go(r, After(b))
  BY DEF WakeUp
<1>2. After(b) # b /\ After(b) # Paid(b)
  BY DEF Paid, After, Limiters
<1>3. r \in Paying(w, b)
  BY <1>0, <1>1 DEF Paying
<1>4. C > Second
  BY <1>0, <1>3 DEF RateInv, SmallOK
<1>5. granted'[w][b] = Append(g, now)
  BY <1>0, <1>1 DEF Shape
<1>6. row'[r].at = After(b) /\ \A q \in Rows \ {r} : row'[q] = row[q]
  BY <1>1, StagesReached, GoShape DEF Stages
<1>7. /\ RowsOf(w)' = RowsOf(w) /\ Paying(w, b)' = Paying(w, b) \ {r}
      /\ \A q \in Paying(w, b) \ {r} : row'[q] = row[q] /\ row[q].wake \in Int
  BY <1>0, <1>1, <1>2, <1>6, PayingMoves DEF Paying
<1>8. Balance(w, b)' = B
  BY <1>1 DEF Balance, Refilled, Gained
<1>9. /\ \A q \in Paying(w, b) : now <= row[q].wake /\ row[q].wake + B <= now
      /\ \A p, q \in Paying(w, b) : p # q =>
           row[p].wake + C <= row[q].wake \/ row[q].wake + C <= row[p].wake
      /\ Before(g, C, row[r].wake)
  BY <1>3, <1>4 DEF RateInv, LargeOK
<1>10. row[r].wake = now /\ B <= 0
  BY <1>0, <1>1, <1>3, <1>9
<1>11. \A q \in Paying(w, b) \ {r} : now + C <= row[q].wake
  BY <1>0, <1>3, <1>4, <1>7, <1>9, <1>10, SMTT(20)
<1>12. BucketOK(w, b)'
  BY <1>1 DEF RateInv, BucketOK
<1>13. SmallOK(w, b)'
  BY <1>0, <1>1, <1>4 DEF SmallOK
<1>14. LargeOK(w, b)'
  <2>1. \A q \in Paying(w, b)' : Before(Append(g, now), C, row'[q].wake)
    <3> SUFFICES ASSUME NEW q \in Paying(w, b) \ {r} PROVE Before(Append(g, now), C, row[q].wake)
      BY <1>7
    <3>1. row[q].wake \in Int /\ now + C <= row[q].wake /\ now \in Int
      BY <1>0, <1>7, <1>11
    <3> QED
      BY <1>0, <1>9, <1>10, <3>1, GrantBefore
  <2>2. Before(Append(g, now), C, now + C - B)
    <3>1. now + C - B \in Int /\ now + C <= now + C - B /\ now \in Int
      BY <1>0, <1>10
    <3> QED
      BY <1>0, <1>9, <1>10, <3>1, GrantBefore
  <2>3. \A q \in Paying(w, b)' : now <= row'[q].wake /\ row'[q].wake + B <= now
    BY <1>7, <1>9
  <2>4. \A p, q \in Paying(w, b)' : p # q =>
          row'[p].wake + C <= row'[q].wake \/ row'[q].wake + C <= row'[p].wake
    BY <1>7, <1>9
  <2> QED
    BY <1>1, <1>5, <1>8, <2>1, <2>2, <2>3, <2>4 DEF LargeOK, Before
<1>15. PassedOK(w, b)'
  <2>1. Within(g, C, C)
    BY <1>0, <1>4 DEF RateInv, PassedOK, Larger
  <2>2. Within(Append(g, now), C, C)
    BY <1>0, <1>9, <1>10, <2>1, RoomBefore
  <2>3. Larger(Second, C) = C
    BY <1>0, <1>4 DEF Larger
  <2> QED
    BY <1>1, <1>5, <2>2, <2>3 DEF PassedOK, Within
<1>16. WaitOK(w, b)'
  <2> SUFFICES ASSUME NEW q \in RowsOf(w), row'[q].at = b, row'[q].wake > now
               PROVE  B + (row'[q].wake - now) <= C
    BY <1>1, <1>7, <1>8 DEF WaitOK
  <2>1. q # r /\ q \in Rows /\ row'[q] = row[q]
    BY <1>0, <1>2, <1>6
  <2> QED
    BY <2>1 DEF RateInv, WaitOK
<1> QED
  BY <1>12, <1>13, <1>14, <1>15, <1>16 DEF RateInv


\* One action at a time.
LEMMA RateStep ==
  ASSUME Shape, [Next]_vars, NEW w \in Workers, NEW b \in Limiters, RateInv(w, b)
  PROVE  RateInv(w, b)'
<1>0. Paid(b) \notin Limiters /\ Paid(b) \notin {"away", "decode", "semaphore", "calling", "done"}
      /\ b \notin {"away", "decode", "semaphore", "calling", "done"}
  BY DEF Paid, Limiters
<1>1. ASSUME NEW r \in Rows, UNCHANGED <<config, now>>, \A q \in Rows \ {r} : row'[q] = row[q],
             bucket'[w][b] = bucket[w][b], granted'[w][b] = granted[w][b],
             row'[r].at # Paid(b) \/ (row'[r].at = row[r].at /\ row'[r].wake = row[r].wake),
             \/ row'[r].at # b \/ row'[r].wake = now
             \/ (row'[r].at = row[r].at /\ row'[r].wake = row[r].wake)
      PROVE  RateInv(w, b)'
  <2>1. now \in Nat /\ RowsOf(w) \subseteq Rows
    BY DEF Shape, RowsOf
  <2>2. \A q \in RowsOf(w) : row'[q].at = Paid(b) => row[q].at = Paid(b) /\ row'[q].wake = row[q].wake
    BY <1>1, <2>1
  <2>3. \A q \in RowsOf(w) : row'[q].at = b /\ row'[q].wake > now =>
          row[q].at = b /\ row'[q].wake = row[q].wake
    BY <1>1, <2>1
  <2> QED
    BY <1>1, <2>2, <2>3, RateUntouched
<1>2. ASSUME NEW r \in Rows, Arrive(r) \/ Enter(r) \/ Call(r) \/ Answer(r) \/ TimeOut(r) \/ ThreadEnds(r)
      PROVE  RateInv(w, b)'
  <2>1. UNCHANGED <<config, now, bucket, granted>>
    BY <1>2 DEF Arrive, Enter, Call, Answer, TimeOut, Return, ThreadEnds
  <2>2. /\ \A q \in Rows \ {r} : row'[q] = row[q]
        /\ \/ row'[r].at \in {"decode", "calling", "done"}
           \/ row'[r].at = row[r].at /\ row'[r].wake = row[r].wake
    <3>1. CASE Arrive(r)
      BY <3>1 DEF Arrive, Shape, RowType
    <3>2. CASE Enter(r)
      BY <3>2 DEF Enter, Shape, RowType
    <3>3. CASE Call(r)
      BY <3>3 DEF Call, Shape, RowType
    <3>4. CASE Answer(r) \/ TimeOut(r)
      <4>1. \E result, thread : Return(r, result, thread)
        BY <3>4 DEF Answer, TimeOut
      <4> QED
        BY <4>1 DEF Return, Shape, RowType
    <3>5. CASE ThreadEnds(r)
      BY <3>5 DEF ThreadEnds, Shape, RowType
    <3> QED
      BY <1>2, <3>1, <3>2, <3>3, <3>4, <3>5
  <2> QED
    BY <1>0, <1>1, <2>1, <2>2
<1>3. ASSUME NEW r \in Rows, Decode(r)
      PROVE  RateInv(w, b)'
  <2>1. FirstStage \in Stages /\ FirstStage # Paid(b) /\ UNCHANGED <<config, now, bucket, granted>>
        /\ Go(r, FirstStage)
    BY <1>0, <1>3, StagesReached DEF Decode, Stages, Limiters
  <2>2. row'[r].at = FirstStage /\ row'[r].wake = now /\ \A q \in Rows \ {r} : row'[q] = row[q]
    BY <2>1, GoShape
  <2> QED
    BY <1>1, <2>1, <2>2
<1>4. ASSUME NEW r \in Rows, NEW d \in Limiters, Acquire(r, d) \/ Reserve(r, d) \/ WakeUp(r, d)
      PROVE  RateInv(w, b)'
  <2>1. CASE w = r[1] /\ b = d
    BY <1>4, <2>1, RateAcquire, RateReserve, RateWakeUp
  <2>2. CASE w # r[1] \/ b # d
    <3>1. UNCHANGED <<config, now>> /\ r[1] \in Workers
      BY <1>4, RowsOfWorkers DEF Acquire, Reserve, WakeUp, Shape
    <3>2. bucket'[w][b] = bucket[w][b] /\ granted'[w][b] = granted[w][b]
      <4>1. /\ bucket' = bucket \/ \E k : bucket' = [bucket EXCEPT ![r[1]][d] = k]
            /\ granted' = granted \/ granted' = [granted EXCEPT ![r[1]][d] = Append(@, now)]
        BY <1>4 DEF Acquire, Reserve, WakeUp
      <4>2. /\ bucket \in [Workers -> [Limiters -> [tokens : Int, last : Int]]]
            /\ granted \in [Workers -> [Limiters -> Seq(Int)]]
        BY DEF Shape
      <4>3. \A k : [bucket EXCEPT ![r[1]][d] = k][w][b] = bucket[w][b]
        BY <2>2, <3>1, <4>2
      <4>4. [granted EXCEPT ![r[1]][d] = Append(@, now)][w][b] = granted[w][b]
        BY <2>2, <3>1, <4>2
      <4> QED
        BY <4>1, <4>3, <4>4
    <3>3. CASE Go(r, After(d))
      <4>1. After(d) \in Stages /\ After(d) # Paid(b)
        BY <1>0, StagesReached DEF Stages, Limiters
      <4>2. row'[r].at = After(d) /\ row'[r].wake = now /\ \A q \in Rows \ {r} : row'[q] = row[q]
        BY <3>3, <4>1, GoShape
      <4> QED
        BY <1>1, <3>1, <3>2, <4>1, <4>2
    <3>4. ASSUME NEW stage, stage \in {d, Paid(d)}, row'[r].at = stage,
                 \A q \in Rows \ {r} : row'[q] = row[q]
          PROVE  RateInv(w, b)'
      <4>1. CASE b # d
        <5>1. stage # b /\ stage # Paid(b)
          BY <3>4, <4>1 DEF Paid, Limiters
        <5> QED
          BY <1>1, <3>1, <3>2, <3>4, <5>1
      <4>2. CASE w # r[1]
        <5>1. \A q \in RowsOf(w) : q \in Rows /\ q # r
          BY <4>2 DEF RowsOf
        <5> QED
          BY <3>1, <3>2, <3>4, <5>1, RateUntouched
      <4> QED
        BY <2>2, <4>1, <4>2
    <3>5. CASE /\ row[r].at = d
               /\ row' = [row EXCEPT ![r].wake = now + Missing(bucket[r[1]][d], config.cost[d])]
      <4>1. row'[r].at = d /\ \A q \in Rows \ {r} : row'[q] = row[q]
        BY <3>5 DEF Shape, RowType
      <4> QED
        BY <3>4, <4>1
    <3>6. CASE Reserve(r, d)
      <4>1. row'[r].at = Paid(d) /\ \A q \in Rows \ {r} : row'[q] = row[q]
        BY <3>6 DEF Reserve, Shape, RowType
      <4> QED
        BY <3>4, <4>1
    <3> QED
      BY <1>4, <3>3, <3>5, <3>6 DEF Acquire, WakeUp
  <2> QED
    BY <2>1, <2>2
<1>5. CASE UNCHANGED <<config, now, row, bucket, granted>>
  BY <1>5, RateUntouched
<1> QED
  BY <1>2, <1>3, <1>4, <1>5, RateTick DEF Next, Run, Limit, Join, vars

-----------------------------------------------------------------------------
(***************************************************************************)
(* The calls under way. A coroutine has a permit as long as it runs; a     *)
(* function in a thread may outlive its permit.                            *)
(***************************************************************************)
CoroutinesOK == ~config.sync => \A w \in Workers : Running(w) \subseteq Calling(w)

\* Only a call that holds a permit begins to run, and one that gives its
\* permit back has ended.
LEMMA CoroutinesStep == Shape /\ CoroutinesOK /\ [Next]_vars => CoroutinesOK'
<1> SUFFICES ASSUME Shape, CoroutinesOK, [Next]_vars, ~config.sync, NEW w \in Workers
             PROVE  Running(w)' \subseteq Calling(w)'
  BY ConfigFixed DEF CoroutinesOK
<1>0. config' = config /\ Running(w) \subseteq Calling(w)
  BY ConfigFixed DEF CoroutinesOK, Shape
<1>1. ASSUME UNCHANGED row
      PROVE  Running(w)' = Running(w) /\ Calling(w)' = Calling(w)
  BY <1>0, <1>1 DEF Running, Calling, RowsOf, Rows, Workers
<1>2. ASSUME NEW r \in Rows, \A q \in Rows \ {r} : row'[q] = row[q],
             row'[r].thread = "running" => row[r].thread = "running",
             row'[r].thread = "running" => (row[r].at = "calling" => row'[r].at = "calling")
      PROVE  Running(w)' \subseteq Calling(w)'
  <2>1. Running(w)' \subseteq Running(w)
    <3>1. r \in Running(w) <=> w = r[1] /\ row[r].thread = "running"
      BY RowsOfWorkers DEF Shape, Running, RowsOf
    <3> QED
      BY <1>0, <1>2, <3>1, RowMoves
  <2> SUFFICES ASSUME NEW q \in Running(w)' PROVE q \in Calling(w)'
    OBVIOUS
  <2>2. q \in Calling(w)
    BY <1>0, <2>1
  <2>3. CASE q # r
    BY <1>0, <1>2, <2>2, <2>3, RowMoves
  <2>4. CASE q = r
    <3>1. w = r[1] /\ row[r].at = "calling"
      BY <2>2, <2>4 DEF Calling, RowsOf
    <3>2. row'[r].thread = "running"
      BY <2>4 DEF Running
    <3> QED
      BY <1>0, <1>2, <2>4, <3>1, <3>2, RowMoves
  <2> QED
    BY <2>3, <2>4
<1>3. ASSUME NEW r \in Rows, Arrive(r)
      PROVE  row'[r].thread = row[r].thread /\ row[r].at # "calling"
             /\ \A q \in Rows \ {r} : row'[q] = row[q]
  BY <1>3 DEF Arrive, Shape, RowType
<1>4. ASSUME NEW r \in Rows, NEW stage \in {"rpm", "tpm", "semaphore"}, Go(r, stage)
      PROVE  row'[r].thread = row[r].thread /\ \A q \in Rows \ {r} : row'[q] = row[q]
  BY <1>4, GoShape DEF Stages
<1>5. ASSUME NEW r \in Rows, Decode(r)
      PROVE  row'[r].thread = row[r].thread /\ row[r].at # "calling"
             /\ \A q \in Rows \ {r} : row'[q] = row[q]
  BY <1>4, <1>5, StagesReached DEF Decode
<1>6. ASSUME NEW r \in Rows, NEW b \in Limiters, Acquire(r, b) \/ Reserve(r, b) \/ WakeUp(r, b)
      PROVE  row'[r].thread = row[r].thread /\ row[r].at # "calling"
             /\ \A q \in Rows \ {r} : row'[q] = row[q]
  <2>1. row[r].at # "calling"
    BY <1>6, StagesReached DEF Acquire, Reserve, WakeUp, Limiters
  <2>2. CASE Go(r, After(b))
    BY <1>4, <2>1, <2>2, StagesReached
  <2>3. CASE row' = [row EXCEPT ![r].wake = now + Missing(bucket[r[1]][b], config.cost[b])]
    BY <2>1, <2>3 DEF Shape, RowType
  <2>4. CASE Reserve(r, b)
    BY <2>1, <2>4 DEF Reserve, Shape, RowType
  <2> QED
    BY <1>6, <2>2, <2>3, <2>4 DEF Acquire, WakeUp
<1>7. ASSUME NEW r \in Rows, Enter(r)
      PROVE  row'[r].thread = "queued" /\ \A q \in Rows \ {r} : row'[q] = row[q]
  BY <1>7 DEF Enter, Shape, RowType
<1>8. ASSUME NEW r \in Rows, Call(r)
      PROVE  Running(w)' \subseteq Calling(w)'
  <2>1. /\ row'[r].thread = "running" /\ row'[r].at = "calling" /\ row[r].at = "calling"
        /\ row[r].thread = "queued" /\ \A q \in Rows \ {r} : row'[q] = row[q]
    BY <1>8 DEF Call, Shape, RowType
  <2>2. r \notin Running(w)
    BY <2>1 DEF Running
  <2>3. CASE w = r[1]
    <3>1. Running(w)' = Running(w) \cup {r} /\ Calling(w)' = Calling(w) \cup {r}
      BY <1>0, <2>1, <2>3, RowMoves
    <3> QED
      BY <1>0, <3>1
  <2>4. CASE w # r[1]
    <3>1. r \notin Calling(w)
      BY <2>4 DEF Calling, RowsOf
    <3>2. Running(w)' = Running(w) \ {r} /\ Calling(w)' = Calling(w) \ {r}
      BY <1>0, <2>1, <2>4, RowMoves
    <3> QED
      BY <1>0, <2>2, <3>1, <3>2
  <2> QED
    BY <2>3, <2>4
<1>9. ASSUME NEW r \in Rows, Answer(r)
      PROVE  row'[r].thread = "none" /\ \A q \in Rows \ {r} : row'[q] = row[q]
  BY <1>9 DEF Answer, Return, Shape, RowType
<1>10. ASSUME NEW r \in Rows, TimeOut(r)
       PROVE  row'[r].thread = "none" /\ \A q \in Rows \ {r} : row'[q] = row[q]
  BY <1>10 DEF TimeOut, ThreadAfterTimeout, Return, Shape, RowType
<1>11. ASSUME NEW r \in Rows, ThreadEnds(r)
       PROVE  row'[r].thread = "none" /\ \A q \in Rows \ {r} : row'[q] = row[q]
  BY <1>11 DEF ThreadEnds, Shape, RowType
<1>12. CASE UNCHANGED row
  BY <1>0, <1>1, <1>12
<1>13. ASSUME NEW r \in Rows, Arrive(r) \/ Run(r)
       PROVE  Running(w)' \subseteq Calling(w)'
  <2>1. CASE Arrive(r) \/ Decode(r) \/ Limit(r)
    BY <1>2, <1>3, <1>5, <1>6, <2>1 DEF Limit
  <2>2. CASE Enter(r) \/ Answer(r) \/ ThreadEnds(r)
    BY <1>2, <1>7, <1>9, <1>11, <2>2
  <2>3. CASE TimeOut(r)
    BY <1>0, <1>2, <1>10, <2>3
  <2> QED
    BY <1>8, <1>13, <2>1, <2>2, <2>3 DEF Run
<1> QED
  BY <1>12, <1>13 DEF Next, Tick, Join, vars

-----------------------------------------------------------------------------
(***************************************************************************)
(* The invariant                                                           *)
(***************************************************************************)
RateLimiterInv ==
  /\ Shape /\ Semaphore /\ CoroutinesOK
  /\ \A w \in Workers, b \in Limiters : RateInv(w, b)

LEMMA RateInit == Init => RateLimiterInv
<1> SUFFICES ASSUME Init PROVE RateLimiterInv
  OBVIOUS
<1>1. Shape /\ Semaphore
  BY SemaphoreInit
<1>2. \A w \in Workers : Running(w) = {}
  BY DEF Init, Running, RowsOf
<1>3. CoroutinesOK
  BY <1>2 DEF CoroutinesOK
<1>4. ASSUME NEW w \in Workers, NEW b \in Limiters
      PROVE  RateInv(w, b)
  <2>1. /\ bucket[w][b] = [tokens |-> Second, last |-> -1] /\ granted[w][b] = << >> /\ now = 0
        /\ Second \in Nat \ {0}
    BY <1>4, LimiterAssumption DEF Init
  <2>2. Len(granted[w][b]) = 0 /\ 1..0 = {}
    BY <2>1
  <2>3. \A r \in RowsOf(w) : row[r].at = "away"
    BY DEF Init, RowsOf
  <2>4. b # "away" /\ Paid(b) # "away"
    BY <1>4 DEF Limiters, Paid
  <2>5. Paying(w, b) = {}
    BY <2>3, <2>4 DEF Paying
  <2>6. BucketOK(w, b)
    BY <2>1 DEF BucketOK
  <2>7. SmallOK(w, b)
    BY <2>1, <2>2, <2>5 DEF SmallOK, Spent
  <2>8. LargeOK(w, b)
    BY <2>2, <2>5 DEF LargeOK, Before
  <2>9. PassedOK(w, b)
    BY <2>2 DEF PassedOK, Within
  <2>10. WaitOK(w, b)
    BY <2>3, <2>4 DEF WaitOK
  <2> QED
    BY <2>6, <2>7, <2>8, <2>9, <2>10 DEF RateInv
<1> QED
  BY <1>1, <1>3, <1>4 DEF RateLimiterInv

LEMMA RateInvariant == Spec => []RateLimiterInv
<1>1. RateLimiterInv /\ [Next]_vars => RateLimiterInv'
  <2> SUFFICES ASSUME RateLimiterInv, [Next]_vars PROVE RateLimiterInv'
    OBVIOUS
  <2>1. Shape' /\ Semaphore' /\ CoroutinesOK'
    BY ShapeStep, SemaphoreStep, CoroutinesStep DEF RateLimiterInv
  <2>2. ASSUME NEW w \in Workers, NEW b \in Limiters
        PROVE  RateInv(w, b)'
    BY <2>2, RateStep DEF RateLimiterInv
  <2>3. Workers' = Workers /\ Limiters' = Limiters
    BY ConfigFixed DEF Limiters
  <2> QED
    BY <2>1, <2>2, <2>3 DEF RateLimiterInv
<1> QED
  BY <1>1, RateInit, PTL DEF Spec

-----------------------------------------------------------------------------
\* The types, and the semaphore: its permits and the calls under way always
\* make max_concurrent, and its queue holds exactly the rows that wait for it
\* (the semaphore of run_single), for every configuration.
THEOREM TypeCorrect == Spec => []TypeOK
<1>1. RateLimiterInv => TypeOK
  <2> SUFFICES ASSUME RateLimiterInv PROVE TypeOK
    OBVIOUS
  <2>1. \A w \in Workers : \A b \in Limiters :
          bucket[w][b].tokens \in Int /\ bucket[w][b].tokens <= Second /\ bucket[w][b].last \in -1..now
    BY RateTypes DEF RateLimiterInv, RateInv, BucketOK
  <2>2. \A r \in Rows : row[r].at \in Stages /\ row[r].thread \in {"none", "queued", "running"}
                        /\ row[r].result \in {"none", "score", "error", "timeout"}
    BY DEF RateLimiterInv, Shape, RowType
  <2>3. \A w \in Workers :
          /\ permits[w] + Cardinality({r \in RowsOf(w) : row[r].at = "calling"}) = config.concurrent
          /\ ToSet(waiters[w]) = {r \in RowsOf(w) : row[r].at = "semaphore"}
          /\ batch[w] \in {"open", "scored", "raised"}
    BY DEF RateLimiterInv, Semaphore, Calling, Waiting, Shape
  <2> QED
    BY <2>1, <2>2, <2>3 DEF TypeOK, RateLimiterInv, Shape
<1> QED
  BY <1>1, RateInvariant, PTL

\* No worker's rows ever pass a limiter faster than its rate and one burst
\* allow: AsyncTokenBucket.acquire, for every rate, size of a request and
\* number of rows, whenever they arrive.
THEOREM RateAlwaysKept == Spec => []RateKept
<1>1. RateLimiterInv => RateKept
  BY DEF RateLimiterInv, RateInv, PassedOK, Within, RateKept
<1> QED
  BY <1>1, RateInvariant, PTL

\* No row sleeps while its bucket holds enough for it, although others take
\* from the bucket, and pay ahead, while it sleeps.
THEOREM NobodyWaitsInVain == Spec => []NoNeedlessWait
<1>1. RateLimiterInv => NoNeedlessWait
  <2> SUFFICES ASSUME RateLimiterInv, NEW r \in Rows, NEW b \in Limiters,
                      row[r].at = b, row[r].wake > now
               PROVE  Balance(r[1], b) < config.cost[b]
    BY DEF NoNeedlessWait, Balance
  <2>1. r[1] \in Workers /\ r \in RowsOf(r[1])
    BY RowsOfWorkers DEF RateLimiterInv, Shape
  <2>2. Balance(r[1], b) + (row[r].wake - now) <= config.cost[b]
    BY <2>1 DEF RateLimiterInv, RateInv, WaitOK
  <2>3. /\ Balance(r[1], b) \in Int /\ config.cost[b] \in Int /\ now \in Int
        /\ row[r].wake \in Int
    BY <2>1, RateTypes DEF RateLimiterInv
  <2> QED
    BY <2>2, <2>3
<1> QED
  BY <1>1, RateInvariant, PTL

\* The two together: whatever comes when, a bucket holds back no more and no less
\* than its rate asks for (AsyncTokenBucket.acquire).
THEOREM BucketsAlwaysExact == Spec => []BucketsExact
BY RateAlwaysKept, NobodyWaitsInVain, PTL DEF BucketsExact

\* If compute_score is a coroutine, no more calls are under way at a worker than
\* max_concurrent, with timeouts and calls that never return: every call that
\* runs holds a permit (CoroutinesOK).
THEOREM CoroutinesAlwaysBounded == Spec => []CoroutinesBounded
<1>1. RateLimiterInv => CoroutinesBounded
  <2> SUFFICES ASSUME RateLimiterInv, ~config.sync, NEW w \in Workers
               PROVE  Cardinality(Running(w)) <= config.concurrent
    BY DEF CoroutinesBounded, ConcurrencyKept
  <2>1. /\ permits[w] \in Int /\ permits[w] >= 0 /\ config.concurrent \in Nat
        /\ permits[w] + Cardinality(Calling(w)) = config.concurrent
    BY ConfigNumbers DEF RateLimiterInv, Shape, Semaphore
  <2>2. /\ Cardinality(Running(w)) \in Nat /\ Cardinality(Calling(w)) \in Nat
        /\ IsFiniteSet(Calling(w))
    BY RowSetsFinite DEF RateLimiterInv
  <2>3. Cardinality(Running(w)) <= Cardinality(Calling(w))
    BY <2>2, FS_Subset DEF RateLimiterInv, CoroutinesOK
  <2> QED
    BY <2>1, <2>2, <2>3
<1> QED
  BY <1>1, RateInvariant, PTL

=============================================================================
