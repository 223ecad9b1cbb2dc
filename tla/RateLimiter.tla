------------------------------ MODULE RateLimiter ------------------------------
(***************************************************************************)
(* The rate-limited reward manager of an agent loop worker: a row that has *)
(* been generated is decoded, waits for the two token buckets and for the  *)
(* semaphore, asks the API with a timeout, and joins its batch.            *)
(*                                                                         *)
(* Tokens of a bucket are measured in the time it takes to gain them:      *)
(* both buckets hold one second's worth (Second ticks), and a request      *)
(* costs 60 / max_rpm of a second in one, estimated_tokens_per_request     *)
(* times 60 / max_tpm in the other.  Timers of the event loop fire on time.*)
(***************************************************************************)
EXTENDS Integers, Sequences, FiniteSets, SequencesExt

CONSTANTS
  Configs,      \* workers, rows of each, costs, limits, kind of compute_score
  Second,       \* ticks of a second
  Timeout,      \* timeout of a call
  Threads,      \* threads of the default executor of a process
  Durations,    \* how long a call to the API may take
  Never,        \* the duration of a call that never returns
  LastArrival,  \* bound on the time at which rows arrive
  MaxTime       \* bound on time, later than the last batch ends

ASSUME LimiterAssumption ==
  /\ Second \in Nat \ {0} /\ Timeout \in Nat \ {0} /\ Threads \in Nat \ {0}
  /\ LastArrival \in Nat /\ MaxTime \in Nat /\ Durations \subseteq Nat /\ Never \notin Durations
ASSUME LimiterConfigsAssumption ==
  \A c \in Configs :
    /\ c.workers \in Nat \ {0} /\ c.rows \in Nat \ {0}
    /\ c.cost \in [{"rpm", "tpm"} -> Nat]     \* 0: no limit
    /\ c.concurrent \in Nat \ {0}             \* max_concurrent
    /\ c.sync \in BOOLEAN                     \* compute_score is a plain function
    /\ c.dict \in BOOLEAN                     \* compute_score returns a dict

VARIABLES
  config, now,
  bucket,     \* per worker and limiter: balance and time of the last update
  row,        \* per row: stage, wake-up time, call and result
  waiters,    \* per worker, the queue of its semaphore
  permits,    \* per worker, the value of its semaphore
  batch,      \* per worker, what has come of its batch
  granted     \* per worker and limiter, the times at which rows passed

vars == <<config, now, bucket, row, waiters, permits, batch, granted>>

Limiters == {"rpm", "tpm"}
Workers == 1..config.workers
Rows == Workers \X (1..config.rows)
RowsOf(w) == {r \in Rows : r[1] = w}

Larger(a, b) == IF a > b THEN a ELSE b
Smaller(a, b) == IF a < b THEN a ELSE b

Init ==
  /\ config \in Configs
  /\ now = 0
  /\ bucket = [w \in Workers |-> [b \in Limiters |-> [tokens |-> Second, last |-> -1]]]
  /\ row = [r \in Rows |-> [at |-> "away", wake |-> 0, thread |-> "none",
                            start |-> 0, end |-> 0, result |-> "none"]]
  /\ waiters = [w \in Workers |-> << >>]
  /\ permits = [w \in Workers |-> config.concurrent]
  /\ batch = [w \in Workers |-> "open"]
  /\ granted = [w \in Workers |-> [b \in Limiters |-> << >>]]

-----------------------------------------------------------------------------
(***************************************************************************)
(* AsyncTokenBucket.acquire: nothing is awaited under the lock             *)
(***************************************************************************)

Gained(k) == IF k.last = -1 THEN 0 ELSE now - k.last

\* What the bucket holds now.
Refilled(k) == Smaller(Second, k.tokens + Gained(k))

Filled(k) == [tokens |-> Refilled(k), last |-> now]

\* Mutant: a waiter sleeps for all it needs.
MissingAll(k, cost) == cost

\* How long it takes to gain what is missing.
Missing(k, cost) == cost - Refilled(k)

\* Where a row goes: limiters that are None are skipped.
FirstStage == IF config.cost["rpm"] > 0 THEN "rpm"
              ELSE IF config.cost["tpm"] > 0 THEN "tpm" ELSE "semaphore"
After(b) == IF b = "rpm" /\ config.cost["tpm"] > 0 THEN "tpm" ELSE "semaphore"

\* Where a row sleeps that has paid ahead.
Paid(b) == IF b = "rpm" THEN "paid_rpm" ELSE "paid_tpm"

\* Whoever needs a permit joins the queue of the semaphore.
Go(r, stage) ==
  /\ row' = [row EXCEPT ![r].at = stage, ![r].wake = now]
  /\ waiters' = IF stage = "semaphore" THEN [waiters EXCEPT ![r[1]] = Append(@, r)] ELSE waiters

\* A request the bucket can hold: taken if it is there, else tried again after
\* the time in which what is missing is gained, in no order among the waiting.
Acquire(r, b) ==
  /\ row[r].at = b /\ row[r].wake <= now
  /\ config.cost[b] \in 1..Second
  /\ LET k == bucket[r[1]][b] IN
     IF Refilled(k) >= config.cost[b]
     THEN /\ bucket' = [bucket EXCEPT ![r[1]][b] =
               [Filled(k) EXCEPT !.tokens = @ - config.cost[b]]]
          /\ granted' = [granted EXCEPT ![r[1]][b] = Append(@, now)]
          /\ Go(r, After(b))
     ELSE /\ bucket' = [bucket EXCEPT ![r[1]][b] = Filled(k)]
          /\ row' = [row EXCEPT ![r].wake = now + Missing(k, config.cost[b])]
          /\ UNCHANGED <<waiters, granted>>
  /\ UNCHANGED <<config, now, permits, batch>>

\* Mutant: the time of the update is not kept.
ReserveWithoutUpdate(r, b) ==
  /\ row[r].at = b /\ config.cost[b] > Second
  /\ LET k == bucket[r[1]][b] IN
     /\ bucket' = [bucket EXCEPT ![r[1]][b] =
          [tokens |-> Refilled(k) - config.cost[b], last |-> IF k.last = -1 THEN now ELSE k.last]]
     /\ row' = [row EXCEPT ![r].at = Paid(b), ![r].wake = now + Missing(k, config.cost[b])]
  /\ UNCHANGED <<config, now, waiters, permits, batch, granted>>

\* A larger request is paid at once, below zero, and slept for afterwards.
Reserve(r, b) ==
  /\ row[r].at = b /\ config.cost[b] > Second
  /\ LET k == bucket[r[1]][b] IN
     /\ bucket' = [bucket EXCEPT ![r[1]][b] =
          [Filled(k) EXCEPT !.tokens = @ - config.cost[b]]]
     /\ row' = [row EXCEPT ![r].at = Paid(b), ![r].wake = now + Missing(k, config.cost[b])]
  /\ UNCHANGED <<config, now, waiters, permits, batch, granted>>

WakeUp(r, b) ==
  /\ row[r].at = Paid(b) /\ row[r].wake <= now
  /\ granted' = [granted EXCEPT ![r[1]][b] = Append(@, now)]
  /\ Go(r, After(b))
  /\ UNCHANGED <<config, now, bucket, permits, batch>>

Limit(r) == \E b \in Limiters : Acquire(r, b) \/ Reserve(r, b) \/ WakeUp(r, b)

-----------------------------------------------------------------------------
(***************************************************************************)
(* run_single                                                              *)
(***************************************************************************)

Running(w) == {r \in RowsOf(w) : row[r].thread = "running"}
FreeThread(w) == ~config.sync \/ Cardinality(Running(w)) < Threads

Arrive(r) ==
  /\ row[r].at = "away"
  /\ row' = [row EXCEPT ![r].at = "decode"]
  /\ UNCHANGED <<config, now, bucket, waiters, permits, batch, granted>>

\* Decoding takes a thread of the executor that also runs compute_score.
Decode(r) ==
  /\ row[r].at = "decode" /\ FreeThread(r[1])
  /\ Go(r, FirstStage)
  /\ UNCHANGED <<config, now, bucket, permits, batch, granted>>

\* The semaphore serves its queue in order; then the timeout runs, whether the
\* executor has a thread for the call or not.
Enter(r) ==
  /\ row[r].at = "semaphore" /\ permits[r[1]] > 0 /\ Head(waiters[r[1]]) = r
  /\ permits' = [permits EXCEPT ![r[1]] = @ - 1]
  /\ waiters' = [waiters EXCEPT ![r[1]] = Tail(@)]
  /\ row' = [row EXCEPT ![r].at = "calling", ![r].start = now, ![r].thread = "queued"]
  /\ UNCHANGED <<config, now, bucket, batch, granted>>

\* The call reaches the API.
Call(r) ==
  /\ row[r].at = "calling" /\ row[r].thread = "queued" /\ FreeThread(r[1])
  /\ \E d \in Durations \cup (IF config.sync THEN {} ELSE {Never}) :
       row' = [row EXCEPT ![r].thread = "running",
                          ![r].end = IF d = Never THEN Never ELSE now + d]
  /\ UNCHANGED <<config, now, bucket, waiters, permits, batch, granted>>

\* Mutant: only a call that answers releases the semaphore.
ReleasedIfAnswered(w, result) == IF result = "score" THEN permits[w] + 1 ELSE permits[w]

Released(w, result) == permits[w] + 1

Return(r, result, thread) ==
  /\ row' = [row EXCEPT ![r].at = "done", ![r].result = result, ![r].thread = thread]
  /\ permits' = [permits EXCEPT ![r[1]] = Released(r[1], result)]
  /\ UNCHANGED <<config, now, bucket, waiters, batch, granted>>

Ended(r) == row[r].thread = "running" /\ row[r].end /= Never /\ row[r].end <= now

Answer(r) ==
  /\ row[r].at = "calling" /\ Ended(r)
  /\ \E result \in {"score", "error"} : Return(r, result, "none")

\* wait_for cancels a coroutine and what waits for a thread; a function that
\* runs in one goes on.
ThreadAfterTimeout(r) ==
  IF config.sync /\ row[r].thread = "running" THEN "running" ELSE "none"

TimeOut(r) ==
  /\ row[r].at = "calling" /\ row[r].start + Timeout <= now
  /\ Return(r, "timeout", ThreadAfterTimeout(r))

ThreadEnds(r) ==
  /\ row[r].at = "done" /\ Ended(r)
  /\ row' = [row EXCEPT ![r].thread = "none"]
  /\ UNCHANGED <<config, now, bucket, waiters, permits, batch, granted>>

\* The keys of reward_extra_info.
Keys(result) ==
  CASE result = "timeout" -> {"timeout", "acc"}
    [] result = "error"   -> {"error", "acc"}
    [] result = "score"   -> IF config.dict THEN {"score"} ELSE {"acc"}

\* _postprocess looks the keys of the first row up in every row.
Join(w) ==
  /\ batch[w] = "open" /\ \A r \in RowsOf(w) : row[r].at = "done"
  /\ batch' = [batch EXCEPT ![w] =
       IF \A r \in RowsOf(w) : Keys(row[<<w, 1>>].result) \subseteq Keys(row[r].result)
       THEN "scored" ELSE "raised"]
  /\ UNCHANGED <<config, now, bucket, row, waiters, permits, granted>>

Run(r) == Decode(r) \/ Limit(r) \/ Enter(r) \/ Call(r) \/ Answer(r) \/ TimeOut(r) \/ ThreadEnds(r)

-----------------------------------------------------------------------------
\* A row has something to do now.
Due(r) ==
  \/ row[r].at = "decode" /\ FreeThread(r[1])
  \/ row[r].at \in {"rpm", "tpm", "paid_rpm", "paid_tpm"} /\ row[r].wake <= now
  \/ row[r].at = "semaphore" /\ permits[r[1]] > 0
  \/ row[r].at = "calling" /\ row[r].thread = "queued" /\ FreeThread(r[1])
  \/ row[r].at = "calling" /\ row[r].start + Timeout <= now
  \/ Ended(r)

\* Time passes when nothing is due, until all batches are joined.
Tick ==
  /\ now < MaxTime /\ \A r \in Rows : ~Due(r)
  /\ \E w \in Workers : batch[w] = "open"
  /\ \A w \in Workers : batch[w] = "open" => \E r \in RowsOf(w) : row[r].at /= "done"
  /\ now >= LastArrival => \A r \in Rows : row[r].at /= "away"
  /\ now' = now + 1
  /\ UNCHANGED <<config, bucket, row, waiters, permits, batch, granted>>

Next ==
  \/ Tick
  \/ \E r \in Rows : Arrive(r) \/ Run(r)
  \/ \E w \in Workers : Join(w)

Spec == Init /\ [][Next]_vars

\* The event loop runs what is due, and time goes on.
FairSpec == Spec /\ WF_vars(Next)

-----------------------------------------------------------------------------
Stages == {"away", "decode", "rpm", "paid_rpm", "tpm", "paid_tpm", "semaphore", "calling", "done"}

\* The type of every variable, and the permits of the semaphore: those taken
\* are the calls under way (VARIABLES of RateLimiter).
TypeOK ==
  /\ config \in Configs /\ now \in Nat
  /\ \A w \in Workers : \A b \in Limiters :
       bucket[w][b].tokens \in Int /\ bucket[w][b].tokens <= Second /\ bucket[w][b].last \in -1..now
  /\ \A r \in Rows : row[r].at \in Stages /\ row[r].thread \in {"none", "queued", "running"}
       /\ row[r].result \in {"none", "score", "error", "timeout"}
  /\ \A w \in Workers :
       /\ permits[w] + Cardinality({r \in RowsOf(w) : row[r].at = "calling"}) = config.concurrent
       /\ ToSet(waiters[w]) = {r \in RowsOf(w) : row[r].at = "semaphore"}
       /\ batch[w] \in {"open", "scored", "raised"}

\* In no stretch of time do the rows of a worker pass a limiter faster than its
\* rate and one burst allow: what a full bucket holds, or a single larger
\* request (AsyncTokenBucket: "maintaining an average rate limit").  The bound is
\* one for each worker: the limiters are class attributes, and every worker is a
\* process, so it does not say what limited.py:194-196 and 304 do of all workers.
RateKept ==
  \A w \in Workers, b \in Limiters :
    LET g == granted[w][b] IN
    \A i \in 1..Len(g) : \A j \in i..Len(g) :
      (j - i + 1) * config.cost[b] <= Larger(Second, config.cost[b]) + (g[j] - g[i])

\* No row sleeps while its bucket holds enough for it (AsyncTokenBucket:
\* "sleep until enough tokens have been refilled").
NoNeedlessWait ==
  \A r \in Rows, b \in Limiters :
    row[r].at = b /\ row[r].wake > now => Refilled(bucket[r[1]][b]) < config.cost[b]

\* A bucket of a worker holds back neither too little nor too much, with requests
\* larger than it, which sleep outside its lock, among the others
\* (AsyncTokenBucket.acquire).
BucketsExact == RateKept /\ NoNeedlessWait

\* max_concurrent "limits the number of simultaneous API requests"
\* (limited.py:181-183).
ConcurrencyKept == \A w \in Workers : Cardinality(Running(w)) <= config.concurrent

\* It does if compute_score is a coroutine: a timeout that gives the permit
\* back has ended the call, however late its answer (limited.py:378-388).
CoroutinesBounded == ~config.sync => ConcurrencyKept

\* Every batch ends, even if a call of a coroutine to the API never returns
\* (asyncio.wait_for in run_single).  A function in a thread does return.
BatchEnds == <>(\A w \in Workers : batch[w] /= "open")

=============================================================================
