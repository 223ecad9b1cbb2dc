--------------------------- MODULE DistillationStep ---------------------------
(***************************************************************************)
(* One update of the distillation trainer: the driver cuts a batch into    *)
(* one shard per rank, every rank counts its tokens, the ranks add their   *)
(* counts, work through their micro-batches in lockstep, step their        *)
(* optimizers, and the driver joins their metrics.  The ranks run on their *)
(* own between the collectives; a rank that raises stops, the others wait  *)
(* for it in the next collective, and the driver ends the job.             *)
(***************************************************************************)
EXTENDS DistillationData, FiniteSets, FiniteSetsExt

CONSTANTS
  Samples,    \* the rows of the training file
  BatchSize,  \* data.train_batch_size
  DpSize,     \* data-parallel ranks
  Configs     \* the watermark sections: weights, mode, normalization, accum

Ranks == 1..DpSize
Rows == 1..BatchSize
ShardSize == BatchSize \div DpSize

ASSUME SizeAssumption ==
  /\ BatchSize \in Nat \ {0}
  /\ DpSize \in Nat \ {0}
  /\ BatchSize % DpSize = 0
ASSUME SamplesAssumption ==
  \A s \in Samples :
    /\ s.task \in Tasks
    /\ s.prompt \in Nat /\ s.prompt > 1
    /\ s.promptRef \in Nat /\ s.promptRef > 1
    /\ s.response \in Nat \ {0}
    /\ s.letters \in Seq(-1..25)
    /\ s.active \in Seq(-1..0)
    /\ s.green \subseteq Int
ASSUME ConfigsAssumption ==
  \A c \in Configs :
    /\ c.weights \subseteq Terms \ {"cleanpos"}
    /\ c.mode \in {"none", "mask", "cleanref"}
    /\ c.normalization \in {"global", "per_task"}
    /\ c.accum \in Nat \ {0} /\ ShardSize % c.accum = 0

VARIABLES
  config,     \* the configuration of the job
  status,     \* the driver: idle between updates, running, failed
  batch,      \* the rows of the current update
  pc,         \* where each rank is
  micro,      \* micro-batches each rank has finished
  counts,     \* the token counts of each rank
  fed,        \* the predictions each rank has added to each term
  metricKeys  \* the keys of the metrics each rank returns

vars == <<config, status, batch, pc, micro, counts, fed, metricKeys>>

rankVars == <<pc, micro, counts, fed, metricKeys>>

-----------------------------------------------------------------------------
(***************************************************************************)
(* Shards, micro-batches and counts                                        *)
(***************************************************************************)

Shard(r) == ((r - 1) * ShardSize + 1)..(r * ShardSize)
MicroSize == ShardSize \div config.accum
\* Mutant: the rank cuts the whole batch, not its shard.
MicroBatchOfBatch(r, m) == (m * MicroSize + 1)..(m * MicroSize + MicroSize)

MicroBatch(r, m) ==
  LET first == (r - 1) * ShardSize + m * MicroSize IN
  (first + 1)..(first + MicroSize)

\* The scored positions of some rows; the arrays the loss works on hold
\* them row by row.
ActorTokens(rows) == UNION {{i} \X Scores(batch[i]) : i \in rows}
RefTokens(rows) == UNION {{i} \X RefScores(batch[i]) : i \in rows}
Place(token, tokens) ==
  Cardinality({t \in tokens : \/ t[1] < token[1]
                              \/ t[1] = token[1] /\ t[2] < token[2]})

Kinds == {"tokens", "posNonAcr", "neg", "acr", "acrActive", "initials",
          "initialsActive", "greenActive", "greenNonActive"}

LocalCounts(rows) ==
  LET tokens   == ActorTokens(rows)
      of(task) == {t \in tokens : batch[t[1]].task = task}
      masked   == IF config.mode = "none" THEN {} ELSE of("green")
      green(t) == GreenTarget(batch[t[1]], t[2])
  IN
  [tokens         |-> Cardinality(tokens),
   posNonAcr      |-> Cardinality(of("green") \cup of("initials")),
   neg            |-> Cardinality(of("neg")),
   acr            |-> Cardinality(of("acrostics")),
   acrActive      |-> Cardinality({t \in of("acrostics") : LetterAt(batch[t[1]], t[2]) >= 0}),
   initials       |-> Cardinality(of("initials")),
   initialsActive |-> Cardinality({t \in of("initials") : ActiveAt(batch[t[1]], t[2]) >= 0}),
   greenActive    |-> Cardinality({t \in masked : green(t)}),
   greenNonActive |-> Cardinality({t \in masked : ~green(t)})]

NoCounts == [k \in Kinds |-> 0]

SumOf(numbers) == MapThenSumSet(LAMBDA x : numbers[x], DOMAIN numbers)

\* Mutant: the counts of the first rank stand for all.
TotalNotReduced(kind) == counts[1][kind]

\* What the all-reduce leaves on every rank.
Total(kind) == SumOf([r \in Ranks |-> counts[r][kind]])

\* What each term of the loss is divided by.  update_actor_kd does not pass
\* the number of response tokens of initials, so that loss.py has 0.
Denominator(term) ==
  LET initialsResponse == 0
      positive == Greater(Total("posNonAcr") - initialsResponse, 0)
      initials == Total("initialsActive")
      biased == IF config.mode = "none" THEN positive ELSE Total("greenActive")
      tokens == CASE term = "ce" -> Total("tokens")
                  [] term = "biased" -> biased + initials + Total("acrActive")
                  [] term = "clean" -> Total("neg")
                  [] term = "cleanpos" -> Total("greenNonActive")
                  [] term \in {"green", "self"} -> positive + initials
  IN IF config.normalization = "per_task" THEN Greater(tokens, 1)
     ELSE Total("tokens")

\* The predictions of some rows, with the terms they feed.
Contributions(rows) ==
  {t \in Weighted(config.weights) \X ActorTokens(rows) :
     Feeds(t[1], batch[t[2][1]], t[2][2], config.mode)}

\* The loss of a micro-batch that feeds no term is a constant.
HasGradient(r) == Contributions(MicroBatch(r, micro[r])) /= {}

\* The per-task keys a micro-batch adds to the metrics.
MetricsOf(rows) ==
  {k \in {"green", "initials"} :
     \E i \in rows : batch[i].task = k /\ Scores(batch[i]) /= {}}

-----------------------------------------------------------------------------
(***************************************************************************)
(* The update                                                              *)
(***************************************************************************)

Init ==
  /\ config \in Configs
  /\ status = "idle"
  /\ batch = << >>
  /\ pc = [r \in Ranks |-> "idle"]
  /\ micro = [r \in Ranks |-> 0]
  /\ counts = [r \in Ranks |-> NoCounts]
  /\ fed = [r \in Ranks |-> << >>]
  /\ metricKeys = [r \in Ranks |-> {}]

\* The next batch of the dataloader; tokenising a row may raise.
Load ==
  /\ status = "idle"
  /\ batch' \in [Rows -> Samples]
  /\ IF \E i \in Rows : \/ TooLong(batch'[i].prompt, batch'[i].response)
                        \/ TooLong(batch'[i].promptRef, batch'[i].response)
     THEN status' = "failed" /\ pc' = pc
     ELSE status' = "running" /\ pc' = [r \in Ranks |-> "count"]
  /\ UNCHANGED <<config, micro, counts, fed, metricKeys>>

CountTokens(r) ==
  /\ pc[r] = "count"
  /\ counts' = [counts EXCEPT ![r] = LocalCounts(Shard(r))]
  /\ pc' = [pc EXCEPT ![r] = "check"]
  /\ UNCHANGED <<config, status, batch, micro, fed, metricKeys>>

\* Mutant: the sequences of the two models are not compared.
CheckTotalsOnly(r) ==
  /\ pc[r] = "check"
  /\ \A q \in Ranks : pc[q] /= "count"
  /\ pc' = [pc EXCEPT ![r] = "forward"]
  /\ UNCHANGED <<config, status, batch, micro, counts, fed, metricKeys>>

\* After the all-reduce: the two assertions.
CheckCounts(r) ==
  /\ pc[r] = "check"
  /\ \A q \in Ranks : pc[q] /= "count"
  /\ pc' = [pc EXCEPT ![r] =
       IF /\ Total("posNonAcr") + Total("neg") + Total("acr") = Total("tokens")
          /\ Cardinality(ActorTokens(Shard(r))) = Cardinality(RefTokens(Shard(r)))
       THEN "forward" ELSE "raised"]
  /\ UNCHANGED <<config, status, batch, micro, counts, fed, metricKeys>>

\* How far a rank has come in the collectives of the update.
Progress(q) == CASE pc[q] = "forward" -> 2 * micro[q]
                 [] pc[q] = "backward" -> 2 * micro[q] + 1
                 [] pc[q] \in {"optimize", "done"} -> 2 * config.accum
                 [] OTHER -> -1

\* Mutant: the ranks do not wait for each other.
AllHereNoBarrier(r) == TRUE

\* Mutant: a rank cannot leave once another has left.
AllHereExactly(r) == \A q \in Ranks : Progress(q) = Progress(r)

\* No rank leaves a collective before all have entered it.
AllHere(r) == \A q \in Ranks : Progress(q) >= Progress(r)

Forward(r) ==
  /\ pc[r] = "forward"
  /\ AllHere(r)
  /\ pc' = [pc EXCEPT ![r] = "backward"]
  /\ UNCHANGED <<config, status, batch, micro, counts, fed, metricKeys>>

\* loss.backward() raises before its first collective if the loss has no
\* gradient.
BackwardFails(r) ==
  /\ pc[r] = "backward"
  /\ ~HasGradient(r)
  /\ pc' = [pc EXCEPT ![r] = "raised"]
  /\ UNCHANGED <<config, status, batch, micro, counts, fed, metricKeys>>

\* The others enter the backward pass of this micro-batch, or are past it.
AllBackward(r) ==
  \A q \in Ranks : Progress(q) = Progress(r) => HasGradient(q)

\* Mutant: one micro-batch too many.
BackwardOneMore(r) ==
  /\ pc[r] = "backward"
  /\ HasGradient(r)
  /\ AllHere(r) /\ AllBackward(r)
  /\ fed' = [fed EXCEPT ![r] = Append(@, Contributions(MicroBatch(r, micro[r])))]
  /\ micro' = [micro EXCEPT ![r] = @ + 1]
  /\ pc' = [pc EXCEPT ![r] = IF micro[r] = config.accum THEN "optimize" ELSE "forward"]
  /\ UNCHANGED <<config, status, batch, counts, metricKeys>>

Backward(r) ==
  /\ pc[r] = "backward"
  /\ HasGradient(r)
  /\ AllHere(r) /\ AllBackward(r)
  /\ LET rows == MicroBatch(r, micro[r]) IN
       /\ fed' = [fed EXCEPT ![r] = Append(@, Contributions(rows))]
       /\ metricKeys' = [metricKeys EXCEPT ![r] = @ \cup MetricsOf(rows)]
  /\ micro' = [micro EXCEPT ![r] = @ + 1]
  /\ pc' = [pc EXCEPT ![r] = IF micro[r] + 1 = config.accum THEN "optimize" ELSE "forward"]
  /\ UNCHANGED <<config, status, batch, counts>>

\* The missing keys are filled in, the norm of the gradient is added up
\* over the ranks, and each rank steps.
OptimizerStep(r) ==
  /\ pc[r] = "optimize"
  /\ AllHere(r)
  /\ metricKeys' = [metricKeys EXCEPT ![r] = @ \cup {"green", "initials"}]
  /\ pc' = [pc EXCEPT ![r] = "done"]
  /\ UNCHANGED <<config, status, batch, micro, counts, fed>>

\* The driver joins the metrics in the order of the ranks: the first rank
\* fixes the keys, and a key it does not have fails an assertion.
Collect ==
  /\ status = "running"
  /\ \A r \in Ranks : pc[r] = "done"
  /\ status' = IF \A r \in Ranks : metricKeys[r] \subseteq metricKeys[1]
               THEN "idle" ELSE "failed"
  /\ pc' = [r \in Ranks |-> "idle"]
  /\ batch' = << >>
  /\ micro' = [r \in Ranks |-> 0]
  /\ counts' = [r \in Ranks |-> NoCounts]
  /\ fed' = [r \in Ranks |-> << >>]
  /\ metricKeys' = [r \in Ranks |-> {}]
  /\ UNCHANGED config

\* ray.get raises what a rank raised: the driver, and with it the job, ends.
Abort ==
  /\ status = "running"
  /\ \E r \in Ranks : pc[r] = "raised"
  /\ status' = "failed"
  /\ UNCHANGED <<config, batch, rankVars>>

Rank(r) ==
  /\ status = "running"
  /\ \/ CountTokens(r) \/ CheckCounts(r)
     \/ Forward(r) \/ BackwardFails(r) \/ Backward(r)
     \/ OptimizerStep(r)

Next == Load \/ Collect \/ Abort \/ \E r \in Ranks : Rank(r)

Spec == Init /\ [][Next]_vars

\* A rank that can go on does; so does the driver once its ranks are done.
FairSpec == /\ Spec
            /\ WF_vars(Collect) /\ WF_vars(Abort)
            /\ \A r \in Ranks : WF_vars(Rank(r))

-----------------------------------------------------------------------------
(***************************************************************************)
(* Properties                                                              *)
(***************************************************************************)

\* Types, and that no rank runs past its last micro-batch.
TypeOK ==
  /\ config \in Configs
  /\ status \in {"idle", "running", "failed"}
  /\ batch \in {<< >>} \cup [Rows -> Samples]
  /\ pc \in [Ranks -> {"idle", "count", "check", "forward", "backward",
                       "optimize", "done", "raised"}]
  /\ micro \in [Ranks -> 0..config.accum]
  /\ \A r \in Ranks : pc[r] \in {"forward", "backward"} => micro[r] < config.accum
  /\ counts \in [Ranks -> [Kinds -> Nat]]
  /\ fed \in [Ranks -> Seq(SUBSET (Terms \X (Rows \X (0..(MaxLength - 1)))))]
  /\ \A r \in Ranks : Len(fed[r]) = micro[r]
  /\ metricKeys \in [Ranks -> SUBSET {"green", "initials"}]

\* The k-th reference distribution of a micro-batch is that of the token the
\* k-th actor distribution predicts, in the same row.  loss.py pairs the two
\* by their place in the flattened arrays, and the only check is that a
\* whole shard has as many of one as of the other (worker.py:568-573).
SamePrediction ==
  \A r \in Ranks : pc[r] = "forward" =>
    LET actor == ActorTokens(MicroBatch(r, micro[r]))
        ref == RefTokens(MicroBatch(r, micro[r]))
    IN /\ Cardinality(actor) = Cardinality(ref)
       /\ \A t \in actor, u \in ref :
            Place(t, actor) = Place(u, ref) =>
              /\ t[1] = u[1]
              /\ Target(batch[t[1]], t[2]) = RefTarget(batch[u[1]], u[2])

\* The letter a counted prediction is biased towards is the letter that
\* bias_replay.py recorded for the very token it predicts, truncated or not
\* (dataset.py:186-241): label n of an acrostic is that of token n.
LabelOf(labels, n) == IF n + 1 \in 1..Len(labels) THEN labels[n + 1] ELSE -1
LettersAligned ==
  status = "running" =>
    \A i \in Rows : LET s == batch[i] IN
      \A p \in Scores(s) : LetterAt(s, p) = LabelOf(s.letters, Target(s, p))

\* Label t of initials belongs to the prediction of token t + 1: it is active
\* iff the next token begins a word, and "the bias should fire at this
\* position" (dataset.py:122-126, gptwm_initials.py:218-227).
InitialsAligned ==
  status = "running" =>
    \A i \in Rows : LET s == batch[i] IN
      \A p \in Scores(s) : ActiveAt(s, p) = LabelOf(s.active, Target(s, p) - 1)

AllDone == status = "running" /\ \A r \in Ranks : pc[r] = "done"
AllFed == UNION {UNION {fed[r][m] : m \in 1..Len(fed[r])} : r \in Ranks}

\* Under per_task normalization every term is divided by the number of
\* predictions that feed it over all ranks (loss.py:639-651).  Batches with
\* rows of initials are left out: there the divisor of the biased term also
\* counts all their response tokens.
DenominatorsCount ==
  AllDone /\ config.normalization = "per_task"
          /\ (\A i \in Rows : batch[i].task /= "initials") =>
    \A term \in Weighted(config.weights) :
      LET feeding == {t \in AllFed : t[1] = term} IN
      feeding /= {} => Denominator(term) = Cardinality(feeding)

\* The shards and the micro-batches of all ranks add up to the batch: when
\* the optimizers have stepped, each prediction of each row has fed each of
\* its terms once.
EachPredictionOnce ==
  AllDone =>
    /\ AllFed = Contributions(Rows)
    /\ Cardinality(AllFed) =
         SumOf([r \in Ranks |->
           SumOf([m \in 1..Len(fed[r]) |-> Cardinality(fed[r][m])])])

\* The replicas do not part: an optimizer steps only when every rank has
\* gone through all its micro-batches, so never when one of them raised.
OptimizersTogether ==
  \A q, r \in Ranks : pc[q] = "done" => /\ pc[r] \in {"optimize", "done"}
                                       /\ micro[r] = config.accum

\* The predictions of the response tokens are counted, the first included
\* (dataset.py:174-176).
ResponsePredicted ==
  status = "running" =>
    \A i \in Rows : LET s == batch[i] IN
      s.prompt + s.response <= MaxLength =>
        {Target(s, p) : p \in Scores(s)} = 0..(s.response - 1)

\* No update hangs (a rank that raised ends the job), and one that gives every
\* micro-batch something to learn and every row a reference of the same
\* truncation completes, the metrics of all ranks joined.
Sound ==
  /\ \A i \in Rows : Dropped(batch[i].prompt, batch[i].response)
                       = Dropped(batch[i].promptRef, batch[i].response)
  /\ \A r \in Ranks, m \in 0..(config.accum - 1) : Contributions(MicroBatch(r, m)) /= {}
UpdateEnds ==
  /\ status = "running" ~> status /= "running"
  /\ status = "running" /\ Sound ~> status = "idle"

=============================================================================
