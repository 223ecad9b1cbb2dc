-------------------------------- MODULE RLStep --------------------------------
(***************************************************************************)
(* One training step of the RL trainer (watermark_rl_ray), as shipped:     *)
(* GRPO over the rows with a valid reward, micro-batches cut by length,    *)
(* loss_agg_mode token-mean.  The driver goes through its phases; in       *)
(* "logprob", "ref" and "update" it waits for the ranks, which run on      *)
(* their own between their collectives.                                    *)
(*                                                                         *)
(* A prompt is the row of the dataset it comes from.  What a rollout comes *)
(* to is one of the outcomes of the configuration: its length, what the    *)
(* reward function finds in it, and which of the passes over it, if any,   *)
(* gives a number that is not finite ("backward": the gradient of its loss *)
(* tokens).                                                                *)
(***************************************************************************)
EXTENDS DataFlow, SeqlenBalancing, FiniteSetsExt

CONSTANTS
  Configs,       \* batches, outcomes, rollouts per prompt, workers, sizes, KL loss
  DpSize,        \* data-parallel ranks
  PromptLength,  \* rollout.prompt_length: the width of the prompt columns
  MinLen,        \* reward.MIN_LEN
  MaxSteps       \* bound on the number of steps

Ranks == 1..DpSize

\* A row of the dataset, as far as the step tells rows apart.
Samples ==
  [task : {"green", "initials", "acrostics"}, seed : Int, fraction : Nat, target : STRING,
   prompt : 1..PromptLength, promptRef : Nat]

Outcomes ==
  [length : Nat \ {0}, text : {"plain", "hack", "breaks"}, z : Int,
   badIn : {"nothing", "logprob", "ref", "backward"}]

ASSUME SizesAssumption ==
  /\ DpSize \in Nat \ {0} /\ PromptLength \in Nat \ {0}
  /\ MinLen \in Nat /\ MaxSteps \in Nat
ASSUME ConfigsAssumption ==
  \A c \in Configs :
    /\ c.n \in Nat \ {0} /\ c.workers \in Nat \ {0}
    /\ c.miniBatch \in Nat \ {0} /\ c.maxTokens \in Nat \ {0}
    /\ c.useKl \in BOOLEAN
    /\ \A b \in c.batches : /\ b \in Seq(Samples) /\ b /= << >>
                           /\ (c.n * Len(b)) % DpSize = 0
ASSUME OutcomesAssumption ==
  \A c \in Configs : /\ c.outcomes \subseteq Outcomes
                     /\ \A o \in c.outcomes : PromptLength + o.length <= c.maxTokens

VARIABLES
  config,      \* the configuration of the job
  steps,       \* global_steps
  phase,       \* what the driver is doing
  batch,       \* batch: one row per prompt
  full,        \* full_batch: one row per rollout
  reward,      \* reward_extra and the summed reward of each row
  cache,       \* the detectors the reward function has built
  oldLogProbs, \* old_log_probs, row by row
  refLogProbs, \* ref_log_prob, row by row
  badForward,  \* _olp_nan + _olp_inf + _ref_nan + _ref_inf > 0
  advantages,  \* advantages_scalar, row by row
  lossMask,    \* whether the response tokens of a row are in response_mask
  pc,          \* where each rank is in its call
  ticks,       \* collectives each rank has left in this call
  data,        \* the rows each rank was sent, cut into mini-batches
  own,         \* the number of micro-batches a rank needs for itself
  plan,        \* the micro-batches of the rows in hand
  micro,       \* how many of them are done
  mini,        \* how many mini-batches are done
  results,     \* log-probs of the micro-batches, or rows fed to the loss
  notFinite,   \* whether this mini-batch gave a gradient that is not finite
  version      \* the number of steps the optimizer of a rank has taken

driverVars == <<config, steps, phase, batch, full, reward, cache, oldLogProbs,
                refLogProbs, badForward, advantages, lossMask>>
callVars == <<pc, ticks, data, own, plan, micro, mini, results, notFinite>>
vars == <<driverVars, callVars, version>>

NoReward == [z |-> << >>, valid |-> << >>, hack |-> << >>, score |-> << >>, detector |-> << >>]

-----------------------------------------------------------------------------
(***************************************************************************)
(* The reward function                                                     *)
(***************************************************************************)

\* Mutant: the seed is not part of the key.
DetectorKeyNoSeed(s) ==
  IF s.task = "acrostics" THEN <<s.task, s.target>> ELSE <<s.task, s.fraction>>

\* The key of the cache.  Fractions are those after rounding.
DetectorKey(s) ==
  IF s.task = "acrostics" THEN <<s.task, s.target>> ELSE <<s.task, s.seed, s.fraction>>

\* What a new detector depends on.
NewDetector(s) ==
  CASE s.task = "green"     -> <<s.seed, s.fraction>>
    [] s.task = "initials"  -> <<s.seed>>
    [] s.task = "acrostics" -> <<s.target>>

\* Mutant: the short row is left out of the list of hacks.
ScoreRowMissing(lists, row) ==
  IF row.outcome.length < MinLen
  THEN [lists EXCEPT !.z = Append(@, -1000000), !.valid = Append(@, FALSE),
                     !.score = Append(@, 0), !.detector = Append(@, << >>)]
  ELSE [lists EXCEPT !.z = Append(@, row.outcome.z), !.valid = Append(@, TRUE),
                     !.hack = Append(@, 0), !.score = Append(@, row.outcome.z),
                     !.detector = Append(@, NewDetector(row.sample))]

\* One round of the loop: the list of each kind gets one entry, and the
\* cache the detector of the row.  A detector that raises gives 0.
ScoreRow(lists, row) ==
  LET s == row.sample
      short == row.outcome.length < MinLen
      hack == ~short /\ s.task = "acrostics" /\ row.outcome.text = "hack"
      scored == ~short /\ ~hack
      key == DetectorKey(s)
      detector == IF key \in DOMAIN lists.cache THEN lists.cache[key] ELSE NewDetector(s)
      z == IF hack \/ row.outcome.text = "breaks" THEN 0 ELSE row.outcome.z
  IN [z        |-> Append(lists.z, IF short THEN -1000000 ELSE z),
      valid    |-> Append(lists.valid, ~short),
      hack     |-> Append(lists.hack, IF hack THEN 1 ELSE 0),
      score    |-> Append(lists.score, IF short THEN 0 ELSE z),
      detector |-> Append(lists.detector, IF scored THEN detector ELSE << >>),
      cache    |-> IF scored THEN [k \in DOMAIN lists.cache \cup {key} |->
                                     IF k = key THEN detector ELSE lists.cache[k]]
                   ELSE lists.cache]

ScoreRows(rows) ==
  LET after[n \in 0..Len(rows)] ==
        IF n = 0 THEN [z |-> << >>, valid |-> << >>, hack |-> << >>, score |-> << >>,
                       detector |-> << >>, cache |-> cache]
        ELSE ScoreRow(after[n - 1], rows[n])
  IN after[Len(rows)]

-----------------------------------------------------------------------------
(***************************************************************************)
(* Advantages                                                              *)
(***************************************************************************)

Rows == 1..Len(full)

\* The sum of the numbers that these rows have.
SumOver(rows, number) == Total([i \in Rows |-> IF i \in rows THEN number[i] ELSE 0])

GroupOf(i) == {j \in Rows : full[j].uid = full[i].uid}
ValidOf(i) == {j \in GroupOf(i) : reward.valid[j]}

\* Mutant: the mean is that of the whole group.
AdvantageOfGroup(i) ==
  IF reward.valid[i] /\ Cardinality(GroupOf(i)) > 1
  THEN Cardinality(GroupOf(i)) * reward.score[i]
         - SumOver(GroupOf(i), reward.score)
  ELSE 0

\* (s - mean) / (std + 1e-6), times the number of valid rows and the divisor,
\* which the rows of a group share.
Advantage(i) ==
  IF reward.valid[i] /\ Cardinality(ValidOf(i)) >= 2
  THEN Cardinality(ValidOf(i)) * reward.score[i]
         - SumOver(ValidOf(i), reward.score)
  ELSE 0

-----------------------------------------------------------------------------
(***************************************************************************)
(* The input of the reference policy                                       *)
(***************************************************************************)

\* Mutant: a clean prompt that does not fit keeps its length.
RefPromptUncut(row) == IF row.sample.promptRef = 0 THEN row.sample.prompt ELSE row.sample.promptRef

\* The tokens of the clean prompt that fit; that of the actor if there is
\* none.
RefPrompt(row) ==
  IF row.sample.promptRef = 0 THEN row.sample.prompt
  ELSE IF row.sample.promptRef > PromptLength THEN PromptLength
  ELSE row.sample.promptRef

\* position_ids of the columns that attention_mask selects, in their order:
\* the prompt ends where the responses begin.
RefPositions(row) ==
  LET n == RefPrompt(row) IN
  [c \in (PromptLength - n + 1)..(PromptLength + row.outcome.length) |->
     IF c <= PromptLength THEN c - (PromptLength - n) - 1
     ELSE n + (c - PromptLength) - 1]

-----------------------------------------------------------------------------
(***************************************************************************)
(* The driver                                                              *)
(***************************************************************************)

Idle == [r \in Ranks |-> "idle"]
Zero == [r \in Ranks |-> 0]

ResetCall ==
  /\ ticks' = Zero /\ own' = Zero /\ micro' = Zero /\ mini' = Zero
  /\ plan' = [r \in Ranks |-> << >>]
  /\ results' = [r \in Ranks |-> << >>]
  /\ notFinite' = [r \in Ranks |-> FALSE]

\* A call to the workers: the batch is dispatched in equal chunks, and every
\* rank starts, with its chunk in mini-batches if it is an update.
Call(name) ==
  /\ phase' = name
  /\ pc' = [r \in Ranks |-> "start"]
  /\ LET chunks == Chunk([i \in 1..Len(full) |-> i], DpSize) IN
     data' = [r \in Ranks |-> IF name = "update" THEN Split(chunks[r], config.miniBatch)
                              ELSE <<chunks[r]>>]
  /\ ResetCall

\* The driver has what it waited for and goes on by itself.
Proceed(name) ==
  /\ phase' = name
  /\ pc' = Idle
  /\ data' = [r \in Ranks |-> << >>]
  /\ ResetCall

Init ==
  /\ config \in Configs
  /\ steps = 0 /\ phase = "next"
  /\ batch = << >> /\ full = << >>
  /\ reward = NoReward /\ cache = << >>
  /\ oldLogProbs = << >> /\ refLogProbs = << >> /\ badForward = FALSE
  /\ advantages = << >> /\ lossMask = << >>
  /\ pc = Idle /\ data = [r \in Ranks |-> << >>] /\ ticks = Zero /\ own = Zero /\ micro = Zero /\ mini = Zero
  /\ plan = [r \in Ranks |-> << >>] /\ results = [r \in Ranks |-> << >>]
  /\ notFinite = [r \in Ranks |-> FALSE]
  /\ version = Zero

\* The next batch gets its uids.
LoadPrompts ==
  /\ phase = "next" /\ steps < MaxSteps
  /\ \E b \in config.batches : batch' = [i \in 1..Len(b) |-> [uid |-> i, sample |-> b[i]]]
  /\ steps' = steps + 1
  /\ phase' = "rollout"
  /\ UNCHANGED <<config, full, reward, cache, oldLogProbs, refLogProbs, badForward,
                 advantages, lossMask, callVars, version>>

\* The batch is repeated, padded to the number of agent loop workers,
\* generated, unpadded, and joined with the repeated batch row by row: the
\* two have no column in common that union could compare.  The rows of the
\* padding are rollouts of their own; what they come to is not told apart.
Generate ==
  /\ phase = "rollout"
  /\ LET repeated == Repeat(batch, config.n)
         asked == Pad(repeated, config.workers)
         count == Len(repeated)
     IN \E outcome \in [1..count -> config.outcomes] :
          LET answers == [i \in 1..Len(asked) |->
                            [slot |-> i, source |-> asked[i].uid,
                             outcome |-> outcome[((i - 1) % count) + 1],
                             policy |-> version[1]]]
              kept == Unpad(answers, Len(asked) - count)
          IN full' = [i \in 1..count |->
               [uid |-> repeated[i].uid, sample |-> repeated[i].sample,
                slot |-> kept[i].slot, source |-> kept[i].source,
                outcome |-> kept[i].outcome, policy |-> kept[i].policy]]
  /\ phase' = "reward"
  /\ UNCHANGED <<config, steps, batch, reward, cache, oldLogProbs, refLogProbs,
                 badForward, advantages, lossMask, callVars, version>>

\* compute_reward; an acrostic without a target raises.  Then the response
\* mask, and the call for the log-probs.
ScoreBatch ==
  /\ phase = "reward"
  /\ \A i \in Rows : ~(full[i].sample.task = "acrostics" /\ full[i].sample.target = "")
  /\ LET lists == ScoreRows(full) IN
       /\ reward' = [k \in DOMAIN NoReward |-> lists[k]]
       /\ cache' = lists.cache
  /\ lossMask' = [i \in Rows |-> TRUE]
  /\ Call("logprob")
  /\ UNCHANGED <<config, steps, batch, full, oldLogProbs, refLogProbs, badForward,
                 advantages, version>>

RewardRaises ==
  /\ phase = "reward"
  /\ \E i \in Rows : full[i].sample.task = "acrostics" /\ full[i].sample.target = ""
  /\ phase' = "failed"
  /\ UNCHANGED <<config, steps, batch, full, reward, cache, oldLogProbs, refLogProbs,
                 badForward, advantages, lossMask, callVars, version>>

AllReturned == \A r \in Ranks : pc[r] = "returned"
Gathered == Concat([r \in Ranks |-> results[r]])

\* Mutant: the numbers are made finite before they are counted.
CollectLogProbsSanitised ==
  /\ phase = "logprob" /\ AllReturned
  /\ oldLogProbs' = [i \in Rows |-> [Gathered[i] EXCEPT !.finite = TRUE]]
  /\ badForward' = \E i \in Rows : ~oldLogProbs'[i].finite
  /\ IF config.useKl THEN Call("ref") ELSE Proceed("advantage")
  /\ UNCHANGED <<config, steps, batch, full, reward, cache, refLogProbs, advantages,
                 lossMask, version>>

\* The numbers that are not finite are counted, then replaced by 0.
CollectLogProbs ==
  /\ phase = "logprob" /\ AllReturned
  /\ badForward' = \E i \in Rows : ~Gathered[i].finite
  /\ oldLogProbs' = [i \in Rows |-> [Gathered[i] EXCEPT !.finite = TRUE]]
  /\ IF config.useKl THEN Call("ref") ELSE Proceed("advantage")
  /\ UNCHANGED <<config, steps, batch, full, reward, cache, refLogProbs, advantages,
                 lossMask, version>>

CollectRefLogProbs ==
  /\ phase = "ref" /\ AllReturned
  /\ badForward' = (badForward \/ \E i \in Rows : ~Gathered[i].finite)
  /\ refLogProbs' = [i \in Rows |-> [Gathered[i] EXCEPT !.finite = TRUE]]
  /\ Proceed("advantage")
  /\ UNCHANGED <<config, steps, batch, full, reward, cache, oldLogProbs, advantages,
                 lossMask, version>>

\* Mutant: the rows that are not valid stay in the response mask.
ComputeAdvantagesUnmasked ==
  /\ phase = "advantage"
  /\ advantages' = [i \in Rows |-> Advantage(i)]
  /\ IF badForward THEN phase' = "end" /\ UNCHANGED callVars ELSE Call("update")
  /\ UNCHANGED <<config, steps, batch, full, reward, cache, oldLogProbs, refLogProbs,
                 badForward, lossMask, version>>

\* Advantages, the mask without the rows that are not valid, and the guard.
ComputeAdvantages ==
  /\ phase = "advantage"
  /\ advantages' = [i \in Rows |-> Advantage(i)]
  /\ lossMask' = [i \in Rows |-> reward.valid[i]]
  /\ IF badForward THEN phase' = "end" /\ UNCHANGED callVars ELSE Call("update")
  /\ UNCHANGED <<config, steps, batch, full, reward, cache, oldLogProbs, refLogProbs,
                 badForward, version>>

CollectUpdate ==
  /\ phase = "update" /\ AllReturned
  /\ Proceed("end")
  /\ UNCHANGED <<config, steps, batch, full, reward, cache, oldLogProbs, refLogProbs,
                 badForward, advantages, lossMask, version>>

\* Mutant: the rows of the step are still there in the next.
EndStepKeepsRows ==
  /\ phase = "end"
  /\ phase' = "next"
  /\ batch' = << >> /\ reward' = NoReward
  /\ oldLogProbs' = << >> /\ refLogProbs' = << >> /\ badForward' = FALSE
  /\ advantages' = << >> /\ lossMask' = << >>
  /\ UNCHANGED <<config, steps, full, cache, callVars, version>>

\* Metrics are logged; what belongs to the step goes out of scope.
EndStep ==
  /\ phase = "end"
  /\ phase' = "next"
  /\ batch' = << >> /\ full' = << >> /\ reward' = NoReward
  /\ oldLogProbs' = << >> /\ refLogProbs' = << >> /\ badForward' = FALSE
  /\ advantages' = << >> /\ lossMask' = << >>
  /\ UNCHANGED <<config, steps, cache, callVars, version>>

-----------------------------------------------------------------------------
(***************************************************************************)
(* The ranks                                                               *)
(***************************************************************************)

\* The rows in hand: the chunk, or a mini-batch of it.
InHand(r) == data[r][mini[r] + 1]

\* attention_mask: the prompt the model sees and the response.
SeqLengths(rows) ==
  [k \in 1..Len(rows) |->
     full[rows[k]].outcome.length
       + IF phase = "ref" THEN RefPrompt(full[rows[k]]) ELSE full[rows[k]].sample.prompt]

\* No rank leaves a collective before all have entered it.
AllHere(r) ==
  \A q \in Ranks : ticks[q] > ticks[r] \/ (ticks[q] = ticks[r] /\ pc[q] = pc[r])

CountMicroBatches(r) ==
  /\ pc[r] = "start"
  /\ own' = [own EXCEPT ![r] = MicroBatchCount(SeqLengths(InHand(r)), config.maxTokens)]
  /\ pc' = [pc EXCEPT ![r] = "reduce"]
  /\ UNCHANGED <<driverVars, ticks, data, plan, micro, mini, results, notFinite, version>>

\* Mutant: every rank uses its own count.
CutOwnCount(r) ==
  /\ pc[r] = "reduce" /\ AllHere(r)
  /\ LET parts == RearrangeMicroBatches(SeqLengths(InHand(r)), own[r]) IN
     plan' = [plan EXCEPT ![r] =
       [m \in 1..Len(parts) |-> [k \in 1..Len(parts[m]) |-> InHand(r)[parts[m][k]]]]]
  /\ micro' = [micro EXCEPT ![r] = 0]
  /\ notFinite' = [notFinite EXCEPT ![r] = FALSE]
  /\ ticks' = [ticks EXCEPT ![r] = @ + 1]
  /\ pc' = [pc EXCEPT ![r] = "forward"]
  /\ UNCHANGED <<driverVars, data, own, mini, results, version>>

\* Mutant: the gradient of the mini-batch before is not set to zero.
CutMicroBatchesOnGradient(r) ==
  /\ pc[r] = "reduce" /\ AllHere(r)
  /\ LET k == Max({own[q] : q \in Ranks})
         parts == RearrangeMicroBatches(SeqLengths(InHand(r)), k)
     IN plan' = [plan EXCEPT ![r] =
          [m \in 1..k |-> [j \in 1..Len(parts[m]) |-> InHand(r)[parts[m][j]]]]]
  /\ micro' = [micro EXCEPT ![r] = 0]
  /\ ticks' = [ticks EXCEPT ![r] = @ + 1]
  /\ pc' = [pc EXCEPT ![r] = "forward"]
  /\ UNCHANGED <<driverVars, data, own, mini, results, notFinite, version>>

\* The largest count of all ranks is that of each; the rows are cut and the
\* gradient is set to zero.
CutMicroBatches(r) ==
  /\ pc[r] = "reduce" /\ AllHere(r)
  /\ LET k == Max({own[q] : q \in Ranks})
         parts == RearrangeMicroBatches(SeqLengths(InHand(r)), k)
     IN plan' = [plan EXCEPT ![r] =
          [m \in 1..k |-> [j \in 1..Len(parts[m]) |-> InHand(r)[parts[m][j]]]]]
  /\ micro' = [micro EXCEPT ![r] = 0]
  /\ notFinite' = [notFinite EXCEPT ![r] = FALSE]
  /\ ticks' = [ticks EXCEPT ![r] = @ + 1]
  /\ pc' = [pc EXCEPT ![r] = "forward"]
  /\ UNCHANGED <<driverVars, data, own, mini, results, version>>

LogProb(r, i) ==
  [row |-> i, policy |-> IF phase = "ref" THEN 0 ELSE version[r],
   finite |-> full[i].outcome.badIn /= phase]

\* compute_log_prob: the forward pass of a micro-batch; after the last, the
\* results go back into the order of the rows.
ForwardOnly(r) ==
  /\ phase \in {"logprob", "ref"}
  /\ pc[r] = "forward" /\ AllHere(r)
  /\ LET rows == plan[r][micro[r] + 1]
         done == results[r] \o [k \in 1..Len(rows) |-> LogProb(r, rows[k])]
         last == micro[r] + 1 = Len(plan[r])
         places == [m \in 1..Len(plan[r]) |->
                      [k \in 1..Len(plan[r][m]) |->
                         CHOOSE p \in 1..Len(InHand(r)) : InHand(r)[p] = plan[r][m][k]]]
     IN /\ results' = [results EXCEPT ![r] = IF last THEN Restore(done, places) ELSE done]
        /\ pc' = [pc EXCEPT ![r] = IF last THEN "returned" ELSE "forward"]
  /\ micro' = [micro EXCEPT ![r] = @ + 1]
  /\ ticks' = [ticks EXCEPT ![r] = @ + 1]
  /\ UNCHANGED <<driverVars, data, own, plan, mini, notFinite, version>>

\* The tokens of a micro-batch that its loss is the mean of.
LossRows(rows) == {rows[k] : k \in {j \in 1..Len(rows) : lossMask[rows[j]]}}

\* Mutant: masked_sum multiplies by the mask only: where it selects no token
\* the gradient is that of 0/0, and a row out of the mask is 0 times its own.
BadGradientByProduct(rows) ==
  \/ LossRows(rows) = {}
  \/ \E k \in 1..Len(rows) : full[rows[k]].outcome.badIn = "backward"

\* The loss of a micro-batch without loss tokens is 0/0, but its gradient is
\* not: torch.where gives 0 to every token out of the mask.
BadGradient(rows) == \E i \in LossRows(rows) : full[i].outcome.badIn = "backward"

\* Mutant: the current policy stands for the old one in every mini-batch.
OldPolicyCurrent(r, i) == version[r]

\* The policy the probability ratio of a row is taken against: with one
\* mini-batch that of the forward pass itself, without gradient.
OldPolicy(r, i) ==
  IF Len(data[r]) = 1 THEN version[r] ELSE oldLogProbs[i].policy

\* Mutant: the first micro-batch of a mini-batch is not accumulated.
ForwardBackwardSkip(r) ==
  /\ phase = "update"
  /\ pc[r] = "forward" /\ AllHere(r)
  /\ LET rows == plan[r][micro[r] + 1] IN
       /\ results' = [results EXCEPT ![r] = IF micro[r] = 0 /\ Len(plan[r]) > 1 THEN @ ELSE
            @ \o [k \in 1..Len(rows) |-> [row |-> rows[k], old |-> OldPolicy(r, rows[k])]]]
       /\ notFinite' = [notFinite EXCEPT ![r] = @ \/ BadGradient(rows)]
  /\ micro' = [micro EXCEPT ![r] = @ + 1]
  /\ pc' = [pc EXCEPT ![r] = IF micro[r] + 1 = Len(plan[r]) THEN "optimize" ELSE "forward"]
  /\ ticks' = [ticks EXCEPT ![r] = @ + 1]
  /\ UNCHANGED <<driverVars, data, own, plan, mini, version>>

\* update_policy: forward and backward pass of a micro-batch.
ForwardBackward(r) ==
  /\ phase = "update"
  /\ pc[r] = "forward" /\ AllHere(r)
  /\ LET rows == plan[r][micro[r] + 1] IN
       /\ results' = [results EXCEPT ![r] =
            @ \o [k \in 1..Len(rows) |-> [row |-> rows[k], old |-> OldPolicy(r, rows[k])]]]
       /\ notFinite' = [notFinite EXCEPT ![r] = @ \/ BadGradient(rows)]
  /\ micro' = [micro EXCEPT ![r] = @ + 1]
  /\ pc' = [pc EXCEPT ![r] = IF micro[r] + 1 = Len(plan[r]) THEN "optimize" ELSE "forward"]
  /\ ticks' = [ticks EXCEPT ![r] = @ + 1]
  /\ UNCHANGED <<driverVars, data, own, plan, mini, version>>

\* Mutant: a rank looks at its own part of the gradient only.
NormNotFiniteLocal(r) == notFinite[r]

\* The norm is added up over the ranks.
NormNotFinite(r) == \E q \in Ranks : notFinite[q]

\* _optimizer_step: no step if the norm of the gradient is not finite.
\* Then the next mini-batch.
OptimizerStep(r) ==
  /\ pc[r] = "optimize" /\ AllHere(r)
  /\ version' = [version EXCEPT ![r] = IF NormNotFinite(r) THEN @ ELSE @ + 1]
  /\ mini' = [mini EXCEPT ![r] = @ + 1]
  /\ pc' = [pc EXCEPT ![r] = IF mini[r] + 1 = Len(data[r]) THEN "returned" ELSE "start"]
  /\ ticks' = [ticks EXCEPT ![r] = @ + 1]
  /\ UNCHANGED <<driverVars, data, own, plan, micro, results, notFinite>>

Rank(r) ==
  \/ CountMicroBatches(r) \/ CutMicroBatches(r)
  \/ ForwardOnly(r) \/ ForwardBackward(r) \/ OptimizerStep(r)

Driver ==
  \/ Generate \/ ScoreBatch \/ RewardRaises
  \/ CollectLogProbs \/ CollectRefLogProbs
  \/ ComputeAdvantages \/ CollectUpdate \/ EndStep

Next == LoadPrompts \/ Driver \/ \E r \in Ranks : Rank(r)

Spec == Init /\ [][Next]_vars

\* When the driver and a rank can go on.
DriverReady == phase \notin {"next", "failed"} /\ \A r \in Ranks : pc[r] \in {"idle", "returned"}
RankReady(r) == pc[r] = "start" \/ (pc[r] \in {"reduce", "forward", "optimize"} /\ AllHere(r))

\* The driver and the ranks go on when they can: weak fairness of Driver and
\* of Rank(r), with ENABLED spelled out because TLC takes minutes to evaluate
\* it for the cutting of micro-batches.
FairSpec ==
  /\ Spec
  /\ <>[]DriverReady => []<><<Driver>>_vars
  /\ \A r \in Ranks : <>[]RankReady(r) => []<><<Rank(r)>>_vars

-----------------------------------------------------------------------------
(***************************************************************************)
(* Properties                                                              *)
(***************************************************************************)

\* Types, and that every row in hand is one of the batch.
TypeOK ==
  /\ config \in Configs
  /\ steps \in 0..MaxSteps
  /\ phase \in {"next", "rollout", "reward", "logprob", "ref", "advantage",
                "update", "end", "failed"}
  /\ Len(full) \in {0, config.n * Len(batch)}
  /\ badForward \in BOOLEAN
  /\ pc \in [Ranks -> {"idle", "start", "reduce", "forward", "optimize", "returned"}]
  /\ \A r \in Ranks : \A m \in 1..Len(plan[r]) : \A k \in 1..Len(plan[r][m]) :
       plan[r][m][k] \in Rows
  /\ notFinite \in [Ranks -> BOOLEAN]
  /\ version \in [Ranks -> Nat]

Scored == phase \in {"logprob", "ref", "advantage", "update", "end"}

\* What the outcome of a row is worth, told from the outcome alone.
TrueValid(row) == row.outcome.length >= MinLen
TrueScore(row) ==
  IF \/ row.outcome.text = "breaks"
     \/ row.outcome.text = "hack" /\ row.sample.task = "acrostics"
  THEN 0 ELSE row.outcome.z

\* Each row joins a prompt with a response to that very prompt, every
\* response is there once, and none is padding.  trainer.py:234-248 joins the
\* two batches by position alone.
ResponsesOfOwnPrompt ==
  /\ \A i \in Rows : full[i].uid = full[i].source
  /\ \A i, j \in Rows : full[i].slot = full[j].slot => i = j
  /\ \A i \in Rows : Cardinality(GroupOf(i)) = config.n /\ full[i].slot <= Len(full)

\* The i-th entry of every list the reward function returns is about row i,
\* whichever branch of its loop each row takes (reward.py:239-302).
RewardListsAligned ==
  Scored =>
    /\ \A k \in DOMAIN reward : Len(reward[k]) = Len(full)
    /\ \A i \in Rows : /\ reward.valid[i] = TrueValid(full[i])
                       /\ reward.valid[i] => reward.z[i] = TrueScore(full[i])
                       /\ reward.hack[i] = 1 => TrueValid(full[i]) /\ TrueScore(full[i]) = 0

\* A row is judged by the detector of its own parameters, although
\* detectors are cached over rows and steps (reward.py:160-214).
OwnDetector ==
  Scored => \A i \in Rows : reward.detector[i] \in {<< >>, NewDetector(full[i].sample)}

\* The log-probs put back in order after the micro-batches belong to the
\* rows they are stored with, and to the policy that generated the rows.
LogProbsOfOwnRow ==
  /\ phase \in {"advantage", "update", "end"} =>
       \A i \in Rows : oldLogProbs[i].row = i /\ oldLogProbs[i].policy = full[i].policy
  /\ refLogProbs /= << >> => \A i \in Rows : refLogProbs[i].row = i

\* The tokens of the input to the reference policy have the positions 0, 1,
\* 2 and so on, so that its response is that of the actor after the clean
\* prompt.
RefPositionsContiguous ==
  \A i \in Rows :
    LET positions == RefPositions(full[i])
        first == Min(DOMAIN positions)
    IN /\ first >= 1
       /\ \A c \in DOMAIN positions : positions[c] = c - first

\* Within a group the advantages of the valid rows add up to zero and order
\* the rows as their scores do; all others are zero.  A row that is not
\* valid has no influence on them (trainer.py:328-332).
ValidRowsDecide ==
  phase \in {"update", "end"} =>
    \A i \in Rows :
      LET peers == {j \in GroupOf(i) : TrueValid(full[j])} IN
      IF i \in peers /\ Cardinality(peers) > 1
      THEN /\ SumOver(peers, advantages) = 0
           /\ \A j \in peers : (advantages[i] > advantages[j])
                                = (TrueScore(full[i]) > TrueScore(full[j]))
      ELSE advantages[i] = 0

\* The response tokens the loss counts are those of the valid rows, so that
\* no token with an advantage is left out and no other stays in.
LossCountsValidRows ==
  phase \in {"update", "end"} =>
    \A i \in Rows : /\ lossMask[i] = TrueValid(full[i])
                    /\ advantages[i] /= 0 => lossMask[i]

\* What the trainer keeps of a row in its many lists and tensors is about that
\* row: its prompt, its response, its log-probs and its place in the input of
\* the reference policy.
RowsStayTogether == ResponsesOfOwnPrompt /\ LogProbsOfOwnRow /\ RefPositionsContiguous

\* A row has the reward of its own text, judged by the detector of its own
\* parameters.
RewardsOfOwnRow == RewardListsAligned /\ OwnDetector

\* The advantages, and the tokens the loss counts, are those of the valid
\* rows, whatever the rows that are not valid come to.
AdvantagesOfValidRows == ValidRowsDecide /\ LossCountsValidRows

\* Every ratio of an update is taken against the policy that generated the
\* rollouts, also after the first mini-batches have changed the weights.
RatioToRolloutPolicy ==
  phase = "update" =>
    \A r \in Ranks : \A k \in 1..Len(results[r]) :
      results[r][k].old = full[results[r][k].row].policy

\* A rank that is through its shard has used every row of it once.
EachRowOnce ==
  phase = "update" =>
    \A r \in Ranks : pc[r] = "returned" =>
      /\ Len(results[r]) = Len(full) \div DpSize
      /\ {results[r][k].row : k \in 1..Len(results[r])}
           = {i \in Rows : (i - 1) \div (Len(full) \div DpSize) = r - 1}

\* The ranks step their optimizers alike: where one is ahead of another, it
\* is in its mini-batches, by one.
ReplicasAgree ==
  \A q, r \in Ranks :
    /\ mini[q] = mini[r] => version[q] = version[r]
    /\ mini[q] > mini[r] => mini[q] = mini[r] + 1 /\ version[q] - version[r] \in {0, 1}

\* No optimizer takes a step in an update whose forward passes, of the actor
\* or of the reference, gave a number that is not finite, although these
\* numbers are replaced by 0 before the guard looks (trainer.py:293-295,
\* 394).
BadForwardSkipsUpdate ==
  [][version' /= version =>
       \A i \in Rows : full[i].outcome.badIn \notin
         {"logprob"} \cup (IF config.useKl THEN {"ref"} ELSE {})]_vars

\* The optimizers step alike on all ranks, and on none of them in an update
\* that the guard of fit must skip.
UpdateTogether == []ReplicasAgree /\ BadForwardSkipsUpdate

\* Some row of the m-th mini-batch of rank r is valid and has a gradient that
\* is not finite.
BadValidRow(r, m) ==
  \E k \in 1..Len(data[r][m]) :
    LET row == full[data[r][m][k]] IN TrueValid(row) /\ row.outcome.badIn = "backward"

\* Rows that are not valid "contribute nothing" (trainer.py:331-332), also
\* where a micro-batch consists of nothing else: a rank leaves a mini-batch
\* without a step if and only if some rank has in that very mini-batch a valid
\* row whose gradient is not finite, not for a row too short, not for one of
\* the mini-batch before.
ValidRowsDecideStep ==
  [][\A r \in Ranks : mini'[r] = mini[r] + 1 =>
       (version'[r] = version[r] <=> \E q \in Ranks : BadValidRow(q, mini[r] + 1))]_vars

\* A step ends, whatever the lengths of the rows of each rank.
StepEnds == phase = "rollout" ~> phase \in {"next", "failed"}

=============================================================================
