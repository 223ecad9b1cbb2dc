# Formal models of ICW-IF

ICW-IF trains a language model to follow in-context watermark instructions: a
distillation stage (SDLP, `verl/recipe/watermark_kd_ray`), a reinforcement
learning stage (`verl/recipe/watermark_rl_ray`), the watermark library
(`watermark/`), data synthesis (`data_gen/`), evaluation (`evaluation/`) and a
vendored copy of the training framework verl (`verl/verl`).

This directory holds TLA+ models of its stateful parts, the TLC configurations
that check them and TLAPS proofs about them. `PROJECT.json` lists the
components, runs, hazards and theorems and maps every definition to the source
lines it stands for. All commands run in this directory:

    tlc -workers 2 -config Distillation.cfg MCDistillation.tla
    tlapm DistillationProofs.tla

## 1. The system

| Part | State it keeps | Operations | Talks to |
| --- | --- | --- | --- |
| Training loop (`fit` of both trainers) | `global_steps`, epoch, dataloader position | launch, resume, step, periodic and final save | workers (Ray calls, `ray.get`), the checkpoint directory |
| Checkpoints (`checkpoint_manager.py`, `fsdp_checkpoint_manager.py`, `ray_trainer.py`) | shards per rank, `data.pt`, the tracker file; `previous_saved_paths` in memory | rotate, write, track, find, load, del | every rank; later runs, through the disk alone |
| Distillation dataset and loss (`dataset.py`, `worker.py`, `loss.py`) | the batch, token counts, accumulated gradients, metrics | tokenise, mask, lift labels, count, all-reduce, forward, backward, step | ranks in lockstep through collectives; the driver through `DataProto` |
| RL step (`watermark_rl_ray/trainer.py`, `dp_actor.py`) | rollouts, rewards, valid rows, advantages | repeat, pad, generate, reward, advantages, guarded update | agent loop, reward function, workers |
| Sentence acrostic (`acrostics_icw.py`, `gptwm_acrostics_bias.py`, `acrostics_zstat.py`, `gptwm_vllm_config.py`, `bias_replay.py`) | a controller per vLLM request; nothing in the detector | absorb tokens, query a bias letter; walk; replay | vLLM creates, calls and drops controllers; replay labels the data of the distillation |
| Green list and initials (`gptwm*.py`) | masks cached per seed | mask, bias, z-score | logits processors, reward functions |
| Data pipelines (`data_gen/`) | JSONL and parquet files | shard, generate, filter, label, assemble | the training files |
| Checkpoint conversion (`tools/convert_ckpt.sh`) | `hf_model/` beside `actor/` | convert, check, purge | the checkpoint directory |
| Agent loop and servers (`agent_loop.py`, `tool_agent_loop.py`, `vllm_async_server.py`, `fsdp_workers.py`) | which mode each worker is in, weights of the engines, random states, request counts and session caches, the rows under way | wake, synchronise weights, generate in turns, call tools, sleep | trainer (same devices), reward loop |
| Reward loop (`reward_loop/limited.py`) | two token buckets, a semaphore, the threads of an executor | decode, wait, call with a timeout, score 0 on failure | agent loop workers, an API |
| Evaluation (`evaluation/`) | files | generate, detect, aggregate | - |
| verl (`verl/verl`), the rest | GPU memory, Ray actors | dispatch, models, engines | everything |

What is hard here:

* **Crashes.** A job is killed at any moment and started again in the same
  directory. Every file is overwritten in place; only the tracker decides what
  the next run resumes from. The rotation list is lost, the epoch counter
  starts again at 0, the dataloader position is restored from a file.
* **Lockstep.** The ranks are separate processes that run to the next
  collective on their own. A rank that raises leaves the others waiting until
  the driver gives up.
* **Positions.** One token of a response is known by its place in the
  response, in the actor's sequence, in the reference's sequence (another
  prompt, another truncation), in the shifted logits and in a flattened array.
  Nothing checks that they agree but two totals.
* **Two owners of one device.** Trainer and inference engine take turns with
  the memory, the weights and the random state of each device; the rows of a
  rollout are generated in between by loops that finish in any order.
* **Rows without names.** A batch is repeated, padded, cut into chunks, scored,
  cut into micro-batches by length, and put together again. What belongs to a
  row is found by its place alone.
* **Two readers of one text.** The decoder, which sees a growing and possibly
  preempted response token by token, the detector, which sees the finished
  text, and the replay, which labels the training data, must agree on where the
  first letters of sentences are.

What makes each part correct:

* checkpoints: whatever the tracker names can be resumed from; no step is lost
  beyond the save interval; a run that says it is complete is; rotation never
  removes what is still needed; in the end the training finishes.
* distillation: each prediction is compared with the reference's prediction of
  the same token, carries the label that is about that token, counts once, and is
  divided by the right number; the replicas never part; an update ends.
* acrostic: bias where the extractor counts; the detector's walk and the replay
  reproduce what the controller did.
* RL step: what is kept of a row is about that row; rows that are not valid have no
  advantage, are not counted and cost no other row its update; an update whose log-probabilities are not finite changes
  nothing; the replicas never part and never wait for ever.
* rollouts: every token comes from the trainer's current weights; turns of one
  conversation go to one server; ids, mask and log-probs of a row fit; each
  device has one owner at a time; the workers come back to the trainer.
* reward loop: the rates hold in every stretch of time, and no more calls are under
  way than allowed; nobody waits for what is there; every batch ends, even if the
  API never answers.

The hazards of `PROJECT.json` place these at their lines.

## 2. The modules

| Module | Models |
| --- | --- |
| `TrainingCheckpoints` | the loop of `fit` and the files it leaves |
| `ResumableTraining` | abstract: a step counter and one durable step |
| `TrainingCheckpointsProofs` | theorems about `TrainingCheckpoints`, and that it implements `ResumableTraining` |
| `AcrosticText` | the markdown extractor and the pre-letter test, as functions of a text |
| `AcrosticController` | a request: controller, sampler, preemption, replay, detector |
| `AcrosticProofs` | theorems about both |
| `MCAcrostics` | token vocabularies for TLC |
| `DistillationData` | tokenisation, masks, labels, routing of one row, as functions |
| `DistillationStep` | one update over all ranks |
| `MCDistillation` | rows and configurations for TLC |
| `DistillationProofs` | theorems about both distillation modules |
| `DataFlow` | what `DataProto` does to the rows of a batch: repeat, pad, unpad, chunk, split, concat |
| `DataFlowProofs` | theorems about padding, dealing out and joining |
| `SeqlenBalancing` | cutting rows into micro-batches of like work, and the way back, as functions |
| `SeqlenBalancingProofs` | theorems about both |
| `RLStep` | one RL step over driver and ranks; extends `DataFlow` and `SeqlenBalancing` |
| `RLStepProofs` | theorems about it |
| `MCRLStep` | prompts, outcomes and configurations for TLC |
| `AgentRollout` | a rollout: servers, modes of the workers, sessions, loops with tools |
| `AgentRolloutProofs` | theorems about it |
| `MCAgentRollout` | jobs for TLC |
| `RateLimiter` | the rate-limited reward manager of an agent loop worker, in integer time |
| `RateLimiterProofs` | theorems about it |
| `MCRateLimiter` | limits for TLC |

Definitions commented `Mutant` are plausible bugs: no model uses them. Each
shows that a property can fail, by taking the place of the definition that
follows it.

### Checkpoints

The disk is `folder`, `shard[step][rank]`, `data[step]` and `tracker`; all else
is memory that `Crash` resets. A file being written is `Torn` until its write
ends, so a crash between opening and closing it leaves it `Torn`. Every rank
writes its shards between two barriers (`RotateDone`, `ShardsDone`) with one
open and one close of its own; rank 0 rotates one directory at a time.
`weights[r]` is the number of the run that executed the current step, so that
two runs that reach the same step number do not have the same parameters: a
checkpoint is `Complete` if all shards come from one run and `data.pt` is
there. The three values of `resume_mode` are the three cases of `Candidates`.
The epoch loop is translated as it is: it starts at 0 in a resumed run, with
the dataloader in the middle of a pass.

`ResumableTraining` says what all this amounts to: start at the durable step,
advance, commit, finish only when the last step is durable, lose the counter in
a crash. Its one concession is that the crash may lose the durable step at the
moment it is committed (the tracker is truncated before it is written). The
refinement mapping is `Durable`.

### Sentence acrostic

`AcrosticText` works on one character per class the regular expressions tell
apart. Preprocessing cuts out fenced code, inline code and tags; blocks and
sentence starts follow `_md_segment_blocks` and
`extract_first_letters_md_with_diagnosis`; `IsPreLetter` is
`is_md_pre_letter`. Two backticks or fences next to each other are outside the
abstraction. Where the two regular expressions for what may stand before a
letter differ (lines 427-441 and 470-482: quotes and emphasis), so do the
operators, and `BiasWhereCounted` speaks of responses without these (`Unadorned`).

`AcrosticController` has one record per controller (`ctrl`, and `replay` for
the one of the training labels). `Apply` is the logits processor: absorb the
new tokens, resolve the new letters, ask for a bias. `Sample` takes any token:
a bias is a preference. `Preempt` makes a new controller that absorbs the whole
response at its next call. A controller records its decisions in `trace`, which
the code logs, and which the detector's walk is compared with.

### Distillation update

Token `n` of the response is called `n`, the last prompt token -1, and so on;
positions are those of the code, from 0. `DistillationData` computes from the
lengths of a row which positions are scored (`LossMask` then the shift of the
worker), which token each predicts (`Target`) and which label it gets (`Lift`),
and `Feeds` says which terms of the loss it enters. Padding, whose mask is 0,
is left out. The divergences are abstract: a contribution is a term, a row
and a position.

In `DistillationStep` the driver `Load`s a batch. Each rank counts its
tokens, checks the totals after the all-reduce, then goes `Forward` and
`Backward` through its micro-batches, and steps. `Progress` numbers the
collectives, and `AllHere` lets no rank leave one before all have entered
it. `BackwardFails` is a loss that does not depend on the parameters: PyTorch
raises before the first collective of the backward pass, and the others wait
there until `Abort`, where `ray.get` raises in the driver. `Collect` joins the
metrics as `DataProto.concat` does, with the keys of the first rank.

### RL step

A prompt is the dataset row it comes from, a rollout is one of a few
*outcomes*: how long it is, what the reward function finds in it, and which
pass over it, if any, gives a number that is not finite. `phase` is where
`fit` is. `Generate` is repeat, pad, generate, unpad and join by position;
`slot` and `source` are labels that the code does not have, by which the
properties tell where a row came from. `ScoreRow` is one round of the loop of
the reward function, list by list, with its detector cache. Scores and advantages
are integers: an advantage stands for itself times the number of valid rows and
the standard deviation, which the rows of a group share.

`Call` dispatches equal chunks to the ranks. Each counts the micro-batches it
needs, all take the largest count (`CutMicroBatches`), rows are cut by
`SeqlenBalancing`, and then each micro-batch is one collective (`AllHere`).
`ForwardOnly` puts the results back in order; `ForwardBackward` adds to the
gradient; `OptimizerStep` skips a gradient that is not finite. `SeqlenBalancing`
has the largest differencing method with Python's order of lists of pairs, so that the
micro-batches are those of the code, ties included.

### Rollouts

A worker `<<s, t>>` is tensor-parallel rank `t` of server `s`, in one process with
its part of the trainer. Waking is `Resume`, `UpdateWeights` (a gather over all
ranks of the trainer), `EnterRollout`, each worker at its own pace; `Sleep` is what
the server does first (it drops the prefixes), `EnterTrainer` what each worker
does. A random state is the seed it began with and how often trainer and sampler
have drawn from it. With `free_cache_engine` a manager starts by putting its new
servers to sleep, which is why `Init` has the driver there. `Send` chooses the
server as `_choose_server` does: the session cache, else the least loaded, with
the heap's order. Loops are single-turn (`raw_prompt_ids_agent_loop.py`), with
tools, or with interactions; a response is its mask, one entry per token.
A loop that has no room for another token raises (`LoopRaises`), which ends the
job.

### Reward loop

Time is an integer, a second has `Second` ticks, and tokens are measured in the
time it takes to gain them, so that nothing is rounded. A row arrives when its
rollout ends, is decoded by the executor, waits for two buckets and the
semaphore, and calls the API with a timeout. `Acquire` and `Reserve` are the two
paths of `AsyncTokenBucket.acquire`; nothing is awaited under its lock, so each
is one step. `Tick` passes time when nothing is due. A coroutine is cancelled
by the timeout; a function in a thread goes on and keeps its thread. `Join` is
the part of `_postprocess` that collects the rewards' extra information.

## 3. The runs

| Run | Question | Bounds |
| --- | --- | --- |
| `CheckpointsSafe` | with `SafeConfig`, is the tracked checkpoint usable, is little lost, does training end, do the files refine `ResumableTraining`? | 3 ranks, 7 steps over 2 epochs of 4, saves at 2, 4, 6 and 7, 2 kept, 3 crashes |
| `CheckpointsShipped` | with a save after each epoch and finished experiments started again, what still holds? | 2 ranks, 3 epochs of 2, 4 runs |
| `ShippedFinalSave` | can the tracked checkpoint be damaged as shipped? (yes) | 2 runs |
| `AcrosticWords` | do controller, replay and detector agree, is a letter given up only when stuck, and is there a bias exactly where a letter would count? | up to 5 tokens of 9 kinds, 2 letters, 1 preemption |
| `AcrosticCode` | and with inline code? (no) | 5 tokens |
| `Distillation` | pairing, letters, divisors, coverage, lockstep, metrics, termination | all batches of 4 rows of 5 kinds, 2 ranks, 3 configurations |
| `InitialsShift` | does the label of an initials row reach the prediction it is about? (no) | 2 rows, 2 ranks |
| `DistillShift` | are the response tokens the predictions that count? (no) | 2 rows, 2 ranks |
| `RLStep` | does each row keep its own response, reward, log-probs; who has an advantage; what skips an update, and what a mini-batch; do the ranks part or hang? | 2 steps of 1 or 2 prompts with 2, 4 or 6 rollouts, 2 ranks, 1 to 3 micro-batches each, 1 to 2 mini-batches, 5 configurations |
| `AgentRollout` | whose weights, random numbers and tokens is a row made of, where do its turns go, does the rollout end? | 2 rollouts of 2 or 4 rows, 2 servers of 2 ranks, responses of up to 3 tokens, 5 jobs |
| `RateLimiter` | are the limits of a worker exact, do permits come back, does every batch end? | up to 3 rows for one worker, 2 for each of two; a second of 2 ticks, arrivals until tick 3 |
| `RateLimiterThreads` | does `max_concurrent` bound the calls when they run in threads? (no) | 3 rows, 2 threads, 1 permit |

Why the bounds are enough. Checkpoints: rotation needs three saves with two
kept, a resumed run must start in the middle of an epoch and cross into the
next one, the last step must not be (`Safe`) and be (`Shipped`) a periodic
save; three crashes let a run overwrite what an aborted run left of an aborted
run. Acrostics: a letter can be missed up to the failure limit (2), hit, and
both at once in one token; the prefix limit (2) can be reached and started
again; a bullet, a soft line break, a paragraph, a heading and a quotation fit
into the texts.
Distillation: every task occurs, alone and with others, on either rank; one
row is cut in both sequences, one only in the actor's (the assertion must
fail); two micro-batches let the ranks be in different collectives; the modes
`none` and `cleanref` and the sets of weights cover every term of the loss.
The dataset is one of the constants, its rows are those the dataset builders
write.
RL step: three agent loop workers for four rows need padding, two for six do
not; rows of lengths 1 to 6 give the ranks different numbers of micro-batches;
groups have none, one, several or only valid rows; a second step meets the
detectors of the first; two mini-batches change the weights in an update.
Rollouts: the second one shows what the first left behind in the caches, the
random states and the session cache; a server has two ranks because they have to
agree when they sample; responses of three tokens are long enough for a tool's
answer that just fits, just does not, and for two turns. Reward loop: costs are
below, at and above what a bucket holds, three rows can wait behind each other,
calls are shorter and longer than the timeout or never end; `MaxTime` is past
the end of the last batch (`BatchEnds` would fail otherwise).

`CHECK_DEADLOCK FALSE` stands in the configurations of the distillation, the RL
step, the rollouts and the reward loop: after a failed update, after the last
step, and when all batches have been joined, the job is over.

Fairness. Checkpoints: weak fairness of `Progress`, as nothing in a run waits
for an outside event and a launcher starts a dead job again; none of `Crash`,
whose number `MaxRuns` bounds. `EventuallyTrained` allows one other end: the
tracker cut off by a crash. Distillation: weak fairness of each rank, which is a
process of its own, and of `Collect` and `Abort`, as `ray.get` returns when all
ranks have returned and raises when one has raised. `Load` has none: nothing
claims that there is another batch. RL step: weak fairness of the driver and of
each rank, for the same reasons; `FairSpec` writes it out with `DriverReady` and
`RankReady` for ENABLED, which TLC would take minutes to evaluate. Rollouts: weak
fairness of `Next`: servers answer, tools return, and Ray schedules its actors;
which of them goes first is open. Reward loop: weak fairness of `Next`: the event
loop runs what is due and time goes on; timers fire on time. A call to the API
need not return if it is a coroutine; a function in a thread is assumed to.

### What the violations show

* `ShippedFinalSave`: the save after the loop repeats a save of the same step in
  every shipped script. It overwrites in place the checkpoint the tracker names.
* `AcrosticCode`: the closing backtick takes back letters the controller has
  resolved, and the letters that follow are resolved from the wrong place.
* `DistillShift`: dataset and worker each shift the mask. The prediction of the
  last prompt token always counts; that of the last response token, eos, never.
* `InitialsShift`: the label of an initials row says whether the *next* token starts
  a word, that of an acrostic row which letter the token *itself* should have. Both
  are lifted and shifted alike, which is right for acrostics (`LettersAligned`)
  and one prediction early for initials (`InitialsAligned`).
* `RateLimiterThreads`: a synchronous `compute_score` goes on in its thread after
  its timeout while its permit is given back. `max_concurrent` does not bound
  the requests then (`ConcurrencyKept`), only the threads do. For coroutines it
  does (`CoroutinesBounded`, by a theorem).

Other consequences of the code that the models reproduce and no run singles out:

* Checkpoints. The comment above the tracker says "for atomic usage"
  (`ray_trainer.py:845`), but the file is truncated, then written: a crash in
  between leaves it empty, and every later start in mode `auto` raises on
  `int("")`. `EventuallyTrained` and the abstract specification allow this end.
  With `max_actor_ckpt_to_keep=1` the tracked checkpoint is removed before the
  next is written (`MaxKeep # 1` is an assumption of two theorems). The rotation
  list is forgotten by a restart, so directories of earlier runs stay
  (`OwnRetentionBound` speaks of the current run only). The save after the
  loop takes a second place in the rotation list. With `resume_mode` `disable` or
  `resume_path` a directory can hold shards of two runs: `RanksAgree` and
  `LoaderAligned` are checked for `auto`; `DamagedOnlyByResave` is proved for all
  three.
* Acrostics. The walk of the detector lacks the controller's skip in a long
  prefix, although it is said to be the same state machine
  (`acrostics_zstat.py:264`): hence the condition of
  `DetectorAgreesUnlessGivenUp`. After a full stop without a space a letter may
  arrive in a token with its own leading space, for which there was no bias.
* Distillation. The divisor of the biased term also counts all response tokens
  of initials rows, since `update_actor_kd` does not pass their number
  (`DenominatorsCount` leaves these batches out). A micro-batch of initials
  rows without labels, as `data_gen/common/build_one_task_train.py:128-131`
  writes them, feeds no term with the weights of `run_sdlp_wip.sh`: its loss is a
  constant, and `backward` raises (`BackwardFails`).
* RL step. The mean over a micro-batch whose rows are all too short is 0/0, so
  that its metrics are not numbers. Its gradient is 0: `masked_sum` cuts masked
  positions off with `torch.where`, whose backward pass gives exactly 0 there,
  whatever comes from the division. A factor 0 would give NaN and cost the valid
  rows of all ranks their step; that is the mutant `BadGradientByProduct`.
  `loss_scale_factor` weighs a micro-batch by all its rows, also those
  that are not valid. `max_token_len` bounds the average of the micro-batches, not
  each of them.
* Rollouts. `gen_random_states` is seeded with the rank
  (`fsdp_workers.py:614-619`), but with `free_cache_engine` the sleep before the
  first rollout (`agent_loop.py:751-753`) overwrites it by whatever state the
  device is in (`fsdp_workers.py:752`): the seed is never used, and
  `DeviceShared` claims only that trainer and sampler do not share a stream. What a
  user answers in an interaction is kept whatever its length, so that the next
  request may ask for no token, which raises and ends the job. A session whose
  entry falls out of the cache changes servers: `SessionsBalanced` needs as many
  entries as conversations.
* Reward loop. The limits are said to be "shared globally across all workers"
  (`limited.py:304`, also 194-196), but they are class attributes, and each agent
  loop worker starts a reward worker in a process of its own
  (`agent_loop.py:300`). Every worker has its own `bucket` and `permits` in the
  model: `BucketsExact` is a bound for each, and n workers together may send n times
  the rate. A synchronous function that never returned would keep a thread
  that decoding needs too. A row that timed out
  has other keys than one that was scored, and `_postprocess` looks those of the
  first row up in all: `KeyError` ends the rollout although `run_single` gave the
  row a 0 (`Join`, "raised").

## 4. The proofs

All theorems hold for every value of the constants allowed by the assumptions
the modules name (positive sizes, ranks that divide the batch, an override of
the length that the data can reach).

`TrainingCheckpointsProofs`

* `TypeCorrect`: `TypeOK`.
* `DoneIsTrained`: a run that ends has reached `TotalSteps`, and the tracker
  names its last step. `DoneMeansTrained` is not inductive: `LoopInv` ties the
  epoch and the position of the loop to the step counter, so that a run whose
  epochs are exhausted has counted at least the steps of the data, resumed or
  not.
* `DamageNeedsResave` (`MaxKeep # 1`): in any resume mode, no step damages the
  tracked checkpoint unless it saves that very step. `RotationInv`: the
  rotation list is the run's own saves in increasing order and, while the run
  trains, its last entry is the tracked step; rotation drops a proper prefix of
  it. Hence a victim is never the tracked directory (`TrackedIsKept`), and a
  write goes to the current step only (`CompleteKept`).
* `TrackedIsComplete` (`SafeConfig`): the tracked checkpoint is complete at every
  moment. `SaveInv` follows a save through its phases (before the tracker is
  written all shards and `data.pt` are), `SafeInv` adds that a save is never of
  the tracked step, which is where the configuration is used.
* `LoaderStaysAligned`: unless a checkpoint is named by hand, step `g` is trained on
  batch `g - 1`. `AlignedInv` says it of memory and of every `data.pt` that is whole.
* `RanksAlwaysAgree` (every launch resumes by the tracker): all ranks train from
  the parameters of one run. `UniformInv`: so do the shards of the tracked step.
* `NeverBehind` (the same): no run works on a step below the tracked one.
* `LossIsBounded`: a crash loses less than the steps between two saves. `LostInv`
  ties the step counter to the last multiple of the save interval and to the
  tracker, in every phase of a save.
* `RetentionIsBounded`: a run keeps no more of its own checkpoints than it was told
  to, in every configuration. `ListInv` says which directories of this run exist in
  each phase of rotation and writing.
* `FilesImplementDurableStep` (`SafeConfig`): the specification implements
  `ResumableTraining`, each action a step or a stutter under the mapping `Durable`.

`DistillationProofs`

* `TypeCorrect`: `TypeOK`, which includes that no rank passes its last
  micro-batch. It needs that a micro-batch lies within the rows
  (`MicroBatchRows`, integer arithmetic over `ShardRows` and
  `ProductMonotone`), and that counts are of finite sets (`CardinalityOfTokens`).
* `LettersAlways`: for every length of the prompt and the response and every
  truncation, a scored position of an acrostic row carries the letter of the token
  it predicts. `ScoredOffsets` says where the scored positions are, `LiftedLabel` what `Lift`
  puts there.
* `OptimizersAlwaysTogether`: no rank steps while another has micro-batches left
  or has raised. `Together` is the inductive form, in terms of `Progress`, and
  `OptimizerBarrier` the step at the last collective.
* `PredictionsAlwaysPaired` (`CleanReferences`: no reference prompt is longer than
  the prompt of its row): the k-th prediction of the actor and the k-th of the
  reference in the flattened arrays are of the same token of the same row. The code
  compares the totals of a shard only. `Compared` says that a rank that goes on has
  found them equal; as the reference reads no more than the actor, no row has fewer
  predictions there, so equal totals mean equal numbers row by row
  (`CountsMatchRows`), and places in the flattened arrays are unique
  (`PlaceInjective`). `dataset.py:10-13`, `assemble_mixed_train_parquet.py:6-13` and
  `build_one_task_train.py:55-59` all build the reference from the same or the clean
  prompt. Without the hypothesis TLC finds the property violated: two rows with prompts
  of 6 and 3 tokens and references of 3 and 6, cut at 8, lose the same number of
  predictions in different rows, and the totals agree.
* `EachPredictionAlwaysOnce`, `DenominatorsAlwaysCount`: `Accounted` has, rank by rank,
  what has fed each term (`FedOf`: the micro-batches gone through) and what was counted
  (`CountedOf`: the rows of the shard). Micro-batches are disjoint and share out the
  shard, so that when all ranks have finished both are sums over the same rows
  (`TotalCounts`, `SumOfSizes`).

`AcrosticProofs`, for every vocabulary, secret and limit

* `AcrosticsTypeCorrect`: `TypeOK`.
* `DetectorAlwaysAgrees`, `ReplayAlwaysFindsBias`, `HitsAlwaysCommon` (`LettersStay`:
  more tokens take back no captured letter). The inductive invariant `AcrosticInv`
  says of each of the two controllers what it has counted in the text it has absorbed:
  `Matches` ties its target, streak and outcomes to the state of the detector's walk
  over the same letters, as long as it never gave up in a prefix, and `HitsWithin` its
  hits to a row of the table of `Lcs`, in any case. Both are kept letter by letter
  (folds over the new letters), so that it makes no difference how many come at a time:
  that is why a controller made anew after a preemption is where the old one was.
  `Ahead` orders the two: the sampler's has given up only where the replay's has, as
  it has counted no more tokens of the present prefix.
* `GivesUpOnlyStuck`: `GivesUpStuck`, without that hypothesis. `CountedInv`: the count
  of prefix tokens tells how many texts in a row, up to the last one absorbed, stood
  before a letter (`PrefixRun`), and a controller that has counted any is at most one
  token behind.
* `PlainLettersStay`: a vocabulary without code and tags (`PlainTokens`, true of the
  one of `AcrosticWords`) has `LettersStay`. Run `AcrosticCode` shows that inline code
  has not. Lines, markers, blocks and acrostic positions are followed from a text to a
  longer one (`Agree`): whether a letter counts depends on what stands before it.
* `BiasAlwaysWhereCounted`: `BiasWhereCounted`, for every vocabulary. `CountedInv`
  says that a bias is asked for where `IsPreLetter` holds; `PreLetterExact` is the
  core: `IsPreLetter` of a text says whether any letter written next is at a
  place the extractor counts, for texts of any length. A text and the same with one letter more
  (`Longer`) have the same lines but the last; either the last line opens a block, or
  the letter stands in a block that goes on, where only a sentence that ends just
  before it lets it count, on its line (`AfterSentence`) or on the line above
  (`EndsSentence`).

`DataFlowProofs`

* `PaddedIsDivisible`: what `Pad` returns is made of rows of the batch and can be
  shared equally (`PaddedLength`, `SourceOfPlace`: arithmetic of remainders).
* `UnpadOfPad`: unpadding gives back the batch in its order; `Generate` of
  `RLStep` uses both.
* `ChunksShareRows`, `ConcatOfEqualParts`, `ConcatOfChunks`: equal chunks deal the rows
  out in their order, results in parts of one size keep their places when joined,
  and what was dealt out and collected is what it was.
* `SplitKeepsOrder`: mini-batches are the rows in their order, none empty, and only
  the last may be shorter.

`Concat` is a recursion over the parts. `LeastNumber` and `Induction` are induction
over a *set* of numbers (a set that has the first number and with each number the
next has all), which the provers can instantiate where the library's theorem about
an operator is out of their reach; `ConcatPlaces` is the invariant of the recursion.

`SeqlenBalancingProofs`, for every sequence of lengths and every number of parts

* `MicroBatchesShareRows`: `RearrangeMicroBatches` puts every row in one part, once,
  and leaves no part empty while there are as many rows as parts. This is the whole
  algorithm: sums (`Total`), the stable sort, the differencing method by recursion
  on the merges (each keeps the rows of the two states, `MergeFirst`, until one is
  left, `KarmarkarKarp`), the order by work, and the small ones outside. That no
  part is empty needs more than that the rows are shared: positive lengths, and that
  a merge puts the largest part of one state to the smallest of the other.
* `RestoreUndoesCutting`: what is computed in the order of the micro-batches goes back
  to the row it was computed of (`JoinedOnce`: each row has one place in the order).

`RateLimiterProofs`

* `TypeCorrect`: `TypeOK`, which ties the permits of the semaphore to the calls under
  way and its queue to the rows that wait for it.
* `RateAlwaysKept`: in no stretch of time does a worker grant more than a full bucket,
  or one larger request, and what flows in. A potential carries it (`Spent`): what has
  been granted since any moment, and what the bucket could grant now, never exceed a
  full bucket and what has flowed in since.
* `NobodyWaitsInVain`: nobody sleeps while its bucket holds enough. With the last,
  `BucketsAlwaysExact`.
* `CoroutinesAlwaysBounded`: calls that are coroutines fit `max_concurrent`, since a
  timeout ends the call and gives the permit back in one step: whoever runs still calls
  (`CoroutinesOK`), and the permits account for the rows that call (`Semaphore`).
  Nothing like it is proved for threads, where the claim is false.

`AgentRolloutProofs`

* `WeightsAlwaysCurrent`, `DeviceAlwaysShared`: `RolloutInv`. `Phases` says for each
  phase of the driver which workers may still be in the other mode, what weights an
  engine holds and what a server may remember; `Streams` whose random stream each
  device is in.
* `SessionsAlwaysBalanced`: the turns of a conversation stay with one server, and the
  counts differ by the choices made (`Sessions`: cache entries, ages and counts).
* `RowsAlwaysAligned`: ids, mask and log-probs of a row fit after every turn, answer
  and cut (`RowsMade`).
* `RowsKeepOrder`: the rows come back in the order in which they were given
  (`RowOrder`), by the theorems about joining. With the last, `RowsAlwaysWhole`.
* `TypesKept`: `TypeOK`.

`RLStepProofs`, for any number of ranks, prompts, rollouts, configurations and
outcomes, under three assumptions: positive sizes, rollouts that the ranks can share
equally (`DataProto.chunk` asserts it), and responses that fit into a micro-batch
(`rearrange_micro_batches` asserts it)

* `TypeCorrect`: `TypeOK`, from `TogetherInv` (`Together`). A rank has passed so many
  collectives, and that number says where it is: before it, waiting to leave it, or
  one beyond (`At`). Nobody can be two beyond another, as `AllHere` lets no one leave
  before all have come. Each rank's plan shares out the rows it was sent: mini-batches
  have the same lengths on all ranks, so that the largest number of micro-batches any
  rank needs is not too many for another, and `MicroBatchesShareRows` applies.
* `OptimizersTogether`: the ranks have the same version whenever they are at the same
  collective, and no update is begun after a forward pass that was not finite.
  `CollectedInv` (`Collecting`) says what has been computed in the forward passes, row by
  row, while the ranks are still at it, what the driver has put together, and that the
  flag for what is not finite was taken before it is replaced.
* `RowsKeepTogether`: `RowsStayTogether`. The rollouts are in place since the padding
  lies behind the rows that are kept (`JoinedRows`), the log-probs by
  `RestoreUndoesCutting` within a call and `ConcatOfEqualParts` over the ranks, the
  positions in the reference's sequence by arithmetic over the truncation of the
  prompt.
* `RowsUsedOnce`, `RatioPolicies`: `UsedInv` (`Using`) has the rows used so far: all of
  the mini-batches done, and of the present one those of the micro-batches done.
  `SplitKeepsOrder` makes the mini-batches disjoint, `JoinedOnce` the micro-batches.
* `RewardsAreOwn`: `RewardedInv` (`Rewarding`). The loop over the rows appends one entry
  to every list in every branch, and the cache holds under each key a detector that
  agrees with every row of that key, from one step to the next.
* `ValidRowsAdvance`: `AdvantagesInv` (`Advancing`) has what the trainer computed for
  each row. Deviations from the mean cancel because sums over a set are linear, which
  is induction over the set.

* `ValidRowsAlwaysDecide`: `ValidRowsDecideStep`. `FlagsInv` says of the flag of the
  gradient of each rank, micro-batch by micro-batch, that it is up exactly when a row
  gone through in this mini-batch that the loss counts has a gradient that is not finite
  (`MicroSpoiled`, `MiniSpoiled`): micro-batches share out the mini-batch, and the flag
  is cleared between two. The norm of the whole gradient, which decides, is then not
  finite for the rows of that mini-batch alone.

Only model-checked: the liveness properties `EventuallyTrained`, `UpdateEnds`,
`StepEnds`, `RolloutEnds`, `BatchEnds` (liveness under fairness is out of the
prover's reach). The refinement, every action property and every invariant of a
passing run is stated by a theorem. `NeverBehindTracker`, `OwnRetentionBound` and
`CoroutinesBounded` are proved and in no run.

## 5. What is not modelled

Values of losses, divergences, statistics and random masks (real numbers, seeded
generators); GPU memory beyond who holds it, offloading, schedules of the
learning rate; calls into vLLM, SGLang, FSDP and Megatron beyond what their
callers rely on; model code, kernels, Megatron, the model merger and vendored
code, which are most of the lines of the repository and have no state machine of
their own; evaluation scripts and data pipelines, which are started by hand, read
a file and write a file; the conversion of checkpoints, one such script;
colocated and standalone servers, LoRA, images, reward models behind the router,
which the two recipes do not use. `PROJECT.json` gives the reason for each part.

## 6. Plan

Done, in this order: checkpoints (the state that outlives a crash), acrostics (the
one algorithm three programs must agree on), distillation update (the recipe's
own core), with their proofs; then the RL step, the flow of its rows, the rollouts
and the reward loop; then proofs about the rollouts, the reward loop, the flow of
rows, the micro-batches, the refinement of the abstract specification, and all
safety properties of the RL step; then the pairing, the coverage and the divisors of
the distillation update, and the acrostics.

What would come next: the two regular expressions for what may stand before a letter
with emphasis and quotes (a property that says where they differ), the alignments of
`acrostics_zstat.py` beside the longest common subsequence, and the conversion of
checkpoints with a crash between its steps.
