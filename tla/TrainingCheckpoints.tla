------------------------- MODULE TrainingCheckpoints -------------------------
(***************************************************************************)
(* The training loop shared by the SDLP (KD) and the RL trainers, the      *)
(* checkpoints it leaves on disk and the way a later run resumes from      *)
(* them: WatermarkKDRayTrainer.fit and WatermarkRLTrainer.fit,             *)
(* RayPPOTrainer._save_checkpoint / _load_checkpoint and the FSDP          *)
(* checkpoint manager.                                                     *)
(*                                                                         *)
(* The disk outlives the process; everything else is lost in a crash.      *)
(* Every file is overwritten in place, so a file that is being written is  *)
(* Torn until the write ends, and stays Torn when the process dies then.   *)
(***************************************************************************)
EXTENDS Integers, Sequences, FiniteSets

CONSTANTS
  Ranks,          \* the FSDP workers; each writes its own shard
  StepsPerEpoch,  \* len(train_dataloader)
  TotalEpochs,    \* trainer.total_epochs
  TotalSteps,     \* total_training_steps: the product, or the override
  SaveFreq,       \* trainer.save_freq in steps; 0 stands for "never" (-1)
  MaxKeep,        \* trainer.max_actor_ckpt_to_keep; 0 stands for null
  ResumeModes,    \* the values of trainer.resume_mode the operator may use
  RelaunchDone,   \* TRUE: the operator may start a finished experiment again
  MaxRuns,        \* bound: how many times the experiment is started
  MaxSteps,       \* bound: the largest global step
  Missing, Torn   \* a file that is absent; a file cut off in mid-write

ASSUME RanksAssumption == Ranks # {}
ASSUME ConfigAssumption ==
  /\ StepsPerEpoch \in Nat \ {0}
  /\ TotalEpochs \in Nat \ {0}
  /\ TotalSteps \in Nat \ {0}
  /\ SaveFreq \in Nat
  /\ MaxKeep \in Nat
  /\ ResumeModes \subseteq {"auto", "disable", "resume_path"}
  /\ RelaunchDone \in BOOLEAN
\* An override beyond the length of the data could never be reached.
ASSUME LengthAssumption == TotalSteps <= TotalEpochs * StepsPerEpoch
ASSUME BoundsAssumption == MaxRuns \in Nat /\ MaxSteps \in Nat
ASSUME FilesAssumption == Missing \notin Nat /\ Torn \notin Nat /\ Missing # Torn

Steps == 0..MaxSteps
RunIds == 0..MaxRuns

(***************************************************************************)
(* weights[r] names the parameters rank r holds by the run that executed   *)
(* the current step (0 = the initial model): two runs that execute the     *)
(* same step number end with different parameters.                         *)
(***************************************************************************)
VARIABLES
  (* the disk, under trainer.default_local_dir *)
  folder,     \* the N for which global_step_N exists
  shard,      \* shard[N][r]: the files of rank r in global_step_N/actor
  data,       \* data[N]: the loader position in global_step_N/data.pt
  tracker,    \* latest_checkpointed_iteration.txt
  (* the processes *)
  pc,         \* where the driver is
  run,        \* how many times the experiment has been started
  globalSteps,
  epoch,      \* the outer loop of fit; starts at 0 in every run
  pos,        \* batches the dataloader has yielded in this pass
  weights,
  final,      \* the save in progress is the one after the loop
  savedPaths, \* rank 0's previous_saved_paths, in memory only
  writer      \* writer[r]: what rank r has done for the save in progress

disk == <<folder, shard, data, tracker>>
loopVars == <<run, globalSteps, epoch, pos, weights>>
vars == <<disk, pc, loopVars, final, savedPaths, writer>>

Saving == {"rotate", "shards", "data", "dataOpen", "tracker", "trackerOpen"}
Running == {"loop"} \cup Saving

TypeOK ==
  /\ folder \subseteq Steps
  /\ shard \in [Steps -> [Ranks -> RunIds \cup {Missing, Torn}]]
  /\ data \in [Steps -> 0..StepsPerEpoch \cup {Missing, Torn}]
  /\ tracker \in Steps \cup {Missing, Torn}
  /\ pc \in Running \cup {"down", "failed", "done"}
  /\ run \in RunIds
  /\ globalSteps \in Steps
  /\ epoch \in Nat
  /\ pos \in 0..StepsPerEpoch
  /\ weights \in [Ranks -> RunIds]
  /\ final \in BOOLEAN
  /\ savedPaths \in Seq(Steps)
  /\ writer \in [Ranks -> {"idle", "writing", "done"}]

Idle == [r \in Ranks |-> "idle"]
InitialWeights == [r \in Ranks |-> 0]

Init ==
  /\ folder = {}
  /\ shard = [s \in Steps |-> [r \in Ranks |-> Missing]]
  /\ data = [s \in Steps |-> Missing]
  /\ tracker = Missing
  /\ pc = "down"
  /\ run = 0
  /\ globalSteps = 0
  /\ epoch = 0
  /\ pos = 0
  /\ weights = InitialWeights
  /\ final = FALSE
  /\ savedPaths = <<>>
  /\ writer = Idle

-----------------------------------------------------------------------------
(***************************************************************************)
(* Starting a run: fit calls _load_checkpoint before its loop.             *)
(***************************************************************************)

MayLaunch ==
  /\ \/ pc \in {"down", "failed"}
     \/ RelaunchDone /\ pc = "done"
  /\ run < MaxRuns

\* find_latest_ckpt_path: the folder the tracker names, if both are there.
LatestFound == tracker \in Steps /\ tracker \in folder

\* Every mode but "disable" parses the tracker: int("") raises.
TrackerUnreadable(mode) == mode # "disable" /\ tracker = Torn

\* Mutant: every folder counts, whatever the tracker says.
CandidatesAnyFolder(mode) == IF mode = "disable" THEN {} ELSE folder

\* The folders a mode may resume from ("resume_path" names one by hand).
Candidates(mode) ==
  CASE mode = "auto"        -> IF LatestFound THEN {tracker} ELSE {}
    [] mode = "resume_path" -> folder
    [] OTHER                -> {}

\* torch.load raises on a shard that is absent or cut off, and on a data.pt
\* that is cut off; an absent data.pt is only a warning.
Loadable(s) ==
  /\ \A r \in Ranks : shard[s][r] \notin {Missing, Torn}
  /\ data[s] # Torn

StartLoop(steps, params, position) ==
  /\ pc' = "loop"
  /\ run' = run + 1
  /\ globalSteps' = steps
  /\ epoch' = 0
  /\ pos' = position
  /\ weights' = params
  /\ final' = FALSE
  /\ savedPaths' = <<>>
  /\ writer' = Idle
  /\ UNCHANGED disk

StartFromScratch(mode) ==
  /\ MayLaunch
  /\ \/ mode = "disable"
     \/ mode = "auto" /\ ~TrackerUnreadable(mode) /\ ~LatestFound
  /\ StartLoop(0, InitialWeights, 0)

\* Mutant: the restored run takes the saved step as already repeated.
ResumeFromNext(mode, s) ==
  /\ MayLaunch
  /\ ~TrackerUnreadable(mode)
  /\ s \in Candidates(mode)
  /\ Loadable(s)
  /\ StartLoop(s + 1, shard[s], IF data[s] = Missing THEN 0 ELSE data[s])

\* Mutant: the loader state is not restored.
ResumeFromBatchZero(mode, s) ==
  /\ MayLaunch
  /\ ~TrackerUnreadable(mode)
  /\ s \in Candidates(mode)
  /\ Loadable(s)
  /\ StartLoop(s, shard[s], 0)

ResumeFrom(mode, s) ==
  /\ MayLaunch
  /\ ~TrackerUnreadable(mode)
  /\ s \in Candidates(mode)
  /\ Loadable(s)
  /\ StartLoop(s, shard[s], IF data[s] = Missing THEN 0 ELSE data[s])

LoadFails(mode) ==
  /\ MayLaunch
  /\ \/ TrackerUnreadable(mode)
     \/ \E s \in Candidates(mode) : ~Loadable(s)
  /\ pc' = "failed"
  /\ run' = run + 1
  /\ UNCHANGED <<disk, globalSteps, epoch, pos, weights, final, savedPaths, writer>>

Launch(mode) ==
  \/ StartFromScratch(mode)
  \/ \E s \in Steps : ResumeFrom(mode, s)
  \/ LoadFails(mode)

-----------------------------------------------------------------------------
(***************************************************************************)
(* The loop of fit.                                                        *)
(***************************************************************************)

\* Mutant: saves at the end of a pass only.
SaveDueEachPass(step) == SaveFreq > 0 /\ step % StepsPerEpoch = 0

SaveDue(step) == SaveFreq > 0 /\ step % SaveFreq = 0

\* Mutant: the loader hands out one batch too many.
TrainStepPastEnd ==
  /\ pc = "loop"
  /\ pos <= StepsPerEpoch
  /\ globalSteps < MaxSteps
  /\ globalSteps' = globalSteps + 1
  /\ pos' = pos + 1
  /\ weights' = [r \in Ranks |-> run]
  /\ pc' = IF SaveDue(globalSteps') \/ globalSteps' >= TotalSteps THEN "rotate" ELSE "loop"
  /\ final' = (~SaveDue(globalSteps') /\ globalSteps' >= TotalSteps)
  /\ UNCHANGED <<disk, run, epoch, savedPaths, writer>>

\* One batch: the step counter, the update on all ranks, then the periodic
\* save or the end of the loop.
TrainStep ==
  /\ pc = "loop"
  /\ pos < StepsPerEpoch
  /\ globalSteps < MaxSteps
  /\ globalSteps' = globalSteps + 1
  /\ pos' = pos + 1
  /\ weights' = [r \in Ranks |-> run]
  /\ pc' = IF SaveDue(globalSteps') \/ globalSteps' >= TotalSteps THEN "rotate" ELSE "loop"
  /\ final' = (~SaveDue(globalSteps') /\ globalSteps' >= TotalSteps)
  /\ UNCHANGED <<disk, run, epoch, savedPaths, writer>>

\* Mutant: the loop over epochs ends one epoch early.
EpochEndEarly ==
  /\ pc = "loop"
  /\ pos = StepsPerEpoch
  /\ epoch' = epoch + 1
  /\ pos' = 0
  /\ LET over == globalSteps >= TotalSteps \/ epoch' + 1 >= TotalEpochs
     IN  /\ pc' = IF over THEN "rotate" ELSE "loop"
         /\ final' = over
  /\ UNCHANGED <<disk, run, globalSteps, weights, savedPaths, writer>>

\* The dataloader is exhausted: the next pass, or the final save.
EpochEnd ==
  /\ pc = "loop"
  /\ pos = StepsPerEpoch
  /\ epoch' = epoch + 1
  /\ pos' = 0
  /\ LET over == globalSteps >= TotalSteps \/ epoch' = TotalEpochs
     IN  /\ pc' = IF over THEN "rotate" ELSE "loop"
         /\ final' = over
  /\ UNCHANGED <<disk, run, globalSteps, weights, savedPaths, writer>>

-----------------------------------------------------------------------------
(***************************************************************************)
(* _save_checkpoint: rotate, shards, data.pt, tracker.                     *)
(***************************************************************************)

\* keep_start: how many of the oldest saved paths rank 0 removes.
RotateCount ==
  IF MaxKeep > 0 /\ Len(savedPaths) >= MaxKeep
  THEN Len(savedPaths) - MaxKeep + 1
  ELSE 0

\* Mutant: removes from the wrong end of the list.
VictimsNewest ==
  {savedPaths[i] : i \in (Len(savedPaths) - RotateCount + 1)..Len(savedPaths)}

Victims == {savedPaths[i] : i \in 1..RotateCount}

\* rmtree of a victim's actor directory, one rank's files at a time. The
\* folder and its data.pt stay.
RotateRemove(s, r) ==
  /\ pc = "rotate"
  /\ s \in Victims
  /\ shard[s][r] # Missing
  /\ shard' = [shard EXCEPT ![s][r] = Missing]
  /\ UNCHANGED <<folder, data, tracker, pc, loopVars, final, savedPaths, writer>>

\* The removed paths are forgotten, the new directory made, and the barrier
\* lets every rank write.
RotateDone ==
  /\ pc = "rotate"
  /\ \A s \in Victims, r \in Ranks : shard[s][r] = Missing
  /\ savedPaths' = SubSeq(savedPaths, RotateCount + 1, Len(savedPaths))
  /\ folder' = folder \cup {globalSteps}
  /\ writer' = Idle
  /\ pc' = "shards"
  /\ UNCHANGED <<shard, data, tracker, loopVars, final>>

ShardOpen(r) ==
  /\ pc = "shards"
  /\ writer[r] = "idle"
  /\ writer' = [writer EXCEPT ![r] = "writing"]
  /\ shard' = [shard EXCEPT ![globalSteps][r] = Torn]
  /\ UNCHANGED <<folder, data, tracker, pc, loopVars, final, savedPaths>>

ShardClose(r) ==
  /\ pc = "shards"
  /\ writer[r] = "writing"
  /\ writer' = [writer EXCEPT ![r] = "done"]
  /\ shard' = [shard EXCEPT ![globalSteps][r] = weights[r]]
  /\ UNCHANGED <<folder, data, tracker, pc, loopVars, final, savedPaths>>

\* Mutant: no barrier, the first rank that is done goes on.
ShardsDoneNoBarrier ==
  /\ pc = "shards"
  /\ \E r \in Ranks : writer[r] = "done"
  /\ savedPaths' = Append(savedPaths, globalSteps)
  /\ pc' = "data"
  /\ UNCHANGED <<disk, loopVars, final, writer>>

\* The closing barrier; the path joins the rotation list.
ShardsDone ==
  /\ pc = "shards"
  /\ \A r \in Ranks : writer[r] = "done"
  /\ savedPaths' = Append(savedPaths, globalSteps)
  /\ pc' = "data"
  /\ UNCHANGED <<disk, loopVars, final, writer>>

DataOpen ==
  /\ pc = "data"
  /\ data' = [data EXCEPT ![globalSteps] = Torn]
  /\ pc' = "dataOpen"
  /\ UNCHANGED <<folder, shard, tracker, loopVars, final, savedPaths, writer>>

DataClose ==
  /\ pc = "dataOpen"
  /\ data' = [data EXCEPT ![globalSteps] = pos]
  /\ pc' = "tracker"
  /\ UNCHANGED <<folder, shard, tracker, loopVars, final, savedPaths, writer>>

\* open(..., "w") truncates the tracker before the new step is written.
TrackerOpen ==
  /\ pc = "tracker"
  /\ tracker' = Torn
  /\ pc' = "trackerOpen"
  /\ UNCHANGED <<folder, shard, data, loopVars, final, savedPaths, writer>>

\* The save returns: to the loop, to the save after the loop, or to the end.
TrackerClose ==
  /\ pc = "trackerOpen"
  /\ tracker' = globalSteps
  /\ \/ /\ final
        /\ pc' = "done"
        /\ UNCHANGED final
     \/ /\ ~final
        /\ globalSteps >= TotalSteps
        /\ pc' = "rotate"
        /\ final' = TRUE
     \/ /\ ~final
        /\ globalSteps < TotalSteps
        /\ pc' = "loop"
        /\ UNCHANGED final
  /\ UNCHANGED <<folder, shard, data, loopVars, savedPaths, writer>>

-----------------------------------------------------------------------------
\* The job dies: a worker or the driver raises, is preempted or killed. Only
\* the disk is left.
Crash ==
  /\ pc \in Running
  /\ run < MaxRuns
  /\ pc' = "down"
  /\ globalSteps' = 0
  /\ epoch' = 0
  /\ pos' = 0
  /\ weights' = InitialWeights
  /\ final' = FALSE
  /\ savedPaths' = <<>>
  /\ writer' = Idle
  /\ UNCHANGED <<disk, run>>

\* The experiment is over: nobody starts it again.
Stopped ==
  /\ pc \in {"failed", "done"}
  /\ ~MayLaunch
  /\ UNCHANGED vars

Save ==
  \/ \E s \in Steps, r \in Ranks : RotateRemove(s, r)
  \/ RotateDone
  \/ \E r \in Ranks : ShardOpen(r)
  \/ \E r \in Ranks : ShardClose(r)
  \/ ShardsDone
  \/ DataOpen
  \/ DataClose
  \/ TrackerOpen
  \/ TrackerClose

Progress ==
  \/ \E mode \in ResumeModes : Launch(mode)
  \/ TrainStep
  \/ EpochEnd
  \/ Save

Next ==
  \/ Progress
  \/ Crash
  \/ Stopped

Spec == Init /\ [][Next]_vars

\* A run that is not killed keeps going (nothing in it waits for an outside
\* event but the barriers, which every rank reaches), and a dead job is
\* started again by its launcher. Crashes are not fair.
FairSpec == Spec /\ WF_vars(Progress)

-----------------------------------------------------------------------------
(***************************************************************************)
(* Safety                                                                  *)
(***************************************************************************)

\* global_step_s can be resumed from: all its shards come from one run and
\* the dataloader position is there.
Complete(s) ==
  /\ s \in folder
  /\ \E k \in RunIds : \A r \in Ranks : shard[s][r] = k
  /\ data[s] \notin {Missing, Torn}

\* Whatever the tracker names can be resumed from, at every moment: also when
\* a crash hits between any two file operations of a save.
TrackedCheckpointComplete == tracker \in Steps => Complete(tracker)

\* The configurations in which the previous property holds: resume_mode auto,
\* a finished experiment is left alone, at least two checkpoints are kept, and
\* no periodic save falls on the last step (save_freq = -1 is one of them).
\* "after_each_epoch" is not: the save after the loop then repeats a step.
SafeConfig ==
  /\ ResumeModes \subseteq {"auto"}
  /\ ~RelaunchDone
  /\ MaxKeep # 1
  /\ SaveFreq = 0 \/ TotalSteps % SaveFreq # 0

\* Rotation, an aborted save, another run in the same directory: none of them
\* damages the checkpoint the tracker names. Only a second save of that very
\* step does.
DamagedOnlyByResave ==
  [][\A s \in Steps : tracker = s /\ Complete(s) /\ ~Complete(s)' => globalSteps = s]_vars

\* A run never works on a step below the one the tracker names.
NeverBehindTracker == pc \in Running /\ tracker \in Steps => tracker <= globalSteps

\* The step counter and the dataloader stay together over crashes: step g is
\* trained on batch g-1 (mod StepsPerEpoch) of the stream.
LoaderAligned ==
  pc \in Running => pos % StepsPerEpoch = globalSteps % StepsPerEpoch

\* All ranks train from the parameters of one and the same checkpoint.
RanksAgree == pc = "loop" => \A q, r \in Ranks : weights[q] = weights[r]

\* A crash in the loop loses fewer than SaveFreq steps.
LostWorkBounded ==
  pc = "loop" /\ SaveFreq > 0 =>
    globalSteps - (IF tracker \in Steps THEN tracker ELSE 0) < SaveFreq

\* A run that reports "Training complete" has trained all the steps, in
\* whichever epoch it was resumed, and the tracker names its last step.
DoneMeansTrained == pc = "done" => globalSteps >= TotalSteps /\ tracker = globalSteps

\* "Rotates old checkpoints, keeping at most max_ckpt_to_keep": of the
\* directories the current run has written. Those of the runs before it stay,
\* the rotation list does not survive a restart.
OwnRetentionBound ==
  MaxKeep > 0 => Cardinality({s \in Steps : \E r \in Ranks : shard[s][r] = run}) <= MaxKeep

-----------------------------------------------------------------------------
(***************************************************************************)
(* Liveness: once the crashes stop, the experiment is trained to its end,  *)
(* whatever epoch it was resumed in, unless a crash cut off the tracker.   *)
(***************************************************************************)
EventuallyTrained == <>(pc = "done" \/ (pc = "failed" /\ tracker = Torn))

-----------------------------------------------------------------------------
(***************************************************************************)
(* What the files amount to: one durable step (0: nothing saved yet; Torn: *)
(* nothing usable). From the moment the tracker is truncated the new step  *)
(* counts as durable, unless the process dies before writing it.           *)
(***************************************************************************)
Durable ==
  CASE pc = "trackerOpen" -> globalSteps
    [] pc # "trackerOpen" /\ tracker = Missing -> 0
    [] pc # "trackerOpen" /\ tracker \in Steps /\ Complete(tracker) -> tracker
    [] OTHER -> Torn

Abstract == INSTANCE ResumableTraining WITH
  LastStep <- TotalSteps,
  Lost     <- Torn,
  live     <- CASE pc \in Running -> "running" [] pc = "done" -> "done" [] OTHER -> "down",
  at       <- globalSteps,
  durable  <- Durable

\* The checkpoint files implement one atomic durable step.
ImplementsResumableTraining == Abstract!Spec
=============================================================================
