---------------------- MODULE TrainingCheckpointsProofs ----------------------
(***************************************************************************)
(* Proofs about TrainingCheckpoints, for every number of ranks, steps,     *)
(* epochs, runs and crashes: its types, what a tracker names is complete,  *)
(* and what a resumed run can rely on: its loader and its step counter     *)
(* agree, its ranks agree, it lost less than one period of saves, its own  *)
(* checkpoints are bounded; and, in a safe configuration, the files        *)
(* implement the one durable step of ResumableTraining.                    *)
(***************************************************************************)
EXTENDS TrainingCheckpoints, FiniteSetTheorems, TLAPS

-----------------------------------------------------------------------------
(***************************************************************************)
(* Types                                                                   *)
(***************************************************************************)

\* A path list keeps its type when rank 0 drops its head: keep_start never
\* exceeds the length of the list.
LEMMA RotateCountType ==
  ASSUME MaxKeep \in Nat, savedPaths \in Seq(Steps)
  PROVE  /\ RotateCount \in 0..Len(savedPaths)
         /\ Len(SubSeq(savedPaths, RotateCount + 1, Len(savedPaths)))
              = Len(savedPaths) - RotateCount
         /\ SubSeq(savedPaths, RotateCount + 1, Len(savedPaths)) \in Seq(Steps)
         /\ \A i \in 1..(Len(savedPaths) - RotateCount) :
              SubSeq(savedPaths, RotateCount + 1, Len(savedPaths))[i]
                = savedPaths[i + RotateCount]
<1>1. Len(savedPaths) \in Nat
  OBVIOUS
<1>2. RotateCount \in 0..Len(savedPaths)
  BY <1>1 DEF RotateCount
<1>3. \A i \in (RotateCount + 1)..Len(savedPaths) : savedPaths[i] \in Steps
  BY <1>2
<1> QED
  BY <1>1, <1>2, <1>3

\* The type invariant: in particular every step that is written to stays
\* within the directories the run can name.
LEMMA TypeStep == TypeOK /\ [Next]_vars => TypeOK'
<1> SUFFICES ASSUME TypeOK, [Next]_vars PROVE TypeOK'
  OBVIOUS
<1> USE ConfigAssumption, BoundsAssumption, FilesAssumption
<1>1. CASE \E mode \in ResumeModes : Launch(mode)
  <2>1. ASSUME NEW steps \in Steps, NEW params \in [Ranks -> RunIds],
               NEW position \in 0..StepsPerEpoch, MayLaunch,
               StartLoop(steps, params, position)
        PROVE  TypeOK'
    <3>1. run + 1 \in RunIds /\ Idle \in [Ranks -> {"idle", "writing", "done"}]
      BY <2>1 DEF TypeOK, MayLaunch, RunIds, Idle
    <3>2. savedPaths' \in Seq(Steps)
      BY <2>1 DEF StartLoop
    <3>3. UNCHANGED <<folder, shard, data, tracker>>
      BY <2>1 DEF StartLoop, disk
    <3>4. pc' \in Running /\ epoch' \in Nat /\ final' \in BOOLEAN
      BY <2>1 DEF StartLoop, Running
    <3> QED
      BY <2>1, <3>1, <3>2, <3>3, <3>4 DEF TypeOK, StartLoop
  <2>2. ASSUME NEW mode \in ResumeModes, StartFromScratch(mode)
        PROVE  TypeOK'
    BY <2>1, <2>2 DEF StartFromScratch, InitialWeights, RunIds, Steps
  <2>3. ASSUME NEW mode \in ResumeModes, NEW s \in Steps, ResumeFrom(mode, s)
        PROVE  TypeOK'
    <3>1. shard[s] \in [Ranks -> RunIds]
      BY <2>3 DEF TypeOK, ResumeFrom, Loadable
    <3>2. (IF data[s] = Missing THEN 0 ELSE data[s]) \in 0..StepsPerEpoch
      BY <2>3 DEF TypeOK, ResumeFrom, Loadable
    <3> QED
      BY <2>1, <2>3, <3>1, <3>2 DEF ResumeFrom
  <2>4. ASSUME NEW mode \in ResumeModes, LoadFails(mode)
        PROVE  TypeOK'
    BY <2>4 DEF TypeOK, LoadFails, MayLaunch, disk, RunIds
  <2> QED
    BY <1>1, <2>2, <2>3, <2>4 DEF Launch
<1>2. CASE TrainStep
  BY <1>2 DEF TypeOK, TrainStep, disk, Running, Saving, Steps
<1>3. CASE EpochEnd
  BY <1>3 DEF TypeOK, EpochEnd, disk, Running, Saving
<1>4. ASSUME NEW s \in Steps, NEW r \in Ranks, RotateRemove(s, r)
      PROVE  TypeOK'
  BY <1>4 DEF TypeOK, RotateRemove, loopVars
<1>5. CASE RotateDone
  BY <1>5, RotateCountType DEF TypeOK, RotateDone, loopVars, Running, Saving, Idle
<1>6. CASE \E r \in Ranks : ShardOpen(r)
  BY <1>6 DEF TypeOK, ShardOpen, loopVars, Running, Saving
<1>7. CASE \E r \in Ranks : ShardClose(r)
  BY <1>7 DEF TypeOK, ShardClose, loopVars, Running, Saving
<1>8. CASE ShardsDone
  BY <1>8 DEF TypeOK, ShardsDone, loopVars, disk, Running, Saving
<1>9. CASE DataOpen
  BY <1>9 DEF TypeOK, DataOpen, loopVars, Running, Saving
<1>10. CASE DataClose
  BY <1>10 DEF TypeOK, DataClose, loopVars, Running, Saving
<1>11. CASE TrackerOpen
  BY <1>11 DEF TypeOK, TrackerOpen, loopVars, Running, Saving
<1>12. CASE TrackerClose
  BY <1>12 DEF TypeOK, TrackerClose, loopVars, Running, Saving
<1>13. CASE Crash
  <2>1. savedPaths' \in Seq(Steps)
    BY <1>13 DEF Crash
  <2>2. globalSteps' \in Steps
    BY <1>13 DEF Crash, Steps
  <2>3. weights' \in [Ranks -> RunIds] /\ writer' \in [Ranks -> {"idle", "writing", "done"}]
    BY <1>13 DEF Crash, InitialWeights, Idle, RunIds
  <2>4. UNCHANGED <<folder, shard, data, tracker, run>>
    BY <1>13 DEF Crash, disk
  <2>5. pc' = "down" /\ final' \in BOOLEAN /\ epoch' = 0 /\ pos' = 0
    BY <1>13 DEF Crash
  <2> QED
    BY <2>1, <2>2, <2>3, <2>4, <2>5 DEF TypeOK
<1>14. CASE UNCHANGED vars
  BY <1>14 DEF TypeOK, vars, disk, loopVars
<1> QED
  BY <1>1, <1>2, <1>3, <1>4, <1>5, <1>6, <1>7, <1>8, <1>9, <1>10, <1>11,
     <1>12, <1>13, <1>14 DEF Next, Progress, Save, Stopped

\* The initial disk is empty, so typing holds at the start and then for ever.
THEOREM TypeCorrect == Spec => []TypeOK
<1>1. Init => TypeOK
  <2>1. 0 \in Steps /\ 0 \in RunIds /\ 0 \in 0..StepsPerEpoch
    BY ConfigAssumption, BoundsAssumption DEF Steps, RunIds
  <2>2. ASSUME Init PROVE savedPaths \in Seq(Steps)
    BY <2>2 DEF Init
  <2>3. ASSUME Init
        PROVE  /\ shard \in [Steps -> [Ranks -> RunIds \cup {Missing, Torn}]]
               /\ data \in [Steps -> 0..StepsPerEpoch \cup {Missing, Torn}]
               /\ weights \in [Ranks -> RunIds]
               /\ writer \in [Ranks -> {"idle", "writing", "done"}]
    BY <2>1, <2>3 DEF Init, InitialWeights, Idle
  <2>4. ASSUME Init
        PROVE  /\ folder \subseteq Steps /\ tracker \in Steps \cup {Missing, Torn}
               /\ pc \in Running \cup {"down", "failed", "done"} /\ run \in RunIds
               /\ globalSteps \in Steps /\ epoch \in Nat /\ pos \in 0..StepsPerEpoch
               /\ final \in BOOLEAN
    BY <2>1, <2>4 DEF Init
  <2> QED
    BY <2>2, <2>3, <2>4 DEF TypeOK
<1> QED
  BY <1>1, TypeStep, PTL DEF Spec

-----------------------------------------------------------------------------
(***************************************************************************)
(* A run is over only when all steps are trained. The outer loop of fit    *)
(* counts its epochs from 0 in every run, resumed or not, so "the epochs   *)
(* are used up" must be related to the step counter: a run has made at     *)
(* least epoch * StepsPerEpoch + pos steps, because the position it        *)
(* resumed at is never beyond the step it resumed at.                      *)
(***************************************************************************)
LoopInv ==
  /\ \A s \in Steps : data[s] \in Nat => data[s] <= s
  /\ pc \in Running => globalSteps >= epoch * StepsPerEpoch + pos
  /\ pc = "loop" => epoch < TotalEpochs
  /\ pc \in Saving /\ final => globalSteps >= TotalSteps
  /\ DoneMeansTrained

\* The counting argument, one action at a time.
LEMMA LoopStep == TypeOK /\ LoopInv /\ [Next]_vars => LoopInv'
<1> SUFFICES ASSUME TypeOK, LoopInv, [Next]_vars PROVE LoopInv'
  OBVIOUS
<1> USE ConfigAssumption, FilesAssumption
<1> DEFINE Elapsed == epoch * StepsPerEpoch
<1>0. /\ globalSteps \in Nat /\ epoch \in Nat /\ pos \in Nat
      /\ StepsPerEpoch \in Nat /\ Elapsed \in Nat
  BY DEF TypeOK, Steps
<1>1. ASSUME NEW mode \in ResumeModes, Launch(mode)
      PROVE  LoopInv'
  <2>1. ASSUME NEW steps \in Steps, NEW params, NEW position \in 0..StepsPerEpoch,
               position <= steps, StartLoop(steps, params, position)
        PROVE  LoopInv'
    <3>1. 0 * StepsPerEpoch = 0
      OBVIOUS
    <3> QED
      BY <2>1, <3>1 DEF LoopInv, DoneMeansTrained, StartLoop, disk, Saving, Steps
  <2>2. CASE StartFromScratch(mode)
    BY <2>1, <2>2, BoundsAssumption DEF StartFromScratch, Steps
  <2>3. ASSUME NEW s \in Steps, ResumeFrom(mode, s)
        PROVE  LoopInv'
    <3>1. data[s] # Missing => data[s] \in 0..StepsPerEpoch /\ data[s] <= s
      BY <2>3 DEF ResumeFrom, Loadable, TypeOK, LoopInv
    <3>2. (IF data[s] = Missing THEN 0 ELSE data[s]) \in 0..StepsPerEpoch
      BY <3>1
    <3>3. (IF data[s] = Missing THEN 0 ELSE data[s]) <= s
      BY <3>1 DEF Steps
    <3> QED
      BY <2>1, <2>3, <3>2, <3>3 DEF ResumeFrom
  <2>4. CASE LoadFails(mode)
    BY <2>4 DEF LoopInv, DoneMeansTrained, LoadFails, disk, Running, Saving
  <2> QED
    BY <1>1, <2>2, <2>3, <2>4 DEF Launch
<1>2. CASE TrainStep
  <2>1. Elapsed' = Elapsed
    BY <1>2 DEF TrainStep
  <2>2. globalSteps' >= Elapsed' + pos'
    BY <1>0, <1>2, <2>1 DEF TrainStep, LoopInv, Running
  <2>3. pc' \in Saving /\ final' => globalSteps' >= TotalSteps
    BY <1>2 DEF TrainStep
  <2>4. pc' # "done" /\ (pc' = "loop" => epoch' < TotalEpochs)
    BY <1>2 DEF TrainStep, LoopInv
  <2> QED
    BY <1>2, <2>2, <2>3, <2>4 DEF TrainStep, LoopInv, DoneMeansTrained, disk
<1>3. CASE EpochEnd
  <2>1. Elapsed' = Elapsed + StepsPerEpoch
    BY <1>0, <1>3 DEF EpochEnd
  <2>2. globalSteps' >= Elapsed' + pos'
    BY <1>0, <1>3, <2>1 DEF EpochEnd, LoopInv, Running
  <2>3. epoch' = TotalEpochs => globalSteps' >= TotalSteps
    BY <1>0, <1>3, <2>2, LengthAssumption DEF EpochEnd
  <2>4. epoch' <= TotalEpochs
    BY <1>0, <1>3 DEF EpochEnd, LoopInv
  <2>5. pc' # "done" /\ (pc' = "loop" => epoch' # TotalEpochs)
    BY <1>3 DEF EpochEnd
  <2>6. final' => globalSteps' >= TotalSteps
    BY <1>3, <2>3 DEF EpochEnd
  <2>7. pc' = "loop" => epoch' < TotalEpochs
    BY <1>0, <1>3, <2>4, <2>5 DEF EpochEnd
  <2> QED
    BY <1>3, <2>2, <2>5, <2>6, <2>7 DEF EpochEnd, LoopInv, DoneMeansTrained, disk
<1>4. ASSUME NEW s \in Steps, NEW r \in Ranks, RotateRemove(s, r)
      PROVE  LoopInv'
  BY <1>4 DEF RotateRemove, LoopInv, DoneMeansTrained, loopVars
<1>5. CASE RotateDone
  BY <1>5 DEF RotateDone, LoopInv, DoneMeansTrained, loopVars, Running, Saving
<1>6. ASSUME NEW r \in Ranks, ShardOpen(r) PROVE LoopInv'
  BY <1>6 DEF ShardOpen, LoopInv, DoneMeansTrained, loopVars
<1>7. ASSUME NEW r \in Ranks, ShardClose(r) PROVE LoopInv'
  BY <1>7 DEF ShardClose, LoopInv, DoneMeansTrained, loopVars
<1>8. CASE ShardsDone
  BY <1>8 DEF ShardsDone, LoopInv, DoneMeansTrained, loopVars, disk, Running, Saving
<1>9. CASE DataOpen
  BY <1>9 DEF DataOpen, TypeOK, LoopInv, DoneMeansTrained, loopVars, Running, Saving
<1>10. CASE DataClose
  <2>1. pos <= globalSteps
    BY <1>0, <1>10 DEF DataClose, LoopInv, Running, Saving
  <2>2. \A s \in Steps : data'[s] \in Nat => data'[s] <= s
    BY <1>10, <2>1 DEF DataClose, TypeOK, LoopInv
  <2> QED
    BY <1>10, <2>2 DEF DataClose, LoopInv, DoneMeansTrained, loopVars, Running, Saving
<1>11. CASE TrackerOpen
  BY <1>11 DEF TrackerOpen, LoopInv, DoneMeansTrained, loopVars, Running, Saving
<1>12. CASE TrackerClose
  <2>1. globalSteps >= epoch * StepsPerEpoch + pos
    BY <1>12 DEF TrackerClose, LoopInv, Running, Saving
  <2>2. final => globalSteps >= TotalSteps
    BY <1>12 DEF TrackerClose, LoopInv, Saving
  <2>3. globalSteps < TotalSteps => epoch < TotalEpochs
    <3>1. globalSteps < TotalEpochs * StepsPerEpoch
          => epoch * StepsPerEpoch < TotalEpochs * StepsPerEpoch
      BY <1>0, <2>1
    <3>2. epoch * StepsPerEpoch < TotalEpochs * StepsPerEpoch => epoch < TotalEpochs
      BY <1>0
    <3> QED
      BY <1>0, <3>1, <3>2, LengthAssumption
  <2> QED
    BY <1>0, <1>12, <2>1, <2>2, <2>3
    DEF TrackerClose, LoopInv, DoneMeansTrained, loopVars, Running, Saving
<1>13. CASE Crash
  BY <1>13 DEF Crash, LoopInv, DoneMeansTrained, disk, Running, Saving
<1>14. CASE UNCHANGED vars
  BY <1>14 DEF vars, disk, loopVars, LoopInv, DoneMeansTrained
<1> QED
  BY <1>1, <1>2, <1>3, <1>4, <1>5, <1>6, <1>7, <1>8, <1>9, <1>10, <1>11,
     <1>12, <1>13, <1>14 DEF Next, Progress, Save, Stopped

\* The counting invariant holds in every reachable state.
LEMMA LoopInvariant == Spec => []LoopInv
<1>1. Init => LoopInv
  BY FilesAssumption DEF Init, LoopInv, DoneMeansTrained, Running, Saving
<1> QED
  BY <1>1, LoopStep, TypeCorrect, PTL DEF Spec

\* No run, fresh or resumed in any epoch and in any mode, reports completion
\* before TotalSteps steps are trained.
THEOREM DoneIsTrained == Spec => []DoneMeansTrained
<1>1. LoopInv => DoneMeansTrained
  BY DEF LoopInv
<1> QED
  BY <1>1, LoopInvariant, PTL

-----------------------------------------------------------------------------
(***************************************************************************)
(* Rotation never removes what the tracker names. The list rank 0 keeps is *)
(* the run's own saves in increasing order, and while the run trains its   *)
(* last entry is the tracked step; rotation drops a proper prefix of it.   *)
(* The order fails only for the save after the loop, which may repeat the  *)
(* last step, and no save follows that one.                                *)
(***************************************************************************)
Increasing(s) == \A i, j \in 1..Len(s) : i < j => s[i] < s[j]
Below(s, n) == \A i \in 1..Len(s) : s[i] < n
AtMost(s, n) == \A i \in 1..Len(s) : s[i] <= n

RotationInv ==
  /\ pc \in {"loop", "rotate", "shards"} =>
       Increasing(savedPaths) /\ AtMost(savedPaths, globalSteps)
  /\ pc \in {"rotate", "shards"} /\ ~final => Below(savedPaths, globalSteps)
  /\ pc \in {"loop", "rotate"} /\ Len(savedPaths) > 0 =>
       tracker = savedPaths[Len(savedPaths)]
  /\ pc \in {"data", "dataOpen", "tracker", "trackerOpen"} =>
       /\ Len(savedPaths) > 0
       /\ savedPaths[Len(savedPaths)] = globalSteps
       /\ AtMost(savedPaths, globalSteps)
       /\ ~final => Increasing(savedPaths)

\* The part of the list that survives a rotation is as ordered as the list.
LEMMA RotateOrder ==
  ASSUME MaxKeep \in Nat, savedPaths \in Seq(Steps), NEW n \in Nat,
         NEW kept, kept = SubSeq(savedPaths, RotateCount + 1, Len(savedPaths))
  PROVE  /\ Increasing(savedPaths) => Increasing(kept)
         /\ AtMost(savedPaths, n) => AtMost(kept, n)
         /\ Below(savedPaths, n) => Below(kept, n)
<1>1. Len(savedPaths) \in Nat /\ RotateCount \in 0..Len(savedPaths)
  BY RotateCountType
<1>2. Len(kept) = Len(savedPaths) - RotateCount
  BY RotateCountType
<1>3. \A i \in 1..Len(kept) :
        /\ i + RotateCount \in 1..Len(savedPaths)
        /\ kept[i] = savedPaths[i + RotateCount]
  BY <1>1, <1>2, RotateCountType
<1>4. Increasing(savedPaths) => Increasing(kept)
  BY <1>1, <1>3 DEF Increasing
<1> QED
  BY <1>3, <1>4 DEF AtMost, Below

\* Appending the step just saved to the list.
LEMMA AppendOrder ==
  ASSUME NEW s \in Seq(Steps), NEW n \in Steps, AtMost(s, n)
  PROVE  /\ Len(Append(s, n)) > 0
         /\ Append(s, n)[Len(Append(s, n))] = n
         /\ AtMost(Append(s, n), n)
         /\ Increasing(s) /\ Below(s, n) => Increasing(Append(s, n))
<1>1. /\ Len(s) \in Nat
      /\ Len(Append(s, n)) = Len(s) + 1
      /\ Append(s, n)[Len(s) + 1] = n
      /\ \A i \in 1..Len(s) : Append(s, n)[i] = s[i]
  OBVIOUS
<1>2. n <= n
  BY DEF Steps
<1>3. AtMost(Append(s, n), n)
  BY <1>1, <1>2 DEF AtMost
<1>4. Increasing(s) /\ Below(s, n) => Increasing(Append(s, n))
  BY <1>1 DEF Increasing, Below
<1> QED
  BY <1>1, <1>3, <1>4

\* The rotation invariant is kept by every step.
LEMMA RotationStep == TypeOK /\ RotationInv /\ [Next]_vars => RotationInv'
<1> SUFFICES ASSUME TypeOK, RotationInv, [Next]_vars PROVE RotationInv'
  OBVIOUS
<1> USE ConfigAssumption, FilesAssumption
<1>0. /\ savedPaths \in Seq(Steps) /\ Len(savedPaths) \in Nat
      /\ \A i \in 1..Len(savedPaths) : savedPaths[i] \in Nat
      /\ globalSteps \in Nat
  <2>1. \A i \in 1..Len(savedPaths) : savedPaths[i] \in Steps
    BY DEF TypeOK
  <2> QED
    BY <2>1 DEF TypeOK, Steps
<1>1. ASSUME NEW mode \in ResumeModes, Launch(mode)
      PROVE  RotationInv'
  <2>1. ASSUME NEW steps, NEW params, NEW position, StartLoop(steps, params, position)
        PROVE  RotationInv'
    <3>1. Len(savedPaths') = 0 /\ pc' = "loop"
      BY <2>1 DEF StartLoop
    <3> QED
      BY <3>1 DEF RotationInv, Increasing, AtMost
  <2>2. CASE LoadFails(mode)
    BY <2>2 DEF LoadFails, RotationInv
  <2> QED
    BY <1>1, <2>1, <2>2 DEF Launch, StartFromScratch, ResumeFrom
<1>2. CASE TrainStep
  <2>1. AtMost(savedPaths, globalSteps) /\ Increasing(savedPaths)
    BY <1>2 DEF TrainStep, RotationInv
  <2>2. AtMost(savedPaths, globalSteps') /\ Below(savedPaths, globalSteps')
    BY <1>0, <1>2, <2>1 DEF TrainStep, AtMost, Below
  <2>3. pc' \in {"loop", "rotate"} /\ UNCHANGED <<savedPaths, tracker>>
    BY <1>2 DEF TrainStep, disk
  <2> QED
    BY <1>2, <2>1, <2>2, <2>3 DEF TrainStep, RotationInv, Increasing, AtMost, Below
<1>3. CASE EpochEnd
  <2>1. pc' = "loop" \/ (pc' = "rotate" /\ final')
    BY <1>3 DEF EpochEnd
  <2> QED
    BY <1>3, <2>1 DEF EpochEnd, RotationInv, Increasing, AtMost, Below, disk
<1>4. ASSUME NEW s \in Steps, NEW r \in Ranks, RotateRemove(s, r)
      PROVE  RotationInv'
  BY <1>4 DEF RotateRemove, RotationInv, loopVars, Increasing, AtMost, Below
<1>5. CASE RotateDone
  <2>1. /\ Increasing(savedPaths') /\ AtMost(savedPaths', globalSteps)
        /\ ~final => Below(savedPaths', globalSteps)
    BY <1>0, <1>5, RotateOrder DEF RotateDone, RotationInv
  <2>2. pc' = "shards" /\ UNCHANGED <<globalSteps, final>>
    BY <1>5 DEF RotateDone, loopVars
  <2> QED
    BY <2>1, <2>2 DEF RotationInv, Increasing, AtMost, Below
<1>6. ASSUME NEW r \in Ranks, ShardOpen(r) PROVE RotationInv'
  BY <1>6 DEF ShardOpen, RotationInv, loopVars, Increasing, AtMost, Below
<1>7. ASSUME NEW r \in Ranks, ShardClose(r) PROVE RotationInv'
  BY <1>7 DEF ShardClose, RotationInv, loopVars, Increasing, AtMost, Below
<1>8. CASE ShardsDone
  <2>1. /\ Len(savedPaths') > 0
        /\ savedPaths'[Len(savedPaths')] = globalSteps
        /\ AtMost(savedPaths', globalSteps)
        /\ ~final => Increasing(savedPaths')
    BY <1>0, <1>8, AppendOrder DEF ShardsDone, RotationInv, TypeOK
  <2>2. pc' = "data" /\ UNCHANGED <<globalSteps, final>>
    BY <1>8 DEF ShardsDone, loopVars
  <2> QED
    BY <2>1, <2>2 DEF RotationInv, Increasing, AtMost, Below
<1>9. CASE DataOpen
  BY <1>9 DEF DataOpen, RotationInv, loopVars, Increasing, AtMost, Below
<1>10. CASE DataClose
  BY <1>10 DEF DataClose, RotationInv, loopVars, Increasing, AtMost, Below
<1>11. CASE TrackerOpen
  BY <1>11 DEF TrackerOpen, RotationInv, loopVars, Increasing, AtMost, Below
<1>12. CASE TrackerClose
  BY <1>12 DEF TrackerClose, RotationInv, loopVars, Increasing, AtMost, Below
<1>13. CASE Crash
  BY <1>13 DEF Crash, RotationInv
<1>14. CASE UNCHANGED vars
  BY <1>14 DEF vars, loopVars, disk, RotationInv, Increasing, AtMost, Below
<1> QED
  BY <1>1, <1>2, <1>3, <1>4, <1>5, <1>6, <1>7, <1>8, <1>9, <1>10, <1>11,
     <1>12, <1>13, <1>14 DEF Next, Progress, Save, Stopped

LEMMA RotationInvariant == Spec => []RotationInv
<1>1. Init => RotationInv
  BY DEF Init, RotationInv
<1> QED
  BY <1>1, RotationStep, TypeCorrect, PTL DEF Spec

\* With two or more checkpoints to keep, the tracked one is never a victim.
LEMMA TrackedIsKept ==
  ASSUME TypeOK, RotationInv, MaxKeep # 1, pc = "rotate"
  PROVE  tracker \notin Victims
<1> SUFFICES ASSUME NEW i \in 1..RotateCount PROVE savedPaths[i] # tracker
  BY DEF Victims
<1>1. MaxKeep \in Nat /\ savedPaths \in Seq(Steps) /\ Len(savedPaths) \in Nat
  BY ConfigAssumption DEF TypeOK
<1>2. RotateCount < Len(savedPaths) /\ i < Len(savedPaths) /\ i \in 1..Len(savedPaths)
  BY <1>1 DEF RotateCount
<1>3. tracker = savedPaths[Len(savedPaths)] /\ Increasing(savedPaths)
  BY <1>1, <1>2 DEF RotationInv
<1>4. savedPaths[i] < savedPaths[Len(savedPaths)]
  BY <1>1, <1>2, <1>3 DEF Increasing
<1>5. savedPaths[i] \in Steps
  BY <1>1, <1>2
<1> QED
  BY <1>3, <1>4, <1>5 DEF Steps

\* A checkpoint whose files are left alone stays complete.
LEMMA CompleteKept ==
  ASSUME NEW s \in Steps, Complete(s), s \in folder',
         shard'[s] = shard[s], data'[s] = data[s]
  PROVE  Complete(s)'
BY DEF Complete

\* In any mode and with any crashes, the tracked checkpoint is damaged by
\* nothing but a second save of the tracked step (max_ckpt_to_keep # 1).
THEOREM DamageNeedsResave == MaxKeep # 1 /\ Spec => DamagedOnlyByResave
<1> SUFFICES ASSUME MaxKeep # 1 PROVE Spec => DamagedOnlyByResave
  OBVIOUS
<1>1. ASSUME TypeOK, RotationInv, [Next]_vars,
             NEW s \in Steps, tracker = s, Complete(s), globalSteps # s
      PROVE  Complete(s)'
  <2> USE <1>1
  <2>1. s \in folder
    BY DEF Complete
  <2>2. CASE UNCHANGED <<folder, shard, data>>
    BY <2>1, <2>2, CompleteKept
  <2>3. ASSUME NEW u \in Steps, NEW r \in Ranks, RotateRemove(u, r)
        PROVE  Complete(s)'
    <3>1. u # s
      BY <2>3, TrackedIsKept DEF RotateRemove
    <3> QED
      BY <2>1, <2>3, <3>1, CompleteKept DEF RotateRemove, TypeOK
  <2>4. CASE RotateDone
    BY <2>1, <2>4, CompleteKept DEF RotateDone
  <2>5. ASSUME NEW r \in Ranks, ShardOpen(r) \/ ShardClose(r)
        PROVE  Complete(s)'
    BY <2>1, <2>5, CompleteKept DEF ShardOpen, ShardClose, TypeOK
  <2>6. CASE DataOpen \/ DataClose
    BY <2>1, <2>6, CompleteKept DEF DataOpen, DataClose, TypeOK
  <2>7. CASE \E mode \in ResumeModes : Launch(mode)
    BY <2>2, <2>7 DEF Launch, StartFromScratch, ResumeFrom, LoadFails, StartLoop, disk
  <2>8. CASE TrainStep \/ EpochEnd \/ ShardsDone \/ TrackerOpen \/ TrackerClose \/ Crash
    BY <2>2, <2>8
    DEF TrainStep, EpochEnd, ShardsDone, TrackerOpen, TrackerClose, Crash, disk
  <2>9. CASE UNCHANGED vars
    BY <2>2, <2>9 DEF vars, disk
  <2> QED
    BY <2>3, <2>4, <2>5, <2>6, <2>7, <2>8, <2>9 DEF Next, Progress, Save, Stopped
<1>2. TypeOK /\ RotationInv /\ [Next]_vars =>
        [\A s \in Steps : tracker = s /\ Complete(s) /\ ~Complete(s)' => globalSteps = s]_vars
  BY <1>1
<1> QED
  BY <1>2, TypeCorrect, RotationInvariant, PTL DEF Spec, DamagedOnlyByResave

-----------------------------------------------------------------------------
(***************************************************************************)
(* In a safe configuration whatever the tracker names can be resumed from, *)
(* whenever the job dies. The invariant that carries this says that a save *)
(* always writes to a step above the tracked one: the tracked step is      *)
(* below TotalSteps until the run is done, training moves at least one     *)
(* step before it saves, and the save after the loop is reached without a  *)
(* periodic save of the same step.                                         *)
(***************************************************************************)
SaveInv ==
  /\ pc \in Saving \ {"rotate"} => globalSteps \in folder
  /\ pc = "shards" => \A r \in Ranks : writer[r] = "done" => shard[globalSteps][r] = weights[r]
  /\ pc \in {"data", "dataOpen", "tracker", "trackerOpen"} =>
       \A r \in Ranks : shard[globalSteps][r] = weights[r]
  /\ pc \in {"tracker", "trackerOpen"} => data[globalSteps] = pos

SafeInv ==
  /\ TrackedCheckpointComplete
  /\ pc \in Running => \E k \in RunIds : \A r \in Ranks : weights[r] = k
  /\ NeverBehindTracker
  /\ pc \in Saving \ {"trackerOpen"} /\ tracker \in Steps => tracker < globalSteps
  /\ pc \in Running => globalSteps <= TotalSteps
  /\ pc = "loop" => globalSteps < TotalSteps
  /\ pc # "done" /\ tracker \in Steps => tracker < TotalSteps
  /\ pc \in Saving /\ ~final => SaveDue(globalSteps)

\* What the save in progress has written, one action at a time.
LEMMA SaveStep == TypeOK /\ SaveInv /\ [Next]_vars => SaveInv'
<1> SUFFICES ASSUME TypeOK, SaveInv, [Next]_vars PROVE SaveInv'
  OBVIOUS
<1>1. CASE \E mode \in ResumeModes : Launch(mode)
  <2>1. pc' \in {"loop", "failed"}
    BY <1>1 DEF Launch, StartFromScratch, ResumeFrom, LoadFails, StartLoop
  <2> QED
    BY <2>1 DEF SaveInv, Saving
<1>2. CASE TrainStep \/ EpochEnd
  <2>1. pc' \in {"loop", "rotate"}
    BY <1>2 DEF TrainStep, EpochEnd
  <2> QED
    BY <2>1 DEF SaveInv, Saving
<1>3. ASSUME NEW s \in Steps, NEW r \in Ranks, RotateRemove(s, r)
      PROVE  SaveInv'
  BY <1>3 DEF RotateRemove, SaveInv
<1>4. CASE RotateDone
  <2>1. pc' = "shards" /\ globalSteps' \in folder' /\ \A r \in Ranks : writer'[r] # "done"
    BY <1>4 DEF RotateDone, loopVars, Idle
  <2> QED
    BY <2>1 DEF SaveInv
<1>5. ASSUME NEW q \in Ranks, ShardOpen(q) PROVE SaveInv'
  BY <1>5 DEF ShardOpen, SaveInv, TypeOK, loopVars, Saving
<1>6. ASSUME NEW q \in Ranks, ShardClose(q) PROVE SaveInv'
  BY <1>6 DEF ShardClose, SaveInv, TypeOK, loopVars, Saving
<1>7. CASE ShardsDone
  BY <1>7 DEF ShardsDone, SaveInv, loopVars, disk, Saving
<1>8. CASE DataOpen
  BY <1>8 DEF DataOpen, SaveInv, loopVars, Saving
<1>9. CASE DataClose
  BY <1>9 DEF DataClose, SaveInv, TypeOK, loopVars, Saving
<1>10. CASE TrackerOpen
  BY <1>10 DEF TrackerOpen, SaveInv, loopVars, Saving
<1>11. CASE TrackerClose
  BY <1>11 DEF TrackerClose, SaveInv, Saving
<1>12. CASE Crash
  BY <1>12 DEF Crash, SaveInv, Saving
<1>13. CASE UNCHANGED vars
  BY <1>13 DEF vars, disk, loopVars, SaveInv
<1> QED
  BY <1>1, <1>2, <1>3, <1>4, <1>5, <1>6, <1>7, <1>8, <1>9, <1>10, <1>11,
     <1>12, <1>13 DEF Next, Progress, Save, Stopped

\* A save leaves the tracked checkpoint whole, and every completed save makes
\* a whole one before the tracker names it.
LEMMA SafeStep ==
  SafeConfig /\ TypeOK /\ LoopInv /\ LoopInv' /\ RotationInv /\ SaveInv /\ SafeInv /\ [Next]_vars
    => SafeInv'
<1> SUFFICES ASSUME SafeConfig, TypeOK, LoopInv, LoopInv', RotationInv, SaveInv, SafeInv,
                    [Next]_vars
             PROVE  SafeInv'
  OBVIOUS
<1> USE ConfigAssumption, FilesAssumption
<1>0. globalSteps \in Nat /\ Torn \notin Steps /\ Missing \notin Steps
      /\ (tracker \in Steps => tracker \in Nat)
  BY DEF TypeOK, Steps
<1>1. ASSUME NEW mode \in ResumeModes, Launch(mode)
      PROVE  SafeInv'
  <2>1. mode = "auto" /\ pc \in {"down", "failed"}
    BY <1>1 DEF SafeConfig, Launch, StartFromScratch, ResumeFrom, LoadFails, MayLaunch
  <2>2. UNCHANGED <<folder, shard, data, tracker>>
    BY <1>1 DEF Launch, StartFromScratch, ResumeFrom, LoadFails, StartLoop, disk
  <2>3. TrackedCheckpointComplete'
    BY <2>2 DEF SafeInv, TrackedCheckpointComplete, Complete
  <2>4. CASE StartFromScratch(mode)
    <3>1. /\ pc' = "loop" /\ globalSteps' = 0
          /\ \A r \in Ranks : weights'[r] = 0
      BY <2>4 DEF StartFromScratch, StartLoop, InitialWeights
    <3>2. tracker \notin Steps
      BY <2>1, <2>4 DEF StartFromScratch, LatestFound, SafeInv, TrackedCheckpointComplete, Complete
    <3>3. 0 \in RunIds
      BY BoundsAssumption DEF RunIds
    <3> QED
      BY <2>2, <2>3, <3>1, <3>2, <3>3 DEF SafeInv, NeverBehindTracker, Saving
  <2>5. ASSUME NEW s \in Steps, ResumeFrom(mode, s)
        PROVE  SafeInv'
    <3>1. s = tracker /\ tracker \in Steps
      BY <2>1, <2>5 DEF ResumeFrom, Candidates, LatestFound
    <3>2. /\ pc' = "loop" /\ globalSteps' = tracker
          /\ weights' = shard[tracker]
      BY <2>5, <3>1 DEF ResumeFrom, StartLoop
    <3>3. tracker < TotalSteps /\ Complete(tracker)
      BY <2>1, <3>1 DEF SafeInv, TrackedCheckpointComplete
    <3>4. \E k \in RunIds : \A r \in Ranks : weights'[r] = k
      BY <3>2, <3>3 DEF Complete
    <3> QED
      BY <1>0, <2>2, <2>3, <3>1, <3>2, <3>3, <3>4 DEF SafeInv, NeverBehindTracker, Saving
  <2>6. CASE LoadFails(mode)
    <3>1. pc' = "failed"
      BY <2>6 DEF LoadFails
    <3> QED
      BY <2>1, <2>2, <2>3, <3>1 DEF SafeInv, NeverBehindTracker, Running, Saving
  <2> QED
    BY <1>1, <2>4, <2>5, <2>6 DEF Launch
<1>2. CASE TrainStep
  <2>1. UNCHANGED <<folder, shard, data, tracker>> /\ globalSteps' = globalSteps + 1
    BY <1>2 DEF TrainStep, disk
  <2>2. TrackedCheckpointComplete'
    BY <2>1 DEF SafeInv, TrackedCheckpointComplete, Complete
  <2>3. \E k \in RunIds : \A r \in Ranks : weights'[r] = k
    BY <1>2 DEF TrainStep, TypeOK
  <2>4. globalSteps < TotalSteps /\ (tracker \in Steps => tracker <= globalSteps)
        /\ (tracker \in Steps => tracker < TotalSteps)
    BY <1>2 DEF TrainStep, SafeInv, NeverBehindTracker, Running
  <2>5. pc' \in {"loop", "rotate"} /\ (pc' = "loop" => globalSteps' < TotalSteps)
        /\ (pc' = "rotate" /\ ~final' => SaveDue(globalSteps'))
    <3>1. pc' = IF SaveDue(globalSteps') \/ globalSteps' >= TotalSteps THEN "rotate" ELSE "loop"
      BY <1>2 DEF TrainStep
    <3>2. final' = (~SaveDue(globalSteps') /\ globalSteps' >= TotalSteps)
      BY <1>2 DEF TrainStep
    <3>3. globalSteps' >= TotalSteps \/ globalSteps' < TotalSteps
      BY <1>0, <2>1
    <3>4. pc' = "rotate" /\ ~SaveDue(globalSteps') => final'
      BY <3>1, <3>2
    <3> QED
      BY <3>1, <3>3, <3>4
  <2>6. globalSteps' <= TotalSteps /\ (tracker' \in Steps => tracker' < globalSteps')
    BY <1>0, <2>1, <2>4
  <2>7. SaveDue(globalSteps)' = SaveDue(globalSteps')
    BY DEF SaveDue
  <2>8. tracker' \in Steps => tracker' <= globalSteps'
    BY <1>0, <2>1, <2>6
  <2> QED
    BY <2>1, <2>2, <2>3, <2>4, <2>5, <2>6, <2>7, <2>8
    DEF SafeInv, NeverBehindTracker, Saving
<1>3. CASE EpochEnd
  <2>1. UNCHANGED <<folder, shard, data, tracker, globalSteps, weights>>
    BY <1>3 DEF EpochEnd, disk
  <2>2. globalSteps < TotalSteps /\ pc = "loop"
    BY <1>3 DEF EpochEnd, SafeInv
  <2>3. pc' = "loop"
    <3>1. ~(globalSteps' >= TotalSteps)
      BY <1>0, <2>1, <2>2
    <3> QED
      BY <1>3, <3>1 DEF EpochEnd, LoopInv, Saving
  <2>4. TrackedCheckpointComplete'
    BY <2>1 DEF SafeInv, TrackedCheckpointComplete, Complete
  <2> QED
    BY <2>1, <2>2, <2>3, <2>4 DEF SafeInv, NeverBehindTracker, Running, Saving
<1>4. ASSUME pc \in Running, pc' \in Running,
             UNCHANGED <<globalSteps, weights, final, tracker>>,
             pc \in Saving \ {"trackerOpen"}, pc' \in Saving \ {"trackerOpen"},
             \A s \in Steps : tracker = s => Complete(s)'
      PROVE  SafeInv'
  <2>1. TrackedCheckpointComplete'
    BY <1>4 DEF TrackedCheckpointComplete
  <2>2. SaveDue(globalSteps)' = SaveDue(globalSteps)
    BY <1>4 DEF SaveDue
  <2> QED
    BY <1>4, <2>1, <2>2 DEF SafeInv, NeverBehindTracker, Saving
<1>5. \A s \in Steps : tracker = s /\ pc \in Saving \ {"trackerOpen"} =>
        Complete(s) /\ s \in folder /\ s # globalSteps
  BY <1>0 DEF SafeInv, TrackedCheckpointComplete, Complete
<1>6. ASSUME NEW u \in Steps, NEW r \in Ranks, RotateRemove(u, r)
      PROVE  SafeInv'
  <2>1. u # tracker
    BY <1>6, TrackedIsKept DEF RotateRemove, SafeConfig
  <2>2. \A s \in Steps : tracker = s => Complete(s)'
    BY <1>5, <1>6, <2>1, CompleteKept DEF RotateRemove, TypeOK, Saving
  <2> QED
    BY <1>4, <1>6, <2>2 DEF RotateRemove, loopVars, Running, Saving
<1>7. CASE RotateDone
  <2>1. \A s \in Steps : tracker = s => Complete(s)'
    BY <1>5, <1>7, CompleteKept DEF RotateDone, Saving
  <2> QED
    BY <1>4, <1>7, <2>1 DEF RotateDone, loopVars, Running, Saving
<1>8. ASSUME NEW r \in Ranks, ShardOpen(r) \/ ShardClose(r) PROVE SafeInv'
  <2>1. \A s \in Steps : tracker = s => Complete(s)'
    BY <1>5, <1>8, CompleteKept DEF ShardOpen, ShardClose, TypeOK, Saving
  <2> QED
    BY <1>4, <1>8, <2>1 DEF ShardOpen, ShardClose, loopVars, Running, Saving
<1>9. CASE ShardsDone
  <2>1. \A s \in Steps : tracker = s => Complete(s)'
    BY <1>5, <1>9, CompleteKept DEF ShardsDone, disk, Saving
  <2> QED
    BY <1>4, <1>9, <2>1 DEF ShardsDone, loopVars, disk, Running, Saving
<1>10. CASE DataOpen \/ DataClose
  <2>1. \A s \in Steps : tracker = s => Complete(s)'
    BY <1>5, <1>10, CompleteKept DEF DataOpen, DataClose, TypeOK, Saving
  <2> QED
    BY <1>4, <1>10, <2>1 DEF DataOpen, DataClose, loopVars, Running, Saving
<1>11. CASE TrackerOpen
  <2>1. tracker' \notin Steps /\ pc' = "trackerOpen" /\ pc = "tracker"
        /\ UNCHANGED <<globalSteps, weights, final>>
    BY <1>0, <1>11 DEF TrackerOpen, loopVars, Steps
  <2>2. SaveDue(globalSteps)' = SaveDue(globalSteps)
    BY <2>1 DEF SaveDue
  <2> QED
    BY <2>1, <2>2 DEF SafeInv, TrackedCheckpointComplete, NeverBehindTracker, Running, Saving
<1>12. CASE TrackerClose
  <2>1. UNCHANGED <<folder, shard, data, globalSteps, weights, pos>> /\ tracker' = globalSteps
        /\ pc = "trackerOpen"
    BY <1>12 DEF TrackerClose, loopVars
  <2>2. /\ globalSteps \in folder /\ data[globalSteps] = pos /\ pos \in Nat
        /\ \A r \in Ranks : shard[globalSteps][r] = weights[r]
    BY <2>1 DEF SaveInv, Saving, TypeOK
  <2>3. \E k \in RunIds : \A r \in Ranks : weights[r] = k
    BY <2>1 DEF SafeInv, Running, Saving
  <2>4. TrackedCheckpointComplete' /\ \E k \in RunIds : \A r \in Ranks : weights'[r] = k
    BY <2>1, <2>2, <2>3 DEF TrackedCheckpointComplete, Complete
  <2>5. globalSteps <= TotalSteps
    BY <2>1 DEF SafeInv, Running, Saving
  <2>6. ~final => globalSteps # TotalSteps
    BY <2>1 DEF SafeInv, SafeConfig, SaveDue, Saving
  <2>7. pc' = "done" \/ (pc' = "loop" /\ globalSteps < TotalSteps)
    BY <1>0, <1>12, <2>5, <2>6 DEF TrackerClose
  <2>8. globalSteps <= globalSteps
    BY <1>0
  <2> QED
    BY <1>0, <2>1, <2>4, <2>5, <2>7, <2>8 DEF SafeInv, NeverBehindTracker, Running, Saving
<1>13. CASE Crash
  <2>1. pc # "done" /\ pc' = "down" /\ UNCHANGED <<folder, shard, data, tracker>>
    BY <1>13 DEF Crash, Running, Saving, disk
  <2>2. TrackedCheckpointComplete'
    BY <2>1 DEF SafeInv, TrackedCheckpointComplete, Complete
  <2> QED
    BY <2>1, <2>2 DEF SafeInv, NeverBehindTracker, Running, Saving
<1>14. CASE UNCHANGED vars
  BY <1>14 DEF vars, disk, loopVars, SafeInv, NeverBehindTracker, TrackedCheckpointComplete,
               Complete, SaveDue
<1> QED
  BY <1>1, <1>2, <1>3, <1>6, <1>7, <1>8, <1>9, <1>10, <1>11, <1>12, <1>13, <1>14
  DEF Next, Progress, Save, Stopped

LEMMA SafeInvariant == SafeConfig /\ Spec => []SafeInv
<1> SUFFICES ASSUME SafeConfig PROVE Spec => []SafeInv
  OBVIOUS
<1>1. Init => SaveInv /\ SafeInv
  BY FilesAssumption
  DEF Init, SaveInv, SafeInv, TrackedCheckpointComplete, NeverBehindTracker, Running, Saving, Steps
<1>2. TypeOK /\ LoopInv /\ LoopInv' /\ RotationInv /\ SaveInv /\ SafeInv /\ [Next]_vars => SafeInv'
  BY SafeStep
<1> QED
  BY <1>1, <1>2, SaveStep, TypeCorrect, LoopInvariant, RotationInvariant, PTL DEF Spec

\* In a safe configuration, whatever the number of ranks, steps and crashes,
\* the tracked checkpoint can be resumed from in every reachable state.
THEOREM TrackedIsComplete == SafeConfig /\ Spec => []TrackedCheckpointComplete
<1> SUFFICES ASSUME SafeConfig PROVE Spec => []TrackedCheckpointComplete
  OBVIOUS
<1>1. SafeInv => TrackedCheckpointComplete
  BY DEF SafeInv
<1> QED
  BY <1>1, SafeInvariant, PTL

-----------------------------------------------------------------------------
(***************************************************************************)
(* The dataloader. A data.pt holds the position of the step it is saved    *)
(* with. An absent one resets the position with no more than a warning;    *)
(* the tracker never names such a step, the operator may ("resume_path").  *)
(***************************************************************************)

\* The remainder of a number written as quotient and remainder.
LEMMA RemainderOf ==
  ASSUME NEW n \in Nat \ {0}, NEW q \in Nat, NEW m \in 0..(n - 1)
  PROVE  (q * n + m) % n = m
  OBVIOUS

\* The remainder of the next number follows from the remainder.
LEMMA NextRemainder ==
  ASSUME NEW c \in Nat, NEW n \in Nat \ {0}
  PROVE  (c + 1) % n = IF c % n = n - 1 THEN 0 ELSE (c % n) + 1
<1>1. PICK q \in Nat, m \in 0..(n - 1) : c = q * n + m /\ m = c % n
  <2> WITNESS c \div n \in Nat, c % n \in 0..(n - 1)
  <2> QED
    OBVIOUS
<1>2. CASE m = n - 1
  <2>1. ((q + 1) * n + 0) % n = 0
    <3>1. q + 1 \in Nat /\ 0 \in 0..(n - 1)
      OBVIOUS
    <3> QED
      BY <3>1, RemainderOf
  <2>2. (q + 1) * n + 0 = q * n + n /\ q * n \in Nat
    OBVIOUS
  <2>3. c + 1 = q * n + n
    <3>1. \A p \in Nat : c = p + m => c + 1 = p + n
      BY <1>2
    <3>2. c = q * n + m /\ q * n \in Nat
      BY <1>1
    <3> QED
      BY <3>1, <3>2
  <2> QED
    BY <1>1, <1>2, <2>1, <2>2, <2>3
<1>3. CASE m # n - 1
  <2>1. c + 1 = q * n + (m + 1) /\ m + 1 \in 0..(n - 1)
    BY <1>1, <1>3
  <2> QED
    BY <1>1, <1>3, <2>1, RemainderOf
<1> QED
  BY <1>2, <1>3

AlignedInv ==
  /\ LoaderAligned
  /\ \A s \in Steps : data[s] \in Nat => data[s] % StepsPerEpoch = s % StepsPerEpoch
  /\ tracker \in Steps => data[tracker] # Missing
  /\ pc \in {"tracker", "trackerOpen"} => data[globalSteps] # Missing

\* One action at a time: only the loop moves, and it moves both together.
LEMMA AlignedStep ==
  "resume_path" \notin ResumeModes /\ TypeOK /\ AlignedInv /\ [Next]_vars => AlignedInv'
<1> SUFFICES ASSUME "resume_path" \notin ResumeModes, TypeOK, AlignedInv, [Next]_vars
             PROVE  AlignedInv'
  OBVIOUS
<1> USE ConfigAssumption, FilesAssumption
<1>0. /\ globalSteps \in Nat /\ pos \in Nat /\ StepsPerEpoch \in Nat \ {0}
      /\ 0 % StepsPerEpoch = 0 /\ StepsPerEpoch % StepsPerEpoch = 0
  BY DEF TypeOK, Steps
<1>1. ASSUME NEW mode \in ResumeModes, Launch(mode)
      PROVE  AlignedInv'
  <2>1. UNCHANGED <<data, tracker>> /\ pc' \in {"loop", "failed"}
    BY <1>1 DEF Launch, StartFromScratch, ResumeFrom, LoadFails, StartLoop, disk
  <2>2. pc' = "loop" => pos' % StepsPerEpoch = globalSteps' % StepsPerEpoch
    <3>1. CASE StartFromScratch(mode)
      BY <1>0, <3>1 DEF StartFromScratch, StartLoop
    <3>2. ASSUME NEW s \in Steps, ResumeFrom(mode, s)
          PROVE  pos' % StepsPerEpoch = globalSteps' % StepsPerEpoch
      <4>1. s = tracker
        BY <3>2 DEF ResumeFrom, Candidates
      <4>2. data[s] \in 0..StepsPerEpoch
        BY <3>2, <4>1 DEF ResumeFrom, Loadable, AlignedInv, TypeOK
      <4>3. pos' = data[s] /\ globalSteps' = s
        BY <3>2, <4>2 DEF ResumeFrom, StartLoop
      <4> QED
        BY <4>2, <4>3 DEF AlignedInv
    <3>3. CASE LoadFails(mode)
      BY <3>3 DEF LoadFails
    <3> QED
      BY <1>1, <3>1, <3>2, <3>3 DEF Launch
  <2> QED
    BY <2>1, <2>2 DEF AlignedInv, LoaderAligned, Running, Saving
<1>2. CASE TrainStep
  <2>1. pos' % StepsPerEpoch = globalSteps' % StepsPerEpoch
    <3>1. pos % StepsPerEpoch = globalSteps % StepsPerEpoch
      BY <1>2 DEF TrainStep, AlignedInv, LoaderAligned, Running
    <3>2. (pos + 1) % StepsPerEpoch = (globalSteps + 1) % StepsPerEpoch
      <4>1. (pos + 1) % StepsPerEpoch = IF pos % StepsPerEpoch = StepsPerEpoch - 1
                                        THEN 0 ELSE (pos % StepsPerEpoch) + 1
        BY <1>0, NextRemainder
      <4>2. (globalSteps + 1) % StepsPerEpoch =
              IF globalSteps % StepsPerEpoch = StepsPerEpoch - 1
              THEN 0 ELSE (globalSteps % StepsPerEpoch) + 1
        BY <1>0, NextRemainder
      <4> QED
        BY <3>1, <4>1, <4>2
    <3> QED
      BY <1>2, <3>2 DEF TrainStep
  <2> QED
    BY <1>2, <2>1 DEF TrainStep, AlignedInv, LoaderAligned, disk
<1>3. CASE EpochEnd
  <2>1. pos' % StepsPerEpoch = globalSteps' % StepsPerEpoch
    BY <1>0, <1>3 DEF EpochEnd, AlignedInv, LoaderAligned, Running
  <2> QED
    BY <1>3, <2>1 DEF EpochEnd, AlignedInv, LoaderAligned, disk
<1>4. CASE \E s \in Steps, r \in Ranks : RotateRemove(s, r)
  BY <1>4 DEF RotateRemove, AlignedInv, LoaderAligned, loopVars
<1>5. CASE RotateDone
  BY <1>5 DEF RotateDone, AlignedInv, LoaderAligned, loopVars, Running, Saving
<1>6. CASE \E r \in Ranks : ShardOpen(r) \/ ShardClose(r)
  BY <1>6 DEF ShardOpen, ShardClose, AlignedInv, LoaderAligned, loopVars
<1>7. CASE ShardsDone
  BY <1>7 DEF ShardsDone, AlignedInv, LoaderAligned, loopVars, disk, Running, Saving
<1>8. CASE DataOpen
  BY <1>8 DEF DataOpen, TypeOK, AlignedInv, LoaderAligned, loopVars, Running, Saving
<1>9. CASE DataClose
  <2>1. pos % StepsPerEpoch = globalSteps % StepsPerEpoch /\ pos # Missing
    BY <1>0, <1>9 DEF DataClose, AlignedInv, LoaderAligned, Running, Saving
  <2> QED
    BY <1>9, <2>1 DEF DataClose, TypeOK, AlignedInv, LoaderAligned, loopVars, Running, Saving
<1>10. CASE TrackerOpen
  BY <1>10 DEF TrackerOpen, AlignedInv, LoaderAligned, loopVars, Running, Saving, Steps
<1>11. CASE TrackerClose
  BY <1>11 DEF TrackerClose, AlignedInv, LoaderAligned, loopVars, Running, Saving
<1>12. CASE Crash
  BY <1>12 DEF Crash, AlignedInv, LoaderAligned, disk, Running, Saving
<1>13. CASE UNCHANGED vars
  BY <1>13 DEF vars, disk, loopVars, AlignedInv, LoaderAligned
<1> QED
  BY <1>1, <1>2, <1>3, <1>4, <1>5, <1>6, <1>7, <1>8, <1>9, <1>10, <1>11, <1>12, <1>13
  DEF Next, Progress, Save, Stopped

\* Over any crashes and resumes, step g is trained on batch g - 1 of the
\* stream, unless a folder is named by hand: one may be without data.pt.
THEOREM LoaderStaysAligned ==
  "resume_path" \notin ResumeModes /\ Spec => []LoaderAligned
<1> SUFFICES ASSUME "resume_path" \notin ResumeModes PROVE Spec => []LoaderAligned
  OBVIOUS
<1>1. Init => AlignedInv
  BY FilesAssumption DEF Init, AlignedInv, LoaderAligned, Running, Saving, Steps
<1>2. TypeOK /\ AlignedInv /\ [Next]_vars => AlignedInv'
  BY AlignedStep
<1>3. AlignedInv => LoaderAligned
  BY DEF AlignedInv
<1> QED
  BY <1>1, <1>2, <1>3, TypeCorrect, PTL DEF Spec

-----------------------------------------------------------------------------
(***************************************************************************)
(* Which parameters the ranks hold. A save that dies leaves shards of two  *)
(* runs side by side, and they load. What keeps the ranks together is that *)
(* only the tracked step is loaded, that a run trains beyond it before it  *)
(* saves, and that a run which saves the tracked step again writes what is *)
(* there. A run started with "disable" would break this: it saves steps    *)
(* below the tracked one, and in the end the tracked one, with its own     *)
(* parameters.                                                             *)
(***************************************************************************)
AutoOnly == ResumeModes \subseteq {"auto"}

OneRun(params) == \E k \in RunIds : \A r \in Ranks : params[r] = k

UniformInv ==
  /\ tracker \in Steps => tracker \in folder
  /\ NeverBehindTracker
  /\ pc \in Running => OneRun(weights)
  /\ tracker \in Steps =>
       \E k \in RunIds : \A r \in Ranks : shard[tracker][r] \in {k, Missing, Torn}
  /\ pc \in Running /\ tracker = globalSteps =>
       \A r \in Ranks : shard[tracker][r] \in {weights[r], Missing, Torn}

\* One action at a time; SaveInv says what the save in progress has written.
LEMMA UniformStep ==
  AutoOnly /\ TypeOK /\ SaveInv /\ UniformInv /\ [Next]_vars => UniformInv'
<1> SUFFICES ASSUME AutoOnly, TypeOK, SaveInv, UniformInv, [Next]_vars PROVE UniformInv'
  OBVIOUS
<1> USE FilesAssumption
<1>0. globalSteps \in Nat /\ Torn \notin Steps /\ Missing \notin Steps
      /\ (tracker \in Steps => tracker \in Nat)
  BY DEF TypeOK, Steps
<1>1. ASSUME NEW mode \in ResumeModes, Launch(mode)
      PROVE  UniformInv'
  <2>1. mode = "auto" /\ UNCHANGED <<folder, shard, tracker>>
    BY <1>1 DEF AutoOnly, Launch, StartFromScratch, ResumeFrom, LoadFails, StartLoop, disk
  <2>2. CASE StartFromScratch(mode)
    <3>1. /\ pc' = "loop" /\ globalSteps' = 0
          /\ \A r \in Ranks : weights'[r] = 0
      BY <2>2 DEF StartFromScratch, StartLoop, InitialWeights
    <3>2. tracker \notin Steps /\ 0 \in Steps
      BY <2>1, <2>2, BoundsAssumption DEF StartFromScratch, LatestFound, UniformInv, Steps
    <3>3. 0 \in RunIds
      BY BoundsAssumption DEF RunIds
    <3> QED
      BY <2>1, <3>1, <3>2, <3>3 DEF UniformInv, NeverBehindTracker, OneRun
  <2>3. ASSUME NEW s \in Steps, ResumeFrom(mode, s)
        PROVE  UniformInv'
    <3>1. s = tracker /\ tracker \in Steps
      BY <2>1, <2>3 DEF ResumeFrom, Candidates, LatestFound
    <3>2. pc' = "loop" /\ globalSteps' = tracker /\ weights' = shard[tracker]
      BY <2>3, <3>1 DEF ResumeFrom, StartLoop
    <3>3. \A r \in Ranks : shard[tracker][r] \notin {Missing, Torn}
      BY <2>3, <3>1 DEF ResumeFrom, Loadable
    <3>4. OneRun(weights')
      BY <3>1, <3>2, <3>3 DEF UniformInv, OneRun
    <3> QED
      BY <1>0, <2>1, <3>1, <3>2, <3>4 DEF UniformInv, NeverBehindTracker, OneRun
  <2>4. CASE LoadFails(mode)
    <3>1. pc' = "failed"
      BY <2>4 DEF LoadFails
    <3> QED
      BY <2>1, <3>1 DEF UniformInv, NeverBehindTracker, Running, Saving
  <2> QED
    BY <1>1, <2>2, <2>3, <2>4 DEF Launch
<1>2. CASE TrainStep
  <2>1. UNCHANGED <<folder, shard, tracker>> /\ globalSteps' = globalSteps + 1 /\ pc \in Running
    BY <1>2 DEF TrainStep, disk, Running
  <2>2. OneRun(weights')
    BY <1>2 DEF TrainStep, TypeOK, OneRun
  <2>3. tracker \in Steps => tracker < globalSteps'
    BY <1>0, <2>1 DEF UniformInv, NeverBehindTracker
  <2>4. globalSteps' \in Steps
    BY <1>2, <1>0, BoundsAssumption DEF TrainStep, Steps, TypeOK
  <2> QED
    BY <1>0, <2>1, <2>2, <2>3, <2>4 DEF UniformInv, NeverBehindTracker, OneRun, Steps
<1>3. CASE EpochEnd
  <2>1. UNCHANGED <<folder, shard, tracker, globalSteps, weights>> /\ pc \in Running
    BY <1>3 DEF EpochEnd, disk, Running
  <2> QED
    BY <2>1 DEF UniformInv, NeverBehindTracker, OneRun
<1>4. ASSUME UNCHANGED <<tracker, globalSteps, weights>>, folder \subseteq folder', pc \in Running,
             \A s \in Steps, r \in Ranks :
               shard'[s][r] \in {shard[s][r], Missing, Torn}
      PROVE  UniformInv'
  <2>1. tracker \in Steps =>
          \E k \in RunIds : \A r \in Ranks : shard'[tracker][r] \in {k, Missing, Torn}
    BY <1>4 DEF UniformInv
  <2>2. tracker = globalSteps => \A r \in Ranks : shard'[tracker][r] \in {weights[r], Missing, Torn}
    BY <1>4 DEF UniformInv, TypeOK
  <2> QED
    BY <1>4, <2>1, <2>2 DEF UniformInv, NeverBehindTracker, OneRun
<1>5. ASSUME NEW s \in Steps, NEW r \in Ranks, RotateRemove(s, r)
      PROVE  UniformInv'
  BY <1>4, <1>5 DEF RotateRemove, TypeOK, loopVars, Running, Saving
<1>6. CASE RotateDone
  BY <1>4, <1>6 DEF RotateDone, loopVars, Running, Saving
<1>7. ASSUME NEW r \in Ranks, ShardOpen(r) PROVE UniformInv'
  BY <1>4, <1>7 DEF ShardOpen, TypeOK, loopVars, Running, Saving
<1>8. ASSUME NEW r \in Ranks, ShardClose(r) PROVE UniformInv'
  <2>1. UNCHANGED <<folder, tracker, globalSteps, weights>> /\ pc \in Running
        /\ shard' = [shard EXCEPT ![globalSteps][r] = weights[r]]
    BY <1>8 DEF ShardClose, loopVars, Running, Saving
  <2>2. tracker = globalSteps =>
          \A q \in Ranks : shard'[tracker][q] \in {weights[q], Missing, Torn}
    BY <2>1 DEF UniformInv, TypeOK
  <2>3. tracker \in Steps =>
          \E k \in RunIds : \A q \in Ranks : shard'[tracker][q] \in {k, Missing, Torn}
    <3>1. CASE tracker = globalSteps
      BY <2>1, <2>2, <3>1 DEF UniformInv, OneRun
    <3>2. CASE tracker # globalSteps
      BY <2>1, <3>2 DEF UniformInv, TypeOK
    <3> QED
      BY <3>1, <3>2
  <2> QED
    BY <2>1, <2>2, <2>3 DEF UniformInv, NeverBehindTracker, OneRun
<1>9. CASE ShardsDone
  BY <1>4, <1>9 DEF ShardsDone, loopVars, disk, Running, Saving
<1>10. CASE DataOpen \/ DataClose
  BY <1>4, <1>10 DEF DataOpen, DataClose, loopVars, Running, Saving
<1>11. CASE TrackerOpen
  <2>1. tracker' \notin Steps /\ tracker' # globalSteps'
        /\ UNCHANGED weights /\ pc \in Running
    BY <1>0, <1>11 DEF TrackerOpen, loopVars, Running, Saving
  <2> QED
    BY <2>1 DEF UniformInv, NeverBehindTracker, OneRun
<1>12. CASE TrackerClose
  <2>1. UNCHANGED <<folder, shard, globalSteps, weights>> /\ tracker' = globalSteps
        /\ pc = "trackerOpen"
    BY <1>12 DEF TrackerClose, loopVars
  <2>2. globalSteps \in folder /\ OneRun(weights)
        /\ \A r \in Ranks : shard[globalSteps][r] = weights[r]
    BY <2>1 DEF SaveInv, UniformInv, Running, Saving
  <2>3. globalSteps <= globalSteps
    BY <1>0
  <2> QED
    BY <2>1, <2>2, <2>3 DEF UniformInv, NeverBehindTracker, OneRun
<1>13. CASE Crash
  <2>1. pc' = "down" /\ UNCHANGED <<folder, shard, tracker>>
    BY <1>13 DEF Crash, disk
  <2> QED
    BY <2>1 DEF UniformInv, NeverBehindTracker, Running, Saving
<1>14. CASE UNCHANGED vars
  BY <1>14 DEF vars, disk, loopVars, UniformInv, NeverBehindTracker, OneRun
<1> QED
  BY <1>1, <1>2, <1>3, <1>5, <1>6, <1>7, <1>8, <1>9, <1>10, <1>11, <1>12, <1>13, <1>14
  DEF Next, Progress, Save, Stopped

LEMMA UniformInvariant == AutoOnly /\ Spec => []UniformInv
<1> SUFFICES ASSUME AutoOnly PROVE Spec => []UniformInv
  OBVIOUS
<1>1. Init => SaveInv /\ UniformInv
  BY FilesAssumption DEF Init, SaveInv, UniformInv, NeverBehindTracker, Running, Saving, Steps
<1>2. TypeOK /\ SaveInv /\ UniformInv /\ [Next]_vars => UniformInv'
  BY UniformStep
<1> QED
  BY <1>1, <1>2, SaveStep, TypeCorrect, PTL DEF Spec

\* When every run resumes by itself, all ranks train from the parameters of
\* one and the same run, whatever saves were cut off before.
THEOREM RanksAlwaysAgree == AutoOnly /\ Spec => []RanksAgree
<1> SUFFICES ASSUME AutoOnly PROVE Spec => []RanksAgree
  OBVIOUS
<1>1. UniformInv => RanksAgree
  BY DEF UniformInv, OneRun, RanksAgree, Running
<1> QED
  BY <1>1, UniformInvariant, PTL

\* When every run resumes by itself, none works on a step below the one the
\* tracker names: a resumed run starts at that step, and the tracker follows.
THEOREM NeverBehind == AutoOnly /\ Spec => []NeverBehindTracker
<1> SUFFICES ASSUME AutoOnly PROVE Spec => []NeverBehindTracker
  OBVIOUS
<1>1. UniformInv => NeverBehindTracker
  BY DEF UniformInv
<1> QED
  BY <1>1, UniformInvariant, PTL

-----------------------------------------------------------------------------
(***************************************************************************)
(* How much a crash costs. No step between the tracked one and the current *)
(* one was due for a save, and among SaveFreq steps in a row one is.       *)
(***************************************************************************)
TrackedStep == IF tracker \in Steps THEN tracker ELSE 0

LostInv ==
  pc = "loop" =>
    \A s \in Steps : TrackedStep < s /\ s <= globalSteps => ~SaveDue(s)

\* Among SaveFreq steps in a row one is due.
LEMMA OneIsDue ==
  ASSUME NEW t \in Nat, NEW g \in Nat, NEW n \in Nat \ {0}, g - t >= n
  PROVE  \E s \in Nat : t < s /\ s <= g /\ s % n = 0
<1>1. PICK q \in Nat, m \in 0..(n - 1) : t = q * n + m
  <2> WITNESS t \div n \in Nat, t % n \in 0..(n - 1)
  <2> QED
    OBVIOUS
<1>2. ((q + 1) * n + 0) % n = 0
  <2>1. q + 1 \in Nat /\ 0 \in 0..(n - 1)
    OBVIOUS
  <2> QED
    BY <2>1, RemainderOf
<1>3. (q + 1) * n + 0 = q * n + n /\ q * n \in Nat
  OBVIOUS
<1>4. q * n + n \in Nat /\ (q * n + n) % n = 0
  BY <1>2, <1>3
<1>5. \A p \in Nat : t = p + m => t < p + n /\ p + n <= g
  OBVIOUS
<1>6. t < q * n + n /\ q * n + n <= g
  BY <1>1, <1>3, <1>5
<1> QED
  BY <1>4, <1>6

\* Only a step that is not due stays in the loop, and a save moves the
\* tracker to the step it saves.
LEMMA LostStep ==
  "resume_path" \notin ResumeModes /\ TypeOK /\ LostInv /\ [Next]_vars => LostInv'
<1> SUFFICES ASSUME "resume_path" \notin ResumeModes, TypeOK, LostInv, [Next]_vars, pc' = "loop",
                    NEW s \in Steps, TrackedStep' < s, s <= globalSteps'
             PROVE  ~SaveDue(s)
  BY DEF LostInv, SaveDue
<1>0. s \in Nat /\ globalSteps \in Nat /\ TrackedStep \in Nat
  BY FilesAssumption DEF TypeOK, Steps, TrackedStep
<1>1. ASSUME NEW mode \in ResumeModes, Launch(mode)
      PROVE  FALSE
  <2>1. UNCHANGED tracker /\ TrackedStep' = TrackedStep
    BY <1>1 DEF Launch, StartFromScratch, ResumeFrom, LoadFails, StartLoop, disk, TrackedStep
  <2>2. CASE StartFromScratch(mode)
    BY <1>0, <2>1, <2>2 DEF StartFromScratch, StartLoop
  <2>3. ASSUME NEW u \in Steps, ResumeFrom(mode, u)
        PROVE  globalSteps' = TrackedStep
    BY <2>3 DEF ResumeFrom, Candidates, StartLoop, TrackedStep
  <2> QED
    BY <1>0, <1>1, <2>1, <2>2, <2>3 DEF Launch, LoadFails
<1>2. CASE TrainStep
  <2>1. ~SaveDue(globalSteps') /\ globalSteps' = globalSteps + 1 /\ UNCHANGED tracker
    BY <1>2 DEF TrainStep, disk
  <2>2. s = globalSteps' \/ (TrackedStep < s /\ s <= globalSteps)
    BY <1>0, <2>1 DEF TrackedStep
  <2> QED
    BY <1>2, <2>1, <2>2 DEF TrainStep, LostInv
<1>3. CASE EpochEnd
  BY <1>3 DEF EpochEnd, LostInv, TrackedStep, disk
<1>4. CASE TrackerClose
  BY <1>0, <1>4 DEF TrackerClose, TrackedStep, TypeOK, loopVars
<1>5. CASE UNCHANGED vars
  BY <1>5 DEF vars, disk, loopVars, LostInv, TrackedStep
<1>6. CASE \/ \E u \in Steps, r \in Ranks : RotateRemove(u, r)
           \/ \E r \in Ranks : ShardOpen(r) \/ ShardClose(r)
           \/ RotateDone \/ ShardsDone \/ DataOpen \/ DataClose \/ TrackerOpen \/ Crash
  BY <1>6 DEF RotateRemove, ShardOpen, ShardClose, RotateDone, ShardsDone, DataOpen,
              DataClose, TrackerOpen, Crash
<1> QED
  BY <1>0, <1>1, <1>2, <1>3, <1>4, <1>5, <1>6 DEF Next, Progress, Save, Stopped

\* A crash in the loop loses fewer steps than lie between two saves, over any
\* number of crashes before it, unless the operator goes back by hand.
THEOREM LossIsBounded == "resume_path" \notin ResumeModes /\ Spec => []LostWorkBounded
<1> SUFFICES ASSUME "resume_path" \notin ResumeModes PROVE Spec => []LostWorkBounded
  OBVIOUS
<1>1. Init => LostInv
  BY DEF Init, LostInv
<1>2. TypeOK /\ LostInv /\ [Next]_vars => LostInv'
  BY LostStep
<1>3. TypeOK /\ LostInv => LostWorkBounded
  <2> SUFFICES ASSUME TypeOK, LostInv, pc = "loop", SaveFreq > 0
               PROVE  globalSteps - TrackedStep < SaveFreq
    BY DEF LostWorkBounded, TrackedStep
  <2>1. globalSteps \in Nat /\ TrackedStep \in Nat /\ SaveFreq \in Nat \ {0}
    BY ConfigAssumption DEF TypeOK, Steps, TrackedStep
  <2>2. SUFFICES ASSUME globalSteps - TrackedStep >= SaveFreq PROVE FALSE
    BY <2>1
  <2>3. PICK s \in Nat : TrackedStep < s /\ s <= globalSteps /\ s % SaveFreq = 0
    BY <2>1, <2>2, OneIsDue
  <2>4. s \in Steps
    BY <2>1, <2>3, BoundsAssumption DEF TypeOK, Steps
  <2> QED
    BY <2>3, <2>4 DEF LostInv, SaveDue
<1> QED
  BY <1>1, <1>2, <1>3, TypeCorrect, PTL DEF Spec

-----------------------------------------------------------------------------
(***************************************************************************)
(* Retention. Every directory with files of the current run is in the      *)
(* rotation list, or is the one being written, for which rotation has made *)
(* room.                                                                   *)
(***************************************************************************)
Own == {s \in Steps : \E r \in Ranks : shard[s][r] = run}
Listed == IF pc = "shards" THEN Append(savedPaths, globalSteps) ELSE savedPaths
Entries(list) == {list[i] : i \in 1..Len(list)}

ListInv ==
  /\ \A s \in Steps, r \in Ranks : shard[s][r] \in Nat => shard[s][r] <= run
  /\ \A r \in Ranks : weights[r] <= run
  /\ pc \in Running /\ MaxKeep > 0 => Own \subseteq Entries(Listed) /\ Len(Listed) <= MaxKeep

\* A list names no more paths than it is long.
LEMMA ListBounds ==
  ASSUME NEW list \in Seq(Steps), NEW S, S \subseteq Entries(list)
  PROVE  Cardinality(S) \in Nat /\ Cardinality(S) <= Len(list)
<1> DEFINE f == [i \in 1..Len(list) |-> list[i]]
<1>1. Len(list) \in Nat
  OBVIOUS
<1>2. f \in Surjection(1..Len(list), Entries(list))
  BY DEF Surjection, Entries
<1>3. IsFiniteSet(1..Len(list)) /\ Cardinality(1..Len(list)) = Len(list)
  BY <1>1, FS_Interval
<1>4. IsFiniteSet(Entries(list)) /\ Cardinality(Entries(list)) <= Len(list)
  BY <1>2, <1>3, FS_Surjection
<1>5. IsFiniteSet(S) /\ Cardinality(S) <= Cardinality(Entries(list))
  BY <1>4, FS_Subset
<1> QED
  BY <1>1, <1>4, <1>5, FS_CardinalityType

\* The paths that rotation removes and the paths it keeps are the list.
LEMMA RotationSplits ==
  ASSUME savedPaths \in Seq(Steps), RotateDone
  PROVE  Entries(savedPaths) \subseteq Victims \cup Entries(savedPaths')
<1> USE ConfigAssumption
<1>1. Len(savedPaths) \in Nat /\ RotateCount \in 0..Len(savedPaths)
  BY RotateCountType
<1>2. savedPaths' = SubSeq(savedPaths, RotateCount + 1, Len(savedPaths))
  BY DEF RotateDone
<1>3. Len(savedPaths') = Len(savedPaths) - RotateCount
      /\ \A i \in 1..(Len(savedPaths) - RotateCount) : savedPaths'[i] = savedPaths[i + RotateCount]
  BY <1>2, RotateCountType
<1>4. SUFFICES ASSUME NEW i \in 1..Len(savedPaths), i > RotateCount
               PROVE  savedPaths[i] \in Entries(savedPaths')
  BY <1>1 DEF Entries, Victims
<1>5. i - RotateCount \in 1..Len(savedPaths') /\ savedPaths'[i - RotateCount] = savedPaths[i]
  BY <1>1, <1>3, <1>4
<1> QED
  BY <1>5 DEF Entries

\* Adding a path to a list keeps those that are there.
LEMMA AppendEntries ==
  ASSUME NEW list \in Seq(Steps), NEW s \in Steps
  PROVE  /\ Append(list, s) \in Seq(Steps)
         /\ Len(Append(list, s)) = Len(list) + 1
         /\ Entries(list) \cup {s} \subseteq Entries(Append(list, s))
<1>1. /\ Append(list, s) \in Seq(Steps)
      /\ Len(list) \in Nat
      /\ Len(Append(list, s)) = Len(list) + 1
      /\ \A i \in 1..Len(list) : Append(list, s)[i] = list[i]
      /\ Append(list, s)[Len(list) + 1] = s
  OBVIOUS
<1>2. 1..Len(list) \subseteq 1..Len(Append(list, s)) /\ Len(list) + 1 \in 1..Len(Append(list, s))
  BY <1>1
<1> QED
  BY <1>1, <1>2 DEF Entries

\* One action at a time.
LEMMA ListStep == TypeOK /\ ListInv /\ [Next]_vars => ListInv'
<1> SUFFICES ASSUME TypeOK, ListInv, [Next]_vars PROVE ListInv'
  OBVIOUS
<1> USE ConfigAssumption, FilesAssumption
<1>0. run \in Nat /\ globalSteps \in Steps /\ savedPaths \in Seq(Steps)
      /\ Len(savedPaths) \in Nat /\ RunIds \subseteq Nat
  BY DEF TypeOK, RunIds
<1>1. ASSUME NEW mode \in ResumeModes, Launch(mode)
      PROVE  ListInv'
  <2>1. run' = run + 1 /\ UNCHANGED shard /\ pc' \in {"loop", "failed"}
    BY <1>1 DEF Launch, StartFromScratch, ResumeFrom, LoadFails, StartLoop, disk
  <2>2. Own' = {}
    <3>1. \A s \in Steps, r \in Ranks : shard[s][r] # run + 1
      BY <1>0 DEF ListInv
    <3> QED
      BY <2>1, <3>1 DEF Own
  <2>3. pc' = "loop" => savedPaths' = <<>>
    BY <1>1 DEF Launch, StartFromScratch, ResumeFrom, LoadFails, StartLoop
  <2>4. pc' = "loop" => Listed' = <<>> /\ Len(Listed') = 0
    BY <2>3 DEF Listed
  <2>5. \A r \in Ranks : weights'[r] <= run'
    <3>1. CASE StartFromScratch(mode)
      BY <1>0, <2>1, <3>1 DEF StartFromScratch, StartLoop, InitialWeights
    <3>2. ASSUME NEW s \in Steps, ResumeFrom(mode, s)
          PROVE  \A r \in Ranks : weights'[r] <= run'
      <4>1. weights' = shard[s] /\ \A r \in Ranks : shard[s][r] \in RunIds
        BY <3>2 DEF ResumeFrom, StartLoop, Loadable, TypeOK
      <4> QED
        BY <1>0, <2>1, <4>1 DEF ListInv, RunIds
    <3>3. CASE LoadFails(mode)
      BY <1>0, <2>1, <3>3 DEF LoadFails, ListInv, TypeOK, RunIds
    <3> QED
      BY <1>1, <3>1, <3>2, <3>3 DEF Launch
  <2>6. \A s \in Steps, r \in Ranks : shard'[s][r] \in Nat => shard'[s][r] <= run'
    BY <1>0, <2>1 DEF ListInv
  <2> QED
    BY <2>1, <2>2, <2>4, <2>5, <2>6 DEF ListInv, Running, Saving
<1>2. CASE TrainStep \/ EpochEnd
  <2>1. UNCHANGED <<shard, run, savedPaths>> /\ pc = "loop" /\ pc' \in {"loop", "rotate"}
        /\ \A r \in Ranks : weights'[r] <= run
    BY <1>0, <1>2 DEF TrainStep, EpochEnd, disk, ListInv
  <2> QED
    BY <2>1 DEF ListInv, Own, Listed, Running
<1>3. ASSUME NEW s \in Steps, NEW r \in Ranks, RotateRemove(s, r)
      PROVE  ListInv'
  <2>1. UNCHANGED <<run, weights, savedPaths, globalSteps, pc>>
        /\ \A u \in Steps, q \in Ranks : shard'[u][q] \in {shard[u][q], Missing}
    BY <1>3 DEF RotateRemove, TypeOK, loopVars
  <2>2. Own' \subseteq Own
    BY <1>0, <2>1 DEF Own
  <2>3. \A u \in Steps, q \in Ranks : shard'[u][q] \in Nat => shard'[u][q] = shard[u][q]
    BY <2>1
  <2> QED
    BY <2>1, <2>2, <2>3 DEF ListInv, Listed
<1>4. CASE RotateDone
  <2>1. UNCHANGED <<shard, run, weights, globalSteps>> /\ pc = "rotate" /\ pc' = "shards"
        /\ \A s \in Victims, r \in Ranks : shard[s][r] = Missing
    BY <1>4 DEF RotateDone, loopVars
  <2>2. savedPaths' \in Seq(Steps) /\ (MaxKeep > 0 => Len(savedPaths') <= MaxKeep - 1)
    <3>1. savedPaths' = SubSeq(savedPaths, RotateCount + 1, Len(savedPaths))
      BY <1>4 DEF RotateDone
    <3>2. Len(savedPaths') = Len(savedPaths) - RotateCount /\ savedPaths' \in Seq(Steps)
      BY <1>0, <3>1, RotateCountType
    <3> QED
      BY <1>0, <3>2 DEF RotateCount
  <2>3. Listed' = Append(savedPaths', globalSteps)
    BY <2>1 DEF Listed
  <2>4. MaxKeep > 0 => Own' \subseteq Entries(savedPaths')
    <3>1. MaxKeep > 0 => Own \subseteq Entries(savedPaths)
      BY <2>1 DEF ListInv, Listed, Running, Saving
    <3>2. Own \cap Victims = {} /\ Own' = Own
      BY <1>0, <2>1 DEF Own
    <3> QED
      BY <1>0, <1>4, <3>1, <3>2, RotationSplits
  <2>5. Len(Listed') = Len(savedPaths') + 1 /\ Entries(savedPaths') \subseteq Entries(Listed')
    BY <1>0, <2>2, <2>3, AppendEntries
  <2>6. MaxKeep > 0 => Own' \subseteq Entries(Listed') /\ Len(Listed') <= MaxKeep
    BY <2>2, <2>4, <2>5
  <2>7. Entries(Listed)' = Entries(Listed')
    BY DEF Entries
  <2> QED
    BY <2>1, <2>6, <2>7 DEF ListInv
<1>5. ASSUME NEW r \in Ranks, ShardOpen(r) \/ ShardClose(r)
      PROVE  ListInv'
  <2>1. UNCHANGED <<run, weights, savedPaths, globalSteps, pc>> /\ pc = "shards"
    BY <1>5 DEF ShardOpen, ShardClose, loopVars
  <2>2. \A u \in Steps, q \in Ranks :
          \/ shard'[u][q] = shard[u][q]
          \/ u = globalSteps /\ shard'[u][q] \in {Torn, weights[q]}
    BY <1>0, <1>5 DEF ShardOpen, ShardClose, TypeOK
  <2>3. Own' \subseteq Own \cup {globalSteps}
    BY <2>1, <2>2 DEF Own
  <2>4. globalSteps \in Entries(Listed)
    BY <1>0, <2>1, AppendEntries DEF Listed
  <2>5. \A u \in Steps, q \in Ranks : shard'[u][q] \in Nat => shard'[u][q] <= run'
    BY <2>1, <2>2 DEF ListInv
  <2> QED
    BY <2>1, <2>3, <2>4, <2>5 DEF ListInv, Listed, Entries
<1>6. CASE ShardsDone
  <2>1. UNCHANGED <<shard, run, weights>> /\ pc = "shards" /\ pc' = "data"
        /\ savedPaths' = Append(savedPaths, globalSteps)
    BY <1>6 DEF ShardsDone, disk, loopVars
  <2>2. Listed' = Listed /\ Own' = Own
    BY <2>1 DEF Listed, Own
  <2> QED
    BY <2>1, <2>2 DEF ListInv, Entries, Running, Saving
<1>7. CASE DataOpen \/ DataClose \/ TrackerOpen \/ TrackerClose
  <2>1. /\ UNCHANGED <<shard, run, weights, savedPaths>>
        /\ pc \in Running \ {"shards"} /\ pc' # "shards"
    BY <1>7 DEF DataOpen, DataClose, TrackerOpen, TrackerClose, loopVars, Running, Saving
  <2> QED
    BY <2>1 DEF ListInv, Own, Listed
<1>8. CASE Crash
  <2>1. UNCHANGED <<shard, run>> /\ pc' = "down" /\ \A r \in Ranks : weights'[r] = 0
    BY <1>8 DEF Crash, disk, InitialWeights
  <2> QED
    BY <1>0, <2>1 DEF ListInv, Running, Saving
<1>9. CASE UNCHANGED vars
  BY <1>9 DEF vars, disk, loopVars, ListInv, Own, Listed
<1> QED
  BY <1>1, <1>2, <1>3, <1>4, <1>5, <1>6, <1>7, <1>8, <1>9 DEF Next, Progress, Save, Stopped

\* A run that is over, or has died, has left what its list named.
LEMMA BoundStep ==
  TypeOK /\ TypeOK' /\ ListInv /\ ListInv' /\ OwnRetentionBound /\ [Next]_vars
    => OwnRetentionBound'
<1> SUFFICES ASSUME TypeOK, TypeOK', ListInv, ListInv', OwnRetentionBound, [Next]_vars, MaxKeep > 0
             PROVE  Cardinality(Own') <= MaxKeep
  BY DEF OwnRetentionBound, Own
<1> USE ConfigAssumption
<1>1. CASE pc' \in Running
  <2>1. Listed' \in Seq(Steps)
    BY AppendEntries DEF TypeOK, Listed
  <2>2. Own' \subseteq Entries(Listed') /\ Len(Listed') <= MaxKeep
    BY <1>1 DEF ListInv, Entries
  <2>3. Cardinality(Own') \in Nat /\ Cardinality(Own') <= Len(Listed')
    BY <2>1, <2>2, ListBounds
  <2>4. Len(Listed') \in Nat
    BY <2>1
  <2> QED
    BY <2>2, <2>3, <2>4
<1>2. CASE pc' \notin Running
  <2>1. UNCHANGED <<shard, run>> => Cardinality(Own') <= MaxKeep
    BY DEF OwnRetentionBound, Own
  <2>2. ASSUME NEW mode \in ResumeModes, Launch(mode)
        PROVE  Cardinality(Own') <= MaxKeep
    <3>1. UNCHANGED shard /\ run' = run + 1 /\ run \in Nat
      BY <2>2 DEF Launch, StartFromScratch, ResumeFrom, LoadFails, StartLoop, disk, TypeOK, RunIds
    <3>2. Own' = {}
      BY <3>1 DEF Own, ListInv
    <3> QED
      BY <3>2, FS_EmptySet
  <2>3. TrainStep \/ EpochEnd => UNCHANGED <<shard, run>>
    BY DEF TrainStep, EpochEnd, disk
  <2>4. ~\E s \in Steps, r \in Ranks : RotateRemove(s, r)
    BY <1>2 DEF RotateRemove, Running, Saving
  <2>5. ~\E r \in Ranks : ShardOpen(r) \/ ShardClose(r)
    BY <1>2 DEF ShardOpen, ShardClose, Running, Saving
  <2>6. RotateDone \/ ShardsDone \/ DataOpen \/ DataClose \/ TrackerOpen \/ TrackerClose
        \/ Crash \/ UNCHANGED vars => UNCHANGED <<shard, run>>
    BY DEF RotateDone, ShardsDone, DataOpen, DataClose, TrackerOpen, TrackerClose, Crash,
           vars, disk, loopVars
  <2> QED
    BY <2>1, <2>2, <2>3, <2>4, <2>5, <2>6 DEF Next, Progress, Save, Stopped
<1> QED
  BY <1>1, <1>2

\* In every configuration and after any crashes, a run leaves no more of its
\* own checkpoints than it was told to keep.
THEOREM RetentionIsBounded == Spec => []OwnRetentionBound
<1>1. Init => ListInv /\ OwnRetentionBound
  <2> SUFFICES ASSUME Init PROVE ListInv /\ OwnRetentionBound
    OBVIOUS
  <2>1. \A s \in Steps, r \in Ranks : shard[s][r] = Missing
    BY DEF Init
  <2>2. \A r \in Ranks : weights[r] = 0
    BY DEF Init, InitialWeights
  <2>3. Own = {} /\ run = 0 /\ pc = "down"
    BY <2>1, FilesAssumption DEF Init, Own
  <2>4. ListInv
    BY <2>1, <2>2, <2>3, FilesAssumption DEF ListInv, Running, Saving
  <2>5. Cardinality(Own) = 0
    BY <2>3, FS_EmptySet
  <2>6. OwnRetentionBound
    BY <2>5, ConfigAssumption DEF OwnRetentionBound, Own
  <2> QED
    BY <2>4, <2>6
<1> QED
  BY <1>1, ListStep, BoundStep, TypeCorrect, PTL DEF Spec

-----------------------------------------------------------------------------
(***************************************************************************)
(* Refinement. In a safe configuration the tracker is, at every moment but *)
(* while it is being rewritten, the durable step of ResumableTraining.     *)
(***************************************************************************)
LiveNow == CASE pc \in Running -> "running" [] pc = "done" -> "done" [] OTHER -> "down"

DurableNow ==
  IF pc = "trackerOpen" THEN globalSteps ELSE IF tracker = Missing THEN 0 ELSE tracker

TruncatedInv == pc = "trackerOpen" => tracker = Torn

\* The tracker is cut off exactly while it is being rewritten, or for ever.
LEMMA TruncatedStep == TruncatedInv /\ [Next]_vars => TruncatedInv'
<1> SUFFICES ASSUME TruncatedInv, [Next]_vars PROVE TruncatedInv'
  OBVIOUS
<1>1. ASSUME NEW mode \in ResumeModes, Launch(mode)
      PROVE  pc' # "trackerOpen"
  BY <1>1 DEF Launch, StartFromScratch, ResumeFrom, LoadFails, StartLoop
<1>2. CASE \/ TrainStep \/ EpochEnd \/ RotateDone \/ ShardsDone \/ DataOpen \/ DataClose
           \/ TrackerClose \/ Crash
  BY <1>2 DEF TruncatedInv, TrainStep, EpochEnd, RotateDone, ShardsDone, DataOpen, DataClose,
              TrackerClose, Crash
<1>3. CASE \/ \E s \in Steps, r \in Ranks : RotateRemove(s, r)
           \/ \E r \in Ranks : ShardOpen(r) \/ ShardClose(r)
  BY <1>3 DEF TruncatedInv, RotateRemove, ShardOpen, ShardClose
<1>4. CASE TrackerOpen
  BY <1>4 DEF TruncatedInv, TrackerOpen
<1>5. CASE UNCHANGED vars
  BY <1>5 DEF TruncatedInv, vars, disk
<1> QED
  BY <1>1, <1>2, <1>3, <1>4, <1>5 DEF TruncatedInv, Next, Progress, Save, Stopped

\* One step of the files is one step of the durable step, or none. Training
\* advances, truncating the tracker commits, closing it after the last step
\* finishes, and a crash in between loses the durable step.
LEMMA RefinementStep ==
  /\ SafeConfig
  /\ TypeOK /\ LoopInv /\ SafeInv /\ TruncatedInv
  /\ TypeOK' /\ LoopInv' /\ SafeInv'
  /\ [Next]_vars
  => [Abstract!Next]_Abstract!vars
<1> SUFFICES ASSUME SafeConfig, TypeOK, LoopInv, SafeInv, TruncatedInv,
                    TypeOK', LoopInv', SafeInv', [Next]_vars
             PROVE  [Abstract!Next]_Abstract!vars
  OBVIOUS
<1> USE ConfigAssumption, FilesAssumption
<1>1. Durable = DurableNow
  BY DEF Durable, DurableNow, TypeOK, SafeInv, TrackedCheckpointComplete, Steps
<1>2. Durable' = DurableNow'
  BY DEF Durable, DurableNow, TypeOK, SafeInv, TrackedCheckpointComplete, Complete, Steps
<1>3. (LiveNow' = LiveNow /\ globalSteps' = globalSteps /\ DurableNow' = DurableNow)
        => UNCHANGED Abstract!vars
  BY <1>1, <1>2 DEF Abstract!vars, LiveNow
<1>4. globalSteps \in Nat /\ Torn \notin Steps /\ Missing \notin Steps
  BY DEF TypeOK, Steps
<1>5. ASSUME NEW mode \in ResumeModes, Launch(mode)
      PROVE  [Abstract!Next]_Abstract!vars
  <2>1. mode = "auto" /\ pc \in {"down", "failed"} /\ UNCHANGED tracker
        /\ pc' \in {"loop", "failed"}
    BY <1>5 DEF SafeConfig, Launch, StartFromScratch, ResumeFrom, LoadFails, MayLaunch,
                StartLoop, disk
  <2>2. LiveNow = "down" /\ DurableNow' = DurableNow
    BY <2>1 DEF LiveNow, DurableNow, Running, Saving
  <2>3. pc' = "loop" => globalSteps' = DurableNow /\ DurableNow # Torn
    <3>1. CASE StartFromScratch(mode)
      <4>1. tracker = Missing
        BY <2>1, <3>1 DEF StartFromScratch, TrackerUnreadable, LatestFound, TypeOK, SafeInv,
                          TrackedCheckpointComplete, Complete
      <4> QED
        BY <2>1, <3>1, <4>1 DEF StartFromScratch, StartLoop, DurableNow
    <3>2. ASSUME NEW s \in Steps, ResumeFrom(mode, s)
          PROVE  globalSteps' = DurableNow /\ DurableNow # Torn
      <4>1. tracker = s /\ globalSteps' = s
        BY <2>1, <3>2 DEF ResumeFrom, Candidates, StartLoop
      <4> QED
        BY <1>4, <2>1, <4>1 DEF DurableNow
    <3>3. CASE LoadFails(mode)
      BY <3>3 DEF LoadFails
    <3> QED
      BY <1>5, <3>1, <3>2, <3>3 DEF Launch
  <2>4. CASE pc' = "loop"
    <3>1. LiveNow' = "running"
      BY <2>4 DEF LiveNow, Running
    <3>2. Abstract!Start
      BY <1>1, <1>2, <2>2, <2>3, <2>4, <3>1 DEF Abstract!Start, LiveNow
    <3> QED
      BY <3>2 DEF Abstract!Next
  <2>5. CASE pc' = "failed"
    <3>1. LiveNow' = "down" /\ UNCHANGED globalSteps
      BY <1>5, <2>5 DEF LiveNow, Running, Saving, Launch, StartFromScratch, ResumeFrom,
                        LoadFails, StartLoop
    <3> QED
      BY <1>3, <2>2, <3>1
  <2> QED
    BY <2>1, <2>4, <2>5
<1>6. CASE TrainStep
  <2>1. /\ globalSteps < TotalSteps /\ globalSteps' = globalSteps + 1
        /\ pc = "loop" /\ pc' \in {"loop", "rotate"} /\ UNCHANGED tracker
    BY <1>6 DEF TrainStep, SafeInv, disk
  <2>2. LiveNow = "running" /\ LiveNow' = "running" /\ DurableNow' = DurableNow
    BY <2>1 DEF LiveNow, DurableNow, Running, Saving
  <2>3. Abstract!Advance
    BY <1>1, <1>2, <2>1, <2>2 DEF Abstract!Advance, LiveNow
  <2> QED
    BY <2>3 DEF Abstract!Next
<1>7. ASSUME UNCHANGED <<globalSteps, tracker>>, pc \in Running \ {"trackerOpen"},
             pc' \in Running \ {"trackerOpen"}
      PROVE  [Abstract!Next]_Abstract!vars
  <2>1. LiveNow' = LiveNow /\ DurableNow' = DurableNow
    BY <1>7 DEF LiveNow, DurableNow, Running, Saving
  <2> QED
    BY <1>3, <1>7, <2>1
<1>8. CASE EpochEnd
  BY <1>7, <1>8 DEF EpochEnd, disk, Running, Saving
<1>9. CASE \/ \E s \in Steps, r \in Ranks : RotateRemove(s, r)
           \/ \E r \in Ranks : ShardOpen(r) \/ ShardClose(r)
  BY <1>7, <1>9 DEF RotateRemove, ShardOpen, ShardClose, loopVars, Running, Saving
<1>10. CASE RotateDone \/ ShardsDone \/ DataOpen \/ DataClose
  BY <1>7, <1>10 DEF RotateDone, ShardsDone, DataOpen, DataClose, disk, loopVars, Running, Saving
<1>11. CASE TrackerOpen
  <2>1. pc = "tracker" /\ pc' = "trackerOpen" /\ UNCHANGED globalSteps
    BY <1>11 DEF TrackerOpen, loopVars
  <2>2. LiveNow = "running" /\ LiveNow' = "running" /\ DurableNow' = globalSteps
    BY <2>1 DEF LiveNow, DurableNow, Running, Saving
  <2>3. Abstract!Commit
    BY <1>2, <2>1, <2>2 DEF Abstract!Commit, LiveNow
  <2> QED
    BY <2>3 DEF Abstract!Next
<1>12. CASE TrackerClose
  <2>1. /\ pc = "trackerOpen" /\ pc' \in {"done", "rotate", "loop"}
        /\ UNCHANGED globalSteps /\ tracker' = globalSteps
    BY <1>12 DEF TrackerClose, loopVars
  <2>2. LiveNow = "running" /\ DurableNow = globalSteps /\ DurableNow' = globalSteps
    BY <1>4, <2>1 DEF LiveNow, DurableNow, Running, Saving
  <2>3. CASE pc' = "done"
    <3>1. globalSteps = TotalSteps
      BY <1>4, <2>1, <2>3 DEF LoopInv, DoneMeansTrained, SafeInv, Running, Saving
    <3>2. LiveNow' = "done"
      BY <2>3 DEF LiveNow, Running, Saving
    <3>3. Abstract!Finish
      BY <1>1, <1>2, <2>1, <2>2, <3>1, <3>2 DEF Abstract!Finish, LiveNow
    <3> QED
      BY <3>3 DEF Abstract!Next
  <2>4. CASE pc' # "done"
    <3>1. LiveNow' = "running"
      BY <2>1, <2>4 DEF LiveNow, Running, Saving
    <3> QED
      BY <1>3, <2>1, <2>2, <3>1
  <2> QED
    BY <2>3, <2>4
<1>13. CASE Crash
  <2>1. pc \in Running /\ pc' = "down" /\ globalSteps' = 0 /\ UNCHANGED tracker
    BY <1>13 DEF Crash, disk
  <2>2. LiveNow = "running" /\ LiveNow' = "down"
    BY <2>1 DEF LiveNow, Running, Saving
  <2>3. DurableNow' = DurableNow \/ (DurableNow = globalSteps /\ DurableNow' = Torn)
    BY <2>1 DEF DurableNow, TruncatedInv
  <2>4. Abstract!Crash
    BY <1>1, <1>2, <2>1, <2>2, <2>3 DEF Abstract!Crash, LiveNow
  <2> QED
    BY <2>4 DEF Abstract!Next
<1>14. CASE UNCHANGED vars
  <2>1. LiveNow' = LiveNow /\ DurableNow' = DurableNow /\ UNCHANGED globalSteps
    BY <1>14 DEF vars, disk, loopVars, LiveNow, DurableNow
  <2> QED
    BY <1>3, <2>1
<1> QED
  BY <1>5, <1>6, <1>8, <1>9, <1>10, <1>11, <1>12, <1>13, <1>14
  DEF Next, Progress, Save, Stopped

\* In a safe configuration the checkpoint files implement one atomic durable
\* step that every later run resumes from.
THEOREM FilesImplementDurableStep == SafeConfig /\ Spec => ImplementsResumableTraining
<1> SUFFICES ASSUME SafeConfig PROVE Spec => ImplementsResumableTraining
  OBVIOUS
<1>1. Init => Abstract!Init /\ TruncatedInv
  <2> SUFFICES ASSUME Init PROVE Abstract!Init /\ TruncatedInv
    OBVIOUS
  <2>1. pc = "down" /\ globalSteps = 0 /\ tracker = Missing
    BY DEF Init
  <2>2. LiveNow = "down" /\ Durable = 0
    BY <2>1, FilesAssumption DEF LiveNow, Durable, Running, Saving, Steps
  <2> QED
    BY <2>1, <2>2 DEF Abstract!Init, LiveNow, TruncatedInv
<1>2. TypeOK /\ LoopInv /\ SafeInv /\ TruncatedInv /\ TypeOK' /\ LoopInv' /\ SafeInv' /\ [Next]_vars
        => [Abstract!Next]_Abstract!vars
  BY RefinementStep
<1> QED
  BY <1>1, <1>2, TruncatedStep, TypeCorrect, LoopInvariant, SafeInvariant, PTL
  DEF Spec, ImplementsResumableTraining, Abstract!Spec

=============================================================================
