CONSTANTS
  Ranks = {r1, r2, r3}
  StepsPerEpoch = 4
  TotalEpochs = 2
  TotalSteps = 7
  SaveFreq = 2
  MaxKeep = 2
  ResumeModes = {"auto"}
  RelaunchDone = FALSE
  MaxRuns = 4
  MaxSteps = 7
  Missing = Missing
  Torn = Torn
SPECIFICATION FairSpec
INVARIANT TypeOK
INVARIANT TrackedCheckpointComplete
INVARIANT LostWorkBounded
INVARIANT DoneMeansTrained
PROPERTY EventuallyTrained
PROPERTY ImplementsResumableTraining
