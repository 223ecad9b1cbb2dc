CONSTANTS
  Ranks = {r1, r2}
  StepsPerEpoch = 2
  TotalEpochs = 3
  TotalSteps = 6
  SaveFreq = 2
  MaxKeep = 2
  ResumeModes = {"auto"}
  RelaunchDone = FALSE
  MaxRuns = 2
  MaxSteps = 6
  Missing = Missing
  Torn = Torn
SPECIFICATION Spec
INVARIANT TrackedCheckpointComplete
