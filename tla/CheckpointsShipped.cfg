CONSTANTS
  Ranks = {r1, r2}
  StepsPerEpoch = 2
  TotalEpochs = 3
  TotalSteps = 6
  SaveFreq = 2
  MaxKeep = 2
  ResumeModes = {"auto"}
  RelaunchDone = TRUE
  MaxRuns = 4
  MaxSteps = 9
  Missing = Missing
  Torn = Torn
SPECIFICATION Spec
INVARIANT RanksAgree
INVARIANT LoaderAligned
PROPERTY DamagedOnlyByResave
