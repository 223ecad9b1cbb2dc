SPECIFICATION FairSpec
CONSTANTS
  Configs <- MCConfigs
  Servers <- TwoServers
  TpSize = 2
  CacheSize = 2
  ResponseLength = 3
  MaxAssistantTurns = 0
  MaxUserTurns = 2
  Sizes <- OneOrTwo
  MaxSteps = 2
INVARIANTS
  TypeOK
  CurrentWeights
  SessionsBalanced
  DeviceShared
  RowsWhole
PROPERTY RolloutEnds
CHECK_DEADLOCK FALSE
