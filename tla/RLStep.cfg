SPECIFICATION FairSpec
CONSTANTS
  Configs <- MixedConfigs
  DpSize = 2
  PromptLength = 4
  MinLen = 2
  MaxSteps = 2
INVARIANTS
  TypeOK
  RowsStayTogether
  RewardsOfOwnRow
  AdvantagesOfValidRows
  RatioToRolloutPolicy
  EachRowOnce
PROPERTIES
  UpdateTogether
  ValidRowsDecideStep
  StepEnds
CHECK_DEADLOCK FALSE
