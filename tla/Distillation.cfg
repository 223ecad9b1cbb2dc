SPECIFICATION FairSpec
CONSTANTS
  MaxLength = 8
  Truncation = "left"
  BatchSize = 4
  DpSize = 2
  Samples <- MixedSamples
  Configs <- MixedConfigs
INVARIANTS
  TypeOK
  SamePrediction
  LettersAligned
  DenominatorsCount
  EachPredictionOnce
  OptimizersTogether
PROPERTIES
  UpdateEnds
CHECK_DEADLOCK FALSE
