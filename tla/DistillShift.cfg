SPECIFICATION Spec
CONSTANTS
  MaxLength = 8
  Truncation = "left"
  BatchSize = 2
  DpSize = 2
  Samples <- OneTaskSamples
  Configs <- ShippedConfigs
INVARIANT
  ResponsePredicted
CHECK_DEADLOCK FALSE
