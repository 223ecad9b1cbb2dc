SPECIFICATION Spec
CONSTANTS
  MaxLength = 8
  Truncation = "left"
  BatchSize = 2
  DpSize = 2
  Samples <- InitialsSamples
  Configs <- ShippedConfigs
INVARIANT
  InitialsAligned
CHECK_DEADLOCK FALSE
