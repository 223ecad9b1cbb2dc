SPECIFICATION FairSpec
CONSTANTS
  Configs <- MCLimits
  Second = 2
  Timeout = 2
  Threads = 2
  Durations <- Short
  Never = 99
  LastArrival = 3
  MaxTime = 16
INVARIANTS
  TypeOK
  BucketsExact
PROPERTY BatchEnds
CHECK_DEADLOCK FALSE
