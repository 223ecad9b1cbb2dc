SPECIFICATION Spec
CONSTANTS
  Configs <- ThreadLimits
  Second = 2
  Timeout = 2
  Threads = 2
  Durations <- Short
  Never = 99
  LastArrival = 3
  MaxTime = 16
INVARIANT ConcurrencyKept
CHECK_DEADLOCK FALSE
