CONSTANTS
  i1 = i1
  i2 = i2
  w1 = w1
  w2 = w2
  Null = Null
  Monitors = {m1}
  Jobs = {j1, j2}
  Instances = {i1, i2}
  Workers = {w1, w2}
  Host <- HostPair
  Intervals = {1}
  JitterDivisor = 2
  TicksPerSecond = 1
  MaxRetries = 1
  MaxTime = 2
  MaxCalls = 1
  MaxErrors = 1
  MaxCrashes = 0
SPECIFICATION FairSpec
CHECK_DEADLOCK FALSE
INVARIANTS BoundedDuplication
PROPERTIES PipelineProgress
