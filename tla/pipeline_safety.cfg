CONSTANTS
  i1 = i1
  i2 = i2
  w1 = w1
  w2 = w2
  Null = Null
  Monitors = {m1}
  Jobs = {j1, j2, j3}
  Instances = {i1}
  Workers = {w1, w2}
  Host <- HostSingle
  Intervals = {4}
  JitterDivisor = 4
  TicksPerSecond = 2
  MaxRetries = 3
  MaxTime = 6
  MaxCalls = 2
  MaxErrors = 1
  MaxCrashes = 1
SPECIFICATION Spec
SYMMETRY SingleSymmetry
CHECK_DEADLOCK FALSE
INVARIANTS AtMostOnce QueueInDueOrder NeverEarly NoSilentLoss NoOrphanRows
PROPERTIES ImplementsLedger
