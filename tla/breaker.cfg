CONSTANTS
  Senders = {c1, c2, c3}
  MaxFailures = 3
  SuccessThreshold = 2
  Timeout = 2
SPECIFICATION FairBreakerSpec
INVARIANTS OpensInTime QuietWhileOpen OnlyProbes
PROPERTIES ChangesForCause CircuitRecovers
