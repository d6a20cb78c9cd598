SPECIFICATION Spec
CONSTANTS
    Workers = {w1, w2}
    Readers = {r1}
    MaxAttempts = 3
    Delay = 1
    Timeout = 4
    Kinds = {"uptime", "response:1h0m0s"}
    TTL = 2
    ReadTime = 1
    MaxChecks = 2
    MaxErrors = 2
    None = None
SYMMETRY Symmetry
INVARIANTS MetricsAreSound PeriodsNest
PROPERTIES ShortOutagesAreForgiven
