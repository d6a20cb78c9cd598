SPECIFICATION Spec
CONSTANTS
    Callers = {c1, c2}
    TTL = 1
    CallTime = 1
    MaxWrites = 3
    MaxErrors = 1
    None = None
    Requests = {{"config"}, {"enabled"}}
SYMMETRY CallerSymmetry
CHECK_DEADLOCK FALSE
INVARIANTS CopiesAreSound EnabledIsPlanned
PROPERTIES WritesTakeEffect
