\* A panic ends the process.
SPECIFICATION Spec
CHECK_DEADLOCK FALSE
CONSTANTS
    Callers = {c1, c2}
    PoolSize = 2
    MaxStarts = 2
    MaxJobs = 3
    None = None
INVARIANTS StopIsSound AnswersAreSound
PROPERTIES CallsReturn
