SPECIFICATION FairSpec
CONSTANTS
    Callers = {c1, c2}
    Period = 4
    DBInterval = 4
    RedisInterval = 3
    Silent = {"database"}
    MaxOutages = 1
    MaxWrites = 1
    None = None
CHECK_DEADLOCK FALSE
INVARIANTS ModesAreSound CopyNeedsARace
PROPERTIES Recovers CallsReturn
