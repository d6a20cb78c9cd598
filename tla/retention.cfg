SPECIFICATION Spec
CONSTANTS
    Loops = {l1, l2}
    Hour = 2
    Day = 2
    Threshold = 1
    Period = 3
    MaxTime = 7
    MaxChecks = 2
    MaxErrors = 1
    None = None
SYMMETRY Symmetry
CHECK_DEADLOCK FALSE
INVARIANTS DataAreSound OneLoopEach
