SPECIFICATION Spec
CONSTANTS
    Tabs = {t1, t2}
    TTL = 2
    CallTime = 2
    MaxSessions = 2
    MaxErrors = 1
    None = None
SYMMETRY Symmetry
INVARIANTS SessionsAreSound
PROPERTIES SessionsEndForACause CookieLostForACause
