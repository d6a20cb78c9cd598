CONSTANTS
  Senders = {c1, c2}
  Channels <- OneChannel
  Attempts = 1
  Window = 3
  Hour = 4
  Day = 3
  Second = 2
  DaysUntil <- OneLevel
  Direct = {}
  Null = Null
  MaxTime = 4
  MaxChecks = 3
  MaxSends = 0
  MaxErrors = 1
SPECIFICATION Spec
SYMMETRY SenderSymmetry
CHECK_DEADLOCK FALSE
INVARIANTS LimitsAreSound
PROPERTIES RecoveryOfAnOutage AlertsAreSpaced
