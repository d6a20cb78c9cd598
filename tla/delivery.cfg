CONSTANTS
  Senders = {c1}
  Channels <- AllChannels
  Attempts = 2
  Window = 3
  Hour = 4
  Day = 3
  Second = 2
  DaysUntil <- OneLevel
  Direct <- MCDirect
  Null = Null
  MaxTime = 0
  MaxChecks = 1
  MaxSends = 1
  MaxErrors = 1
SPECIFICATION FairSpec
CHECK_DEADLOCK FALSE
INVARIANTS ReportsMatchRecipients
PROPERTIES CallsReturn
