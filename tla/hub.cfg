CONSTANTS
  Conns = {c1, c2}
  HubBuffer = 2
  SendBuffer = 2
  MaxMessages = 3
SPECIFICATION FairHubSpec
CHECK_DEADLOCK FALSE
INVARIANTS NoPanic NoGaps BatchIsQueued
PROPERTIES HubProgress
