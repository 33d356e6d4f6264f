CONSTANTS
  Clients = {"tab"}
  Outcomes = {"text"}
  Held = FALSE
  QueueSize = 2
  PageLimit = 4
  MaxMessages = 4
  MaxBreaks = 0
SPECIFICATION Spec
CHECK_DEADLOCK FALSE
INVARIANT
  ReconnectIsGapFree
