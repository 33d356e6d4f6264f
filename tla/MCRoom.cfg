CONSTANTS
  Clients = {"tab"}
  Outcomes = {"text", "card", "cards"}
  Held = TRUE
  QueueSize = 2
  PageLimit = 2
  MaxMessages = 3
  MaxBreaks = 1
SPECIFICATION Spec
CHECK_DEADLOCK FALSE
INVARIANTS
  NothingElseIsSkipped
  ButtonsDisappear
PROPERTIES
  IndicatorSettles
  EverythingArrives
