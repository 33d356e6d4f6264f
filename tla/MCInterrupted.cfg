CONSTANTS
  Facts = {"f", "g"}
  Places = {1}
  DiesAt = {"stopped", "retiring", "applied"}
  MaxEdits = 3
  MaxMoves = 4
SPECIFICATION Spec
CHECK_DEADLOCK FALSE
INVARIANT NothingIsLost
