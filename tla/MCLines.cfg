CONSTANTS
  Reqs = {r1, r2}
  MaxCalls = 1
  MaxDeaths = 2
  MaxBadLines = 1
  Views = {v1, v2}
  MaxWritten = 2
  MaxBreaks = 1
  MaxLeaves = 1
SPECIFICATION LinesSpec
CHECK_DEADLOCK FALSE
INVARIANTS
  
  OutboxKeepsItsWord
PROPERTIES
  RequestsEnd
  RetriedUntilAnswered
