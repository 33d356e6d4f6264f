CONSTANTS
  Views = {v1}
  MaxWritten = 2
  MaxBreaks = 2
  MaxLeaves = 0
SPECIFICATION OutboxFairSpec
CHECK_DEADLOCK FALSE
PROPERTY QueueIsEmptied
