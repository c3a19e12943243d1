SPECIFICATION Spec
CONSTANTS
  MaxStarts = 2
  MaxBufs = 3
  MaxChunks = 2
  MaxDepth = 3
PROPERTY OwnAttempt
CHECK_DEADLOCK FALSE
