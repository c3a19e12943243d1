SPECIFICATION Spec
CONSTANTS
  Habits = {}
  Faults = {"tcp"}
  MaxStarts = 1
  Garbage = Garbage
INVARIANT
  TriesUntilStopped
CHECK_DEADLOCK FALSE
