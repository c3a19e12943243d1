SPECIFICATION Spec
CONSTANTS
  Habits = {}
  Faults = {}
  MaxStarts = 1
  Garbage = Garbage
INVARIANT
  ConnectionIsRun
CHECK_DEADLOCK FALSE
