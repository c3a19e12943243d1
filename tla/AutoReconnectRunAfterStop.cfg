SPECIFICATION Spec
CONSTANTS
  Habits = {}
  Faults = {}
  MaxStarts = 1
  Garbage = Garbage
INVARIANT
  NoRunAfterStop
CHECK_DEADLOCK FALSE
