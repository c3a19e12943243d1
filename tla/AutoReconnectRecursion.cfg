SPECIFICATION Spec
CONSTANTS
  Habits = {"hasty"}
  Faults = {}
  MaxStarts = 2
  Garbage = Garbage
INVARIANT
  NoRecursion
CHECK_DEADLOCK FALSE
