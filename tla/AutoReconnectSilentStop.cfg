SPECIFICATION FairSpec
CONSTANTS
  Habits = {}
  Faults = {}
  MaxStarts = 1
  Garbage = Garbage
PROPERTY
  StopNotifies
CHECK_DEADLOCK FALSE
