SPECIFICATION FairSpec
CONSTANTS
  Habits = {"again"}
  Faults = {}
  MaxStarts = 2
  Garbage = Garbage
PROPERTY
  StopNotifiesUnlessPaused
CHECK_DEADLOCK FALSE
