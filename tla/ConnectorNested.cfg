SPECIFICATION FairSpec
CONSTANTS
  Transceivers = {t1, t2}
  Habits = {"nested"}
  Faults = {}
  MaxStarts = 1
  MaxStops = 0
  MaxWaits = 1
PROPERTY
  CallsReturn
CHECK_DEADLOCK FALSE
