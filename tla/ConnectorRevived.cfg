SPECIFICATION FairSpec
CONSTANTS
  Transceivers = {t1}
  Habits = {}
  Faults = {}
  MaxStarts = 1
  MaxStops = 1
  MaxWaits = 1
PROPERTY
  StopCompletes
CHECK_DEADLOCK FALSE
