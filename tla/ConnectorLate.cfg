SPECIFICATION FairSpec
CONSTANTS
  Transceivers = {t1, t2}
  Habits = {"late"}
  Faults = {}
  MaxStarts = 1
  MaxStops = 1
  MaxWaits = 2
PROPERTY
  StopCompletes
CHECK_DEADLOCK FALSE
