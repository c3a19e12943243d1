SPECIFICATION FairSpec
CONSTANTS
  Transceivers = {t1, t2}
  Habits = {}
  Faults = {"tcp"}
  MaxStarts = 1
  MaxStops = 0
  MaxWaits = 1
PROPERTY
  BreakIsReported
CHECK_DEADLOCK FALSE
