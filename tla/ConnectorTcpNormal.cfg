SPECIFICATION Spec
CONSTANTS
  Transceivers = {t1, t2}
  Habits = {}
  Faults = {"tcp"}
  MaxStarts = 1
  MaxStops = 0
  MaxWaits = 1
INVARIANT
  NormalMeansStopped
CHECK_DEADLOCK FALSE
