SPECIFICATION Spec
CONSTANTS
  Transceivers = {t1, t2}
  Habits = {"late"}
  Faults = {}
  MaxStarts = 1
  MaxStops = 1
  MaxWaits = 2
INVARIANT
  NotReadyMeansStopped
CHECK_DEADLOCK FALSE
