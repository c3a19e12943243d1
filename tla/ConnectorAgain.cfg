SPECIFICATION Spec
CONSTANTS
  Transceivers = {t1, t2}
  Habits = {"again"}
  Faults = {}
  MaxStarts = 2
  MaxStops = 0
  MaxWaits = 1
INVARIANT
  RefusedMeansOver
CHECK_DEADLOCK FALSE
