SPECIFICATION Spec
CONSTANTS
  Transceivers = {t1, t2}
  Habits = {}
  Faults = {"amqp"}
  MaxStarts = 1
  MaxStops = 1
  MaxWaits = 1
INVARIANT
  ExitOnce
CHECK_DEADLOCK FALSE
