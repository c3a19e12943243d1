SPECIFICATION Spec
CONSTANTS
  Transceivers = {t1, t2}
  Habits = {}
  Faults = {"amqp", "tcp"}
  MaxStarts = 2
  MaxStops = 2
  MaxWaits = 3
INVARIANTS
  NotReadyMeansStopped
  ExitOnceUnlessNested
  NoDangling
PROPERTY
  ImplementsSessionUnlessNested
CHECK_DEADLOCK FALSE
