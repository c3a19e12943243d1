SPECIFICATION Spec
CONSTANTS
  Transceivers = {t1, t2}
  Habits = {"again", "late", "nested"}
  Faults = {"amqp", "tcp"}
  MaxStarts = 2
  MaxStops = 2
  MaxWaits = 2
INVARIANTS
  TypeOK
  DroppedOnError
PROPERTIES
  HandlerFollowsLink
  TransceiversFollowLifecycle
CHECK_DEADLOCK FALSE
