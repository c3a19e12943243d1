SPECIFICATION FairSpec
CONSTANTS
  Transceivers = {t1, t2}
  Habits = {}
  Faults = {"amqp"}
  MaxStarts = 2
  MaxStops = 1
  MaxWaits = 2
PROPERTIES
  StopCompletesUnlessRacedOrRevived
  BreakIsReportedUnlessRaced
  CallsReturnUnlessRacedOrRevived
CHECK_DEADLOCK FALSE
