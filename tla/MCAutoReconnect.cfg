SPECIFICATION FairSpec
CONSTANTS
  Habits = {"outside"}
  Faults = {}
  MaxStarts = 3
  Garbage = Garbage
INVARIANTS
  ConnectionIsRunUnlessLost
  OneAttempt
PROPERTIES
  ImplementsKeeper
  Reconnects
  StopNotifiesUnlessPaused
CHECK_DEADLOCK FALSE
