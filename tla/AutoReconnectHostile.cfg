SPECIFICATION Spec
CONSTANTS
  Habits = {"hasty", "again", "outside"}
  Faults = {"tcp"}
  MaxStarts = 3
  Garbage = Garbage
INVARIANTS
  TypeOK
  EstablishedOnce
CHECK_DEADLOCK FALSE
