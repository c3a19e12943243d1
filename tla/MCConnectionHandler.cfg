SPECIFICATION FairSpec
CONSTANTS
  MaxStarts = 2
  MaxBufs = 3
  MaxChunks = 2
  MaxDepth = 3
INVARIANTS
  TypeOK
  OneOperation
  NoDanglingUse
  WireOrder
  NeverStalls
  StoppedIsQuiet
  NotifiedOnceUnlessNested
PROPERTIES
  ShutdownCompletes
  AttemptSettles
  ImplementsLink
CHECK_DEADLOCK FALSE
