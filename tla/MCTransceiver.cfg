SPECIFICATION FairSpec
CONSTANTS
  Channels = {c1, c2, c3}
  NoChannel = NoChannel
  Roles <- Both
  Interference <- Alone
  MaxStarts = 2
  MaxStops = 2
INVARIANTS
  ReadyIsComplete
  BindingUndone
  OwnDeliveries
PROPERTIES
  ExistingQueueSurvives
  StartSettles
  ShutdownEnds
CHECK_DEADLOCK FALSE
