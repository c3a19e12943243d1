SPECIFICATION Spec
CONSTANTS
  Channels = {c1, c2, c3}
  NoChannel = NoChannel
  Roles <- Receiver
  Interference <- Hostile
  MaxStarts = 2
  MaxStops = 2
INVARIANTS
  TypeOK
  NothingNull
  UnguardedAreCurrent
  CleanAfterBindError
PROPERTIES
  ImplementsLifecycle
CHECK_DEADLOCK FALSE
