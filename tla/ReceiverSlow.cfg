SPECIFICATION Spec
CONSTANTS
  Channels = {c1, c2, c3}
  NoChannel = NoChannel
  Roles <- Receiver
  Interference <- Slow
  MaxStarts = 2
  MaxStops = 1
INVARIANTS
  ReadyIsComplete
CHECK_DEADLOCK FALSE
