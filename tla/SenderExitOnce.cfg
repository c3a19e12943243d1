SPECIFICATION Spec
CONSTANTS
  Channels = {c1, c2, c3}
  NoChannel = NoChannel
  Roles <- Sender
  Interference <- Alone
  MaxStarts = 1
  MaxStops = 1
INVARIANTS
  ExitOnce
CHECK_DEADLOCK FALSE
