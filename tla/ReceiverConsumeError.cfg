SPECIFICATION Spec
CONSTANTS
  Channels = {c1, c2, c3}
  NoChannel = NoChannel
  Roles <- Receiver
  Interference <- Alone
  MaxStarts = 1
  MaxStops = 1
INVARIANTS
  CleanAfterConsumeError
CHECK_DEADLOCK FALSE
