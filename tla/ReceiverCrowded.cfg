SPECIFICATION Spec
CONSTANTS
  Channels = {c1, c2, c3}
  NoChannel = NoChannel
  Roles <- Receiver
  Interference <- Crowded
  MaxStarts = 1
  MaxStops = 1
PROPERTIES
  ExistingQueueSurvives
CHECK_DEADLOCK FALSE
