SPECIFICATION FairSpec
CONSTANTS
  Interval = 2
  Timeout = 3
  SendTimeout = 1
  TeardownTimeout = 1
  PipeUnits = 2
  MaxPackets = 3
  MaxBlocked = 3
  MaxMessages = 1
INVARIANTS
  OneUnacknowledged
  SilentReleased
PROPERTIES
  ImplementsChannel
  NewestArrives
  GoneReleased
CHECK_DEADLOCK FALSE
