SPECIFICATION Spec
CONSTANTS
  Interval = 2
  Timeout = 4
  SendTimeout = 1
  TeardownTimeout = 1
  PipeUnits = 2
  MaxPackets = 2
  MaxBlocked = 1
  MaxMessages = 2
INVARIANT HeaderWhereWritten
CHECK_DEADLOCK FALSE
