SPECIFICATION FairSpec
CONSTANTS
  Viewers = {v1, v2}
  Pty = Pty
  Free = Free
  HistoryLimit = 2
  Capacity = 2
  MaxChunks = 6
INVARIANTS
  NoSilentGap
PROPERTIES
  ForwardsInOrder
  CatchesUp
