SPECIFICATION FairSpec
CONSTANTS
  Windows = {w1, w2}
  Sockets = {s1, s2}
  Tasks = {t1, t2}
  None = None
  Free = Free
  Other = Other
  Protocols <- BothProtocols
  MaxAttempts = 1
  MaxActs = 3
PROPERTY StaleViewerReleased
