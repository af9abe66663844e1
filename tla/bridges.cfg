SPECIFICATION FairSpec
CONSTANTS
  Requests = {r1}
  Viewers = {v1}
  Outputs = {headless, forge}
  Headless = headless
  Forge = forge
  NoOutput = NoOutput
  Free = Free
  Cancels = FALSE
INVARIANTS
  HeadlessBacked
  FilesRemoved
  HeldWhileCaptured
PROPERTIES
  ImplementsLease
  LeaseReturns
