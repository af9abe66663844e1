SPECIFICATION Spec
CONSTANTS
  Requests = {r1, r2}
  Viewers = {v1, v2}
  Outputs = {headless, forge}
  Headless = headless
  Forge = forge
  NoOutput = NoOutput
  Free = Free
  Cancels = TRUE
PROPERTY NoSwitchUnderViewer
