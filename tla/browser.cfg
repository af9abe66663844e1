SPECIFICATION Spec
CONSTANTS
  Requests = {r1, r2}
  Nobody = Nobody
  Limit = 2
  Start = 10
  MaxWindows = 3
SYMMETRY Symmetry
INVARIANTS
  TypeOK
  WithinLimit
  OwnWorkspace
  UrlIntoItsWindow
PROPERTY EachLaunchItsWindow
