SPECIFICATION FairSpec
CONSTANTS
  Setups <- BrowserAndDesktops
  Buttons = {left}
  Extent = 2
  Home = 0
  Capacity = 2
  TextLimit = 2
  TextChunk = 1
  MaxEvents = 4
  MaxTransit = 2
INVARIANTS
  TypeOK
  ButtonsFollow
  TextComplete
PROPERTIES
  InjectsInOrder
  ClickWhereAimed
  EndReleases
  FullQueueDrains
CHECK_DEADLOCK FALSE
