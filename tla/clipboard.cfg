SPECIFICATION FairSpec
CONSTANTS
  Tasks = {t1, t2}
  Desktops = {hypr}
  NoDesktop = NoDesktop
  Contents <- MCContents
  Nothing = Nothing
  Offers <- MCOffers
INVARIANTS
  AnswerIsOneClipboard
  PreviewMatches
  PasteLands
PROPERTY OperationsEnd
