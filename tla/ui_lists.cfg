SPECIFICATION FairSpecFromStart
CONSTANTS
  all = all
  some = some
  Row <- Rows
  MaxPos = 2
  Key <- Keys
  Match <- Admits
  PageSize = 1
  Entry <- Entries
  MaxEdits = 1
  MaxTurns = 2
  MaxClears = 1
  MaxFaults = 1
CHECK_DEADLOCK FALSE
INVARIANTS
  ListInv
  PagesAreSound
  ListsAreNotMixed
  LoadingMeansFetching
PROPERTIES
  ListIsCompleted
