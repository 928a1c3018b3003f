SPECIFICATION FairSpec
CONSTANTS
  Location = {l1, l2}
  Request = {r1, r2}
  Watched = {r1}
  Uri = {u1, u2}
  NoUri = NoUri
  NoRequest = NoRequest
  NoLocation = NoLocation
  MaxStops = 1
  MaxEdits = 2
  StoreFaults = TRUE
CHECK_DEADLOCK FALSE
INVARIANTS
  LifeInv
  MapsAgreeWithRecords
  TerminalAnswerIsFinal
PROPERTIES
  LocationIsHeld
  ExitClosesRecords
  ImplementsRecord
  EveryScanCloses
  LocationIsFreed
