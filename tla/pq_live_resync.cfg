SPECIFICATION FairSpec
CONSTANTS
  Dir = {d1}
  Worker = {w1, w2}
  Location = {l1}
  LocationOf <- OneLocation
  MaxAttempts = 2
  MaxGen = 2
  MaxStops = 0
  StoreFaults = FALSE
CHECK_DEADLOCK FALSE
PROPERTIES
  LockIsReleased
  EventuallyQuiescent
