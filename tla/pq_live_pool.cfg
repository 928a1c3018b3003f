SPECIFICATION FairSpec
CONSTANTS
  Dir = {d1, d2}
  Worker = {w1}
  Location = {l1}
  LocationOf <- OneLocation
  MaxAttempts = 2
  MaxGen = 1
  MaxStops = 1
  StoreFaults = FALSE
CHECK_DEADLOCK FALSE
INVARIANT ClaimBound
PROPERTY TriggeredDirIsClaimed
