SPECIFICATION Spec
CONSTANTS
  Dir = {d1}
  Worker = {w1, w2}
  Location = {l1}
  LocationOf <- OneLocation
  MaxAttempts = 2
  MaxGen = 2
  MaxStops = 1
  StoreFaults = TRUE
CHECK_DEADLOCK FALSE
SYMMETRY Symmetry
INVARIANTS
  NoLostUpdate
  ExclusiveClaim
  IInv
