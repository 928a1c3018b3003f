SPECIFICATION FairSpec
CONSTANTS
  sound = sound
  torn = torn
  Caller = {c1, c2}
  Image <- Images
  Header <- Images
  Body <- SoundOnly
  Size <- Sizes
  NoPath = NoPath
  MaxFaults = 2
  MaxStops = 2
CHECK_DEADLOCK FALSE
INVARIANTS
  StoreInv
  LinksCanBeServed
  OneIdPerImage
PROPERTIES
  EveryCallEnds
