SPECIFICATION Spec
CONSTANTS
  root = root
  album = album
  disc = disc
  Root = root
  Dir = {root, album, disc}
  Parent <- AlbumTree
  NoDir = NoDir
  Disc = {disc}
  Name = {n1}
  Stat = {s1, s2}
  NoFile = NoFile
  MaxGen = 2
  MaxEdits = 2
CHECK_DEADLOCK FALSE
SYMMETRY Symmetry
INVARIANTS
  SyncInv
  StayingFileIsPresent
  CompletedScanIsExact
  CleanDirIsParsed
