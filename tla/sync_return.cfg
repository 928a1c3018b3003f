SPECIFICATION Spec
CONSTANTS
  root = root
  album = album
  disc = disc
  Root = root
  Dir = {root, album}
  Parent <- AlbumTree
  NoDir = NoDir
  Disc = {}
  Name = {n1}
  Stat = {s1, s2}
  NoFile = NoFile
  MaxGen = 3
  MaxEdits = 2
CHECK_DEADLOCK FALSE
SYMMETRY Symmetry
INVARIANT ReturnedFileIsPresent
