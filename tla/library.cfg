SPECIFICATION SpecFromStart
CONSTANTS
  d1 = d1
  d2 = d2
  f1 = f1
  f2 = f2
  f3 = f3
  n1 = n1
  n2 = n2
  blank = blank
  norm = norm
  Worker = {w1, w2}
  NoWorker = NoWorker
  Dir = {d1, d2}
  Location <- FirstDir
  File = {f1, f2, f3}
  DirOf <- TwoDirs
  Image = {1, 2}
  ImageDir <- InFirst
  Name = {n1, n2, blank}
  NormOf <- OneArtist
  NoNorm = NoNorm
  Title = {t1}
  NoTags = NoTags
  MaxEdits = 1
  MaxImports = 3
  MaxStops = 1
CHECK_DEADLOCK FALSE
SYMMETRY Symmetry
INVARIANTS
  LibInv
  OneArtistPerName
  CacheIsStored
  GroupHasItsPrimary
  OneCoverPerAlbum
PROPERTIES
  RowsAreKept
  ImplementsCatalog
