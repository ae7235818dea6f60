SPECIFICATION Spec
CONSTANTS
  movie = movie
  movie2 = movie2
  note = note
  t1 = t1
  t2 = t2
  t3 = t3
  t4 = t4
  Files = {movie}
  Names = {movie}
  NoFile = NoFile
  NameOf <- MCNameOf
  SizeOf <- MCSizeOf
  NextPart <- MCNextPart
  Matched <- MCMatched
  CacheSize = 4
  Page = 1
  Lengths = {2}
  MaxPart = 3
  Retries = 2
  Threads = {t1, t2}
  Fuse = Fuse
  Inline = {}
  Media = {}
  PlexSplit = FALSE
  Faults = {}
  MayCrash = FALSE
SYMMETRY Symmetry
INVARIANTS
  OnlyFUSEError
CHECK_DEADLOCK FALSE
