SPECIFICATION Spec
CONSTANTS
  movie = movie
  movie2 = movie2
  note = note
  t1 = t1
  t2 = t2
  t3 = t3
  t4 = t4
  Files = {movie, movie2}
  Names = {movie, movie2}
  NoFile = NoFile
  NameOf <- MCNameOf
  SizeOf <- MCSizeOf
  NextPart <- MCNextPart
  Matched <- MCMatched
  CacheSize = 4
  Page = 1
  Lengths = {2}
  MaxPart = 3
  Retries = 2
  Threads = {t1, t2, t3, t4}
  Fuse = Fuse
  Inline = {}
  Media = {movie}
  PlexSplit = TRUE
  Faults = {}
  MayCrash = FALSE
SYMMETRY Symmetry
INVARIANTS
  TypeOK
  UntornReadExact
  TornHasWriter
  CachingHasWorker
  
CHECK_DEADLOCK FALSE
