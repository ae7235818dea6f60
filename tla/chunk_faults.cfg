SPECIFICATION FairSpec
CONSTANTS
  movie = movie
  movie2 = movie2
  note = note
  t1 = t1
  t2 = t2
  t3 = t3
  t4 = t4
  Files = {movie, note}
  Names = {movie, note}
  NoFile = NoFile
  NameOf <- MCNameOf
  SizeOf <- MCSizeOf
  NextPart <- MCNextPart
  Matched <- MCMatched
  CacheSize = 4
  Page = 1
  Lengths = {2}
  MaxPart = 3
  Retries = 1
  Threads = {t1, t2}
  Fuse = Fuse
  Inline = {note}
  Media = {}
  PlexSplit = FALSE
  Faults = {"nodata", "FUSEError", "raise"}
  MayCrash = TRUE
INVARIANTS
  UntornReadExact
PROPERTIES
  ReadAnswered
  ReadsAsPromised
