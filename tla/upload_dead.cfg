SPECIFICATION Spec
CONSTANTS
  c1 = c1
  c2 = c2
  c3 = c3
  movie = movie
  movie2 = movie2
  fd1 = fd1
  fd2 = fd2
  dir1 = dir1
  dir2 = dir2
  NoCopy = NoCopy
  Copies = {c1, c2}
  Dirs = {dir1, dir2}
  Names = {movie}
  Fds = {fd1, fd2}
  Blocks = {1, 2}
  MaxSize = 4
  Matched <- MCMatched
  Faults = {}
  Reopens = FALSE
  Maintains = FALSE
SYMMETRY Symmetry
INVARIANTS
  OnlyFUSEError
CHECK_DEADLOCK FALSE
