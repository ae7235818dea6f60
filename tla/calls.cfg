\* The FUSE thread and two others; two requests in two ticks; tokens of two
\* lengths that live two ticks.
SPECIFICATION Spec
CONSTANTS
  MaxRequests = 2
  Period = 2
  SleepTime = 2
  Life = 2
  Sizes = {1, 2}
  Callers = {fuse, prefetch, refresh}
  Fuse = fuse
INVARIANTS TypeOK FloodKept SentFresh 
