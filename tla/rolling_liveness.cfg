CONSTANTS
  movie = movie
  show = show
  r1 = r1
  r2 = r2
  h1 = h1
  Objects = {movie}
  Size <- MCSizeFull
  ChunkBytes = 2
  Quotas = {4}
  Policy = "rolling"
  ReadAheadChunks = 1
  PrefetchChunks = 0
  MaxAttempts = 2
  Handles = {h1}
  ObjectOf <- MCObjectOf
  Readers = {r1, r2}
  Reads <- MCReadsFull
  MaxGeneration = 2
  CleanupFails = FALSE
SPECIFICATION FairSpec
CHECK_DEADLOCK FALSE
INVARIANTS
  IncompleteObject
PROPERTIES
  BackpressureEnds
  FetchesEnd
