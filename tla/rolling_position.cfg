CONSTANTS
  movie = movie
  show = show
  r1 = r1
  r2 = r2
  h1 = h1
  Objects = {movie, show}
  Size <- MCSizeTwo
  ChunkBytes = 2
  Quotas = {4}
  Policy = "rolling"
  ReadAheadChunks = 1
  PrefetchChunks = 0
  MaxAttempts = 1
  Handles = {h1}
  ObjectOf <- MCObjectOf
  Readers = {r1, r2}
  Reads <- MCReads
  MaxGeneration = 1
  CleanupFails = FALSE
SPECIFICATION Spec
CHECK_DEADLOCK FALSE
PROPERTY
  PositionNeverMovesBack
