CONSTANTS
  movie = movie
  show = show
  r1 = r1
  r2 = r2
  h1 = h1
  Objects = {movie}
  Size <- MCSizeShort
  ChunkBytes = 2
  Quotas = {2}
  Policy = "persistent"
  ReadAheadChunks = 1
  PrefetchChunks = 1
  MaxAttempts = 1
  Handles = {h1}
  ObjectOf <- MCObjectOf
  Readers = {r1, r2}
  Reads <- MCReads
  MaxGeneration = 1
  CleanupFails = TRUE
SYMMETRY ReaderSymmetry
SPECIFICATION Spec
CHECK_DEADLOCK FALSE
PROPERTY
  PersistentRetains
