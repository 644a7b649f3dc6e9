CONSTANTS
  j1 = j1
  j2 = j2
  i1 = i1
  i2 = i2
  h1 = h1
  h2 = h2
  d1 = d1
  w1 = w1
  w2 = w2
  Jobs = {j1, j2}
  Intents = {i1, i2}
  IntentOf <- MCTwoIntents
  Hashes = {h1}
  Ranges = {d1}
  Offers <- MCOnePack
  MaxCandidates = 2
  Workers = {w1}
  UserActs = TRUE
  MaxObjects = 2
SPECIFICATION Spec
SYMMETRY MCSymmetry
CHECK_DEADLOCK FALSE
INVARIANTS
  TypeOK
  ObjectFitsStage
  NoDuplicateObject
  SucceedsPublished
PROPERTIES
  OwnedLeavesAccount
