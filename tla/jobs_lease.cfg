CONSTANTS
  j1 = j1
  j2 = j2
  i1 = i1
  i2 = i2
  h1 = h1
  h2 = h2
  d1 = d1
  w1 = w1
  w2 = w2
  Jobs = {j1}
  Intents = {i1}
  IntentOf <- MCOneIntent
  Hashes = {h1, h2}
  Ranges = {d1}
  Offers <- MCOffers
  MaxCandidates = 3
  Workers = {w1, w2}
  UserActs = FALSE
  MaxObjects = 2
SPECIFICATION FairSpec
CHECK_DEADLOCK FALSE
INVARIANTS
  PlanInOrder
  NoDuplicateObject
PROPERTIES
  TerminalFinal
  ActiveJobAttended
