CONSTANTS
  t1 = t1
  t2 = t2
  a = a
  b = b
  Tokens = {t1, t2}
  Items = {a, b}
  MaxItems = 2
  Requests <- MCRequests
  Gens = {1, 2, 3, 4, 5, 6}
  MaxAttempts = 1
  MaxFaults = 2
  MaxStops = 2
SPECIFICATION Spec
CHECK_DEADLOCK FALSE
INVARIANTS
  TypeOK
  AllOrNothing
PROPERTIES
  ImplementsDurableManifest
  PlexSeesInTheEnd
