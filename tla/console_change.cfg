CONSTANTS
  t1 = t1
  t2 = t2
  o1 = o1
  o2 = o2
  i1 = i1
  Objects = {o1, o2}
  Tokens = {t1, t2}
  Account <- MCAccount
  Intents = {i1}
  ObjectOf <- MCObjectOf
  MediaOf <- MCMediaOf
  NameOf <- MCNameOf
  MaxItems = 2
  MaxJobs = 1
  Scenarios <- ChangeScenarios
SPECIFICATION Spec
CHECK_DEADLOCK FALSE
PROPERTIES
  ChangeKeepsManifest
