CONSTANTS
  m = m
  s = s
  Movies = {m}
  Shows = {s}
  MaxEpisode = 2
  MaxJobs = 2
  MaxEdits = 2
  MaxFaults = 1
SPECIFICATION Spec
CHECK_DEADLOCK FALSE
INVARIANTS
  NonRetroactive
  OneEpisodeAhead
  SucceededIsPublished
PROPERTIES
  FrontierNeverBack
  JobReconciled
