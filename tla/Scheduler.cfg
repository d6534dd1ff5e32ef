SPECIFICATION Spec
CONSTANTS
  MaxPid = 3
  Priority = {1, 2}
  NORMAL = 1
  Caught = {sigint}
  Fatal = {sigterm}
INVARIANTS
  RunsResumed
  ListSound
PROPERTIES
  TopRuns
  KilledGoes
CHECK_DEADLOCK FALSE
