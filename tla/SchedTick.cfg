SPECIFICATION Spec
CONSTANTS
  MaxPid = 2
  Priority = {1}
  NORMAL = 1
  Caught = {sigint}
  Fatal = {sigterm}
INVARIANTS
  IdleOnlyFromSyscall
CHECK_DEADLOCK FALSE
