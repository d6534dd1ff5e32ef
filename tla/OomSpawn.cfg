SPECIFICATION Spec
CONSTANTS
  MaxPid = 3
  Priority = {1}
  Frames = 3
INVARIANT
  ActiveSpaceLives
CHECK_DEADLOCK FALSE
