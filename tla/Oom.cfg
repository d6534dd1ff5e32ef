SPECIFICATION Spec
CONSTANTS
  MaxPid = 4
  Priority = {1, 2}
  Frames = 4
INVARIANTS
  FramesConserved
  VictimOrder
  FailsOnlyForLack
CHECK_DEADLOCK FALSE
