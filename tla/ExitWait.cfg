SPECIFICATION FairSpec
CONSTANTS
  MaxPid = 4
  Status = {ok, failed}
  NoStatus = NoStatus
INVARIANTS
  RecordsConserved
  StatusKept
  WaitIsSound
PROPERTIES
  WaitEnds
  ExitCompletesWait
CHECK_DEADLOCK FALSE
