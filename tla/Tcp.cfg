SPECIFICATION LiveSpec
CONSTANTS
  M = 32
  Buf = 2
  MSS = 1
  SynRetries = 1
  DataRetries = 1
  MaxFaults = 1
  Plans <- TcpPlans
INVARIANTS
  StreamIntact
  TimerRuns
  BlocksSound
PROPERTIES
  WindowKept
  GoodOrderKept
  DataDrains
  ConnectionsEnd
CHECK_DEADLOCK FALSE
