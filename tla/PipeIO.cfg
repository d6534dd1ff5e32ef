SPECIFICATION MCSpec
CONSTANTS
  Proc = {p1, p2, p3}
  Pipe = {x1}
  Fd = {3, 4}
  NoFd = NoFd
  NoQueue = NoQueue
  FREE = FREE
  NoPoll = NoPoll
  Cap = 2
  MaxLen = 2
  Queue <- MCQueue
  Entry <- MCEntry
  PollEvents <- ReadWrite
INVARIANTS
  RefsCounted
  QueuesSound
PROPERTIES
  BlockedServed
  PollServed
CHECK_DEADLOCK FALSE
