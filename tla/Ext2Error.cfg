SPECIFICATION ErrorSpec
CONSTANTS
  MaxIno = 5
  MaxBlk = 8
  BS = 2
  Ptrs = 2
  NDir = 1
  Levels = 2
  DCACHE_CAPACITY = 1
  LongName = {"b"}
  Name = {"a", "b"}
  PerBlock = 3
  EXT2_LINK_MAX = 4
  Disks <- MCDisks
  Path <- MCPath
  Probe <- MCProbe
  Pair <- MCPair
  Size <- MCSize
INVARIANT EntriesLead
CHECK_DEADLOCK FALSE
