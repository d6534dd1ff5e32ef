SPECIFICATION FairSpec
CONSTANTS
  Lba = {1, 2, 3}
  Value = {a, b}
  Entries = 2
  RunMax = 2
  Interval = 1
INVARIANTS
  EntriesSound
PROPERTIES
  EventuallyDurable
  CacheIsDisk
