CONSTANTS
  Pkg = {"a", "b", "c"}
  Path = {1, 2, 3}
  Dir = {11, 12}
  Above <- MCAbove
  Archives <- MCArchives
  Index <- MCIndex
  MaxFaults = 2
  MaxKills = 1
SPECIFICATION Spec
INVARIANTS
  FailureUndone
  RecordsTrue
  DatabaseSound
PROPERTIES
  UserFilesKept
  RecordLast
