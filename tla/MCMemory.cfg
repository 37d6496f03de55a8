SPECIFICATION MemorySpec
CONSTANTS
  MaxPid = 4
  Limit = 3
  Codes = {"0", "1"}
  None = None
  MemoryLimit = 11
  ProcessLimit = 7
  Page = 2
  AsyncifyArea = 2
  Images = {0, 2}
  Lengths = {1, 7}
INVARIANTS
  TypeOK
  RecordsMatchTasks
  VforkParentIsParent
  ZombiesHaveParents
  MemoryIsAccounted
PROPERTIES
  StatusIsKept
  StatusIsFinal
CHECK_DEADLOCK FALSE
