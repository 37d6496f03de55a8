SPECIFICATION FairSpec
CONSTANTS
  MaxPid = 2
  Limit = 3
  Codes = {"0"}
  Bodies = {"guest"}
  Uses = {"pipe2", "read", "write", "vfs", "exec", "wait", "sleep", "start_fails", "budget"}
  PipeCapacity = 2
  MaxOutput = 0
  MaxTime = 1
  None = None
INVARIANTS
  TypeOK
  NothingRunnableWhenIdle
PROPERTIES
  WaitIsAnswered
  SleepersWake
  ChildrenStart
  EndOfFileArrives
CHECK_DEADLOCK FALSE
