SPECIFICATION Spec
CONSTANTS
  MaxPid = 2
  Limit = 3
  Codes = {"0"}
  Bodies = {"guest", "filter"}
  Uses = {"pipe2", "read", "wait", "host", "exec", "stdin", "vfs", "sleep", "ppoll", "pselect"}
  PipeCapacity = 1
  MaxOutput = 0
  MaxTime = 1
  None = None
INVARIANTS
  DeadlockIsReal
  AgainIsReported
  SleepersHaveDeadlines
CHECK_DEADLOCK FALSE
