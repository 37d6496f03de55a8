SPECIFICATION Spec
CONSTANTS
  MaxPid = 2
  Limit = 3
  Codes = {"0"}
  Bodies = {"guest", "source"}
  Uses = {"pipe2", "read"}
  PipeCapacity = 1
  MaxOutput = 2
  MaxTime = 0
  None = None
INVARIANTS
  DeadlockMeansBlocked
CHECK_DEADLOCK FALSE
