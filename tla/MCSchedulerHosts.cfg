SPECIFICATION Spec
CONSTANTS
  MaxPid = 3
  Limit = 3
  Codes = {"0"}
  Bodies = {"guest", "filter", "source"}
  Uses = {"pipe2", "read", "wait", "host", "exec_fails", "start_fails", "wall_clock"}
  PipeCapacity = 1
  MaxOutput = 2
  MaxTime = 0
  None = None
PROPERTIES
  ImplementsProcesses
CHECK_DEADLOCK FALSE
