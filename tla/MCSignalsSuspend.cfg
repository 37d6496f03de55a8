SPECIFICATION Spec
CONSTANTS
  MaxPid = 2
  Limit = 2
  Codes = {"0", "SIGTERM"}
  None = None
  Signals = {9, 17}
  Waits <- SomeWaits
  Groups = {2}
  Masks <- SomeMasks
  Dispositions = {"DFL", "run"}
  Bodies = {"guest"}
  MaxFrames = 2
  Uses = {"sigaction", "sigprocmask", "suspend", "kill", "exec", "start_fails"}
PROPERTIES
  HandlerGetsToRun
CHECK_DEADLOCK FALSE
