SPECIFICATION FairSpec
CONSTANTS
  MaxPid = 2
  Limit = 2
  Codes = {"0", "SIGTERM"}
  None = None
  Signals = {9, 17}
  Waits <- SomeWaits
  Groups = {2}
  Masks <- SomeMasks
  Dispositions = {"DFL", "run"}
  Bodies = {"guest", "host"}
  MaxFrames = 2
  Uses = {"sigaction", "sigprocmask", "suspend", "kill", "exec", "start_fails"}
INVARIANTS
  TypeOK
  MaskIsTheProgramsOwn
  NoSignalIsMissed
PROPERTIES
  InterruptedCallsFetch
  SignalsEndWaits
  KilledGuestsDie
CHECK_DEADLOCK FALSE
