SPECIFICATION MemorySpec
CONSTANTS
  MaxPid = 2
  Limit = 2
  Codes = {"0"}
  None = None
  MemoryLimit = 11
  ProcessLimit = 7
  Page = 2
  AsyncifyArea = 2
  Images = {2}
  Lengths = {1}
PROPERTY BlockedCallsConsumeNothing
CHECK_DEADLOCK FALSE
