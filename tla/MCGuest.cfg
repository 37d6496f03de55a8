SPECIFICATION Spec
CONSTANTS
  Env = {10}
  Value = {5}
  Child = {2, 3}
  Failed = failed
  Pending = pending
  None = none
  failed = failed
  pending = pending
  none = none
  MaxDepth = 2
  VforkDepth = 2
INVARIANTS TypeOK StackPointerKept
PROPERTY ImplementsCalls
CHECK_DEADLOCK FALSE
