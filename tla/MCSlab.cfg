SPECIFICATION Spec
CONSTANTS
  Value = {v1, v2}
  Cap = 4
  KeyMax = 6
  None = None
  Asked <- MCAsked
INVARIANTS
  FreeListIsEmptySlots
PROPERTIES
  ImplementsStore
