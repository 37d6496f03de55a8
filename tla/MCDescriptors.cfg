SPECIFICATION Spec
CONSTANTS
  Tasks = {t1, t2}
  First = t1
  OpenFiles = 3
  DescKeys = {d1, d2, d3, d4}
  PipeKeys = {q1}
  MaxRefs = 8
  Flags = {TRUE}
  None = None
  MaxLost = 0
SYMMETRY KeySymmetry
CONSTRAINTS
  LostBound
  LostOnce
INVARIANTS
  TypeOK
  RefsCoverDescriptors
  PipesCountTheirEnds
  NoFalseEndOfFile
PROPERTIES
  OnlyRefusalsLeak
CHECK_DEADLOCK FALSE
