SPECIFICATION Spec
CONSTANTS
  p = p  q = q  i1 = i1  i2 = i2  i3 = i3
  Cells <- OneCell
  Source <- OneSource
  CellOf <- OneCellOf
  Item = {i1, i2}
  Worker = {w1, w2}
  User = {u1, u2}
  MaxAttempts = 2
  LeaseTicks = 1
  NULL = NULL
INVARIANTS
  OneAnswer
  CancelledNeverPublishes
PROPERTIES
  ImplementsCellWork
  OnlyHolderEnds
  EndsStay
SYMMETRY Symmetry
\* The rows may all be used up and ended.
CHECK_DEADLOCK FALSE
