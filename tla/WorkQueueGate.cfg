SPECIFICATION FairSpec
CONSTANTS
  p = p  q = q  i1 = i1  i2 = i2  i3 = i3
  Cells <- PairCells
  Source <- PairSource
  CellOf <- PairCellOf
  Item = {i1, i2, i3}
  Worker = {w1}
  User = {u1}
  MaxAttempts = 2
  LeaseTicks = 1
  NULL = NULL
INVARIANTS
  PortfolioAfterSource
PROPERTIES
  QueueSettles
\* The rows may all be used up and ended.
CHECK_DEADLOCK FALSE
