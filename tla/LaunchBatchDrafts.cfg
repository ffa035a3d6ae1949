SPECIFICATION Spec
CONSTANTS
  r = r  copied = copied  b1 = b1  b2 = b2  x = x  y = y
  Root = {r}
  Copy = {copied}
  Batch = {b1}
  Asks <- BothOnce
  Request = {t1, t2}
  Study = {x, y}
  Empty = Empty
  NULL = NULL
  MaxWrites = 4
  MaxOrdinal = 2
  MaxFaults = 1
\* Users may stop, and every bound may be reached.
CHECK_DEADLOCK FALSE
INVARIANTS SuitesRunTheSource OneRoundPerBatch CompleteIsLaunched ResearchGoesOn
PROPERTIES KeepsOrders LockedUntilReset
