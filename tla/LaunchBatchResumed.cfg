SPECIFICATION FairSpec
CONSTANTS
  r = r  copied = copied  b1 = b1  b2 = b2  x = x  y = y
  Root = {r}
  Copy = {}
  Batch = {b1, b2}
  Asks <- BothAndMonthly
  Request = {t1}
  Study = {x}
  Empty = Empty
  NULL = NULL
  MaxWrites = 4
  MaxOrdinal = 2
  MaxFaults = 1
\* Users may stop, and every bound may be reached.
CHECK_DEADLOCK FALSE
PROPERTIES LaunchResumes
