SPECIFICATION FairSuiteSpec
CONSTANTS
  a = a  b = b  c = c  d = d  e = e
  p1 = p1  p2 = p2  q1 = q1  s1 = s1  s2 = s2
  Run = {p1, q1, p2, s1, s2}
  Item = {a, b, d, e}
  Worker = {w1, w2}
  NoOwner = NoOwner
  NoSuite = NoSuite
  PipelineKey = PipelineKey
  SuiteKey <- DefaultKey
  Needs <- BothNeeds
  Requires <- BothRequires
  Source <- OwnSource
  Context <- OneContext
  Age <- Older
  Rank <- Order
  Fenced = {b}
  SuiteRun = {s1, s2}
  MaxFence = 2
  LeaseTicks = 1
  Resettable = {s1}
INVARIANTS
  SuiteTypeOK
PROPERTIES
  ImplementsGraphDag
  SuiteSettles
\* Every suite settles, or the workers stop at a bound.
CHECK_DEADLOCK FALSE
