SPECIFICATION SuiteSpec
CONSTANTS
  a = a  b = b  c = c  d = d  e = e
  p1 = p1  p2 = p2  q1 = q1  s1 = s1  s2 = s2
  Run = {p1, s1, s2}
  Item = {a, b, c}
  Worker = {w1, w2}
  NoOwner = NoOwner
  NoSuite = NoSuite
  PipelineKey = PipelineKey
  SuiteKey <- DefaultKey
  Needs <- SharedNeeds
  Requires <- SharedRequires
  Source <- OneSource
  Context <- OneContext
  Age <- Older
  Rank <- Order
  Fenced = {b, c}
  SuiteRun = {s1, s2}
  MaxFence = 2
  LeaseTicks = 1
  Resettable = {s1, s2}
INVARIANTS
  CompletionReachesRun
\* Every suite settles, or the workers stop at a bound.
CHECK_DEADLOCK FALSE
