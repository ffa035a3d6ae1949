SPECIFICATION Spec
CONSTANTS
  a = a  b = b  c = c
  p1 = p1  p2 = p2  s1 = s1  s2 = s2
  Run = {p1, p2}
  Item = {a, b, c}
  Worker = {w1, w2}
  NoOwner = NoOwner
  PipelineKey = PipelineKey
  SuiteKey <- DefaultKey
  Needs <- PipelineNeeds
  Requires <- PipelineRequires
  Fenced = {}
  SuiteRun = {}
  MaxFence = 2
  LeaseTicks = 2
INVARIANTS
  UpstreamsDone
  NoQueuedBehindFailure
  ActiveRunIsViable
  ActiveRunGoesOn
PROPERTIES
  ImplementsContract
  OnlyLatestClaimEnds
SYMMETRY WorkerSymmetry
\* Every run ends, or its claims are used up: the system stops.
CHECK_DEADLOCK FALSE
