SPECIFICATION Spec
CONSTANTS
  a = a  b = b  c = c
  p1 = p1  p2 = p2  s1 = s1  s2 = s2
  Run = {p1, s1, s2}
  Item = {a, b, c}
  Worker = {w1, w2}
  NoOwner = NoOwner
  PipelineKey = PipelineKey
  SuiteKey <- DefaultKey
  Needs <- SuiteNeeds
  Requires <- SuiteRequires
  Fenced = {b, c}
  SuiteRun = {s1, s2}
  MaxFence = 2
  LeaseTicks = 1
INVARIANTS
  CompletedRunIsDone
  OnePublication
PROPERTIES
  TerminalRunStays
  BadEndHasCause
  CancelSparesSeenWork
SYMMETRY WorkerSymmetry
\* Every run ends, or its claims are used up: the system stops.
CHECK_DEADLOCK FALSE
