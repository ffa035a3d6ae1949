SPECIFICATION FairSpec
CONSTANTS
  r1 = r1  r2 = r2  x = x  y = y  z = z  o1 = o1  o2 = o2
  Round = {r1, r2}
  Item = {x, y, z}
  Object = {o1, o2}
  Worker = {w1}
  Collector = {daemon, operator}
  Daemon = daemon
  Needs <- ChainNeeds
  Requires <- ChainRequires
  Cites <- ChainRequires
  ObjectOf <- ChainObject
  Evidence = {y}
  NULL = NULL
  MaxCrashes = 1
\* Everything may be collected and nothing left to do.
CHECK_DEADLOCK FALSE
INVARIANTS NothingLeftBehind
PROPERTIES SuitesKeepContract EnrolledObjectsSurvive CompletionStays RoundsAreCollected
