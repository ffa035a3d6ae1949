SPECIFICATION FairSpec
CONSTANTS
  Product = {1, 2}
  N = 2
  Horizon = 2
  Worker = {w1, w2}
  Main = w1
  Anchor <- LateAnchors
  Governed = {1}
  Supervised = {2}
  Gappy <- GapOfTheFirst
  MaxTrouble = 2
INVARIANTS MonitoringIsExact DecisionHasEvidence MissingIsExplained ReportsFollow
PROPERTIES KeepsLedger LedgerIsFinal SessionsSettle
