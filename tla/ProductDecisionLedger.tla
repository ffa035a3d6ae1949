----------------------- MODULE ProductDecisionLedger -----------------------
(* ProductDecision keeps a DecisionLedger in the tables it publishes to.   *)
EXTENDS ProductDecision

Ledger == INSTANCE DecisionLedger WITH
  Answer <- Outcome, input <- snapshot, entry <- decision, report <- monitor

\* Overlapping workers with clocks of their own, operators and suspensions
\* together never write anything that an orderly book-keeper would not have.
KeepsLedger == Ledger!Spec

=============================================================================
