-------------------------- MODULE RoundGcContract --------------------------
(***************************************************************************)
(* RoundGc has rounds, suites and workers of its own, in the detail that a *)
(* collector can tell apart.  They keep the contract that the scheduler of *)
(* GraphDag keeps, so the collectors are checked among the suites that     *)
(* GraphDag runs.                                                          *)
(***************************************************************************)
EXTENDS RoundGc

\* The run of the suite of r, as its requester sees it.
StateOf(r) == IF run[r] \in {"none", "building"} THEN "absent" ELSE run[r]

Contract == INSTANCE GraphRunContract WITH
  Run <- Round,
  state <- [r \in Round |-> StateOf(r)],
  done <- {i \in Item : item[i] = "done"}

\* Suites are requested, served, failed and cancelled as GraphRunContract says,
\* whatever is reset, lost, promoted and collected around them.
SuitesKeepContract == Contract!Spec

=============================================================================
