-------------------------- MODULE GraphDagContract --------------------------
(* The scheduler of GraphDag implements GraphRunContract.                  *)
EXTENDS GraphDag

\* What a requester sees of a run: queued and running work look the same.
StateOf(r) == IF runStatus[r] \in RunActive THEN "active" ELSE runStatus[r]

Contract == INSTANCE GraphRunContract WITH
  state <- [r \in Run |-> StateOf(r)],
  done <- {i \in Item : itemStatus[i] \in Done}

\* Leases, crashes, retries and concurrent finishes are invisible: every step
\* of the scheduler is a step of the contract or changes nothing in it.
ImplementsContract == Contract!Spec

=============================================================================
