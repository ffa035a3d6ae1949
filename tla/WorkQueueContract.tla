------------------------- MODULE WorkQueueContract -------------------------
(* How WorkQueue implements CellWorkContract: rows that wait or are being  *)
(* worked on, by whomever and for the nth time, are open requests.         *)
EXTENDS WorkQueue

StateOf(i) ==
  IF row[i].status = "none" THEN "absent"
  ELSE IF row[i].status \in Active THEN "open" ELSE row[i].status

Contract == INSTANCE CellWorkContract WITH
  state <- [i \in Item |-> StateOf(i)],
  asked <- {i \in Item : row[i].cancel},
  answer <- result

\* Whatever workers lose, repeat and leave behind, every cell is served as
\* CellWorkContract says: one open request, one answer, none after a cancellation.
ImplementsCellWork == Contract!Spec

=============================================================================
