------------------------- MODULE LaunchBatchOrders -------------------------
(* How LaunchBatch implements LaunchOrders: the plan of a frequency is the *)
(* compiled graph of its child row.  A clone has two revisions of its own, *)
(* the launched one and the one in its frequency; a third is a user's.     *)
EXTENDS LaunchBatch

Orders == INSTANCE LaunchOrders WITH
  order    <- [b \in Batch |-> IF batch[b] = NULL THEN NULL ELSE batch[b].graph],
  plan     <- [c \in Child |-> IF child[c] = NULL THEN NULL ELSE child[c].graph],
  touched  <- {c \in Child : Rev(c) > 2},
  finished <- complete

\* Whatever threads repeat, race or leave half done, and whatever the user does
\* to the drafts meanwhile, every order is carried out as LaunchOrders says.
KeepsOrders == Orders!Spec

=============================================================================
