--------------------------- MODULE MCLaunchBatch ---------------------------
(* Small instances of LaunchBatch for TLC.                                 *)
EXTENDS LaunchBatchOrders

CONSTANTS r, copied, b1, b2, x, y

\* One batch for both frequencies.
BothOnce == [b \in Batch |-> Frequency]

\* A second one, which may also launch a clone of the first, asks for monthly.
BothAndMonthly == [b \in Batch |-> IF b = b1 THEN Frequency ELSE {"monthly"}]
=============================================================================
