------------------------- MODULE MCProductDecision -------------------------
(* A small instance of ProductDecision for TLC: a deterministic product with *)
(* a gap in its data and a supervised one.                                   *)
EXTENDS ProductDecisionLedger

LateAnchors == [p \in Product |-> IF p = 1 THEN 0 ELSE 1]
GapOfTheFirst == {<<1, 2>>}
=============================================================================
