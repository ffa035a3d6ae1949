----------------------------- MODULE MCRoundGc -----------------------------
(* Small instances of RoundGc for TLC.                                     *)
EXTENDS RoundGcContract

CONSTANTS r1, r2, x, y, z, o1, o2

\* The suites of two rounds share the item x and cite it.  Evidence is published
\* of y; z is of a kind that nothing cites, and has the content of y.
ChainNeeds == [r \in Round |-> IF r = r1 THEN {x, y} ELSE {x, z}]
ChainRequires == [i \in Item |-> IF i = x THEN {} ELSE {x}]
ChainObject == [i \in Item |-> IF i = x THEN o1 ELSE o2]
=============================================================================
