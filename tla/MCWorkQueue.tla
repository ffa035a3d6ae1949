---------------------------- MODULE MCWorkQueue ----------------------------
(* Small instances of WorkQueue for TLC.                                   *)
EXTENDS WorkQueueContract, TLC

CONSTANTS p, q, i1, i2, i3

\* A predictive cell p and a portfolio cell q that needs its result.
PairCells == <<p, q>>
PairSource == p :> p @@ q :> p

\* p has two rows, so that one of them may be a duplicate of published work.
PairCellOf == i1 :> p @@ i2 :> p @@ i3 :> q

\* p alone, with two rows.
OneCell == <<p>>
OneSource == p :> p
OneCellOf == i1 :> p @@ i2 :> p

\* Workers and users are not told apart.
Symmetry == Permutations(Worker) \cup Permutations(User)
=============================================================================
