----------------------------- MODULE MCGraphDag -----------------------------
(* Small instances of GraphDag for TLC: what each run consumes and what    *)
(* each item requires.                                                     *)
EXTENDS GraphDagContract, TLC

CONSTANTS a, b, c, p1, p2, s1, s2

\* Two processing runs over a chain a <- b <- c.
PipelineNeeds == p1 :> {a, b, c} @@ p2 :> {a, b}
PipelineRequires == a :> {} @@ b :> {a} @@ c :> {b}

\* A processing run and two suites that share its node and the typed work b;
\* c is independent of b.
SuiteNeeds == p1 :> {a} @@ s1 :> {a, b, c} @@ s2 :> {a, b}
SuiteRequires == a :> {} @@ b :> {a} @@ c :> {a}

\* Every suite worker runs under the default --worker-id.
DefaultKey == [w \in Worker |-> "v022-suite-worker"]

WorkerSymmetry == Permutations(Worker)
=============================================================================
