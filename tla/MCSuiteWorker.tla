--------------------------- MODULE MCSuiteWorker ---------------------------
(* Small instances of SuiteWorker for TLC.                                 *)
EXTENDS SuiteWorker, TLC

CONSTANTS a, b, c, d, e, p1, p2, q1, s1, s2

\* Every suite worker runs under the default --worker-id.
DefaultKey == [w \in Worker |-> "v022-suite-worker"]

\* Two suites of one processing run that share the typed work b; the first of
\* them has another typed item.
OneSource == s1 :> <<p1>> @@ s2 :> <<p1>>
SharedNeeds == p1 :> {a} @@ s1 :> {a, b, c} @@ s2 :> {a, b}
SharedRequires == a :> {} @@ b :> {a} @@ c :> {a}

\* Two graphs that share a Stage 1 node and the typed work above it; the first
\* has another Stage 1 node and a Stage 2 its suite reads too.
BothNeeds == p1 :> {a, d} @@ q1 :> {e} @@ p2 :> {a} @@ s1 :> {a, e, b} @@ s2 :> {a, b}
BothRequires == a :> {} @@ d :> {} @@ e :> {} @@ b :> {a}
OwnSource == s1 :> <<p1, q1>> @@ s2 :> <<p2>>

\* One dataset and calendar: one set of raw payloads.
OneContext == s1 :> "raw" @@ s2 :> "raw"

Older == s1 :> 1 @@ s2 :> 2
Order == [i \in Item |-> (a :> 1 @@ d :> 2 @@ e :> 3 @@ b :> 4 @@ c :> 5)[i]]
=============================================================================
