--------------------------- MODULE DecisionLedger ---------------------------
(***************************************************************************)
(* What the owner of a Product may rely on, without workers, clocks, runs  *)
(* and repetitions: a ledger with one entry per session, filled in the     *)
(* order of the sessions.  An entry follows the input it is made from, and *)
(* a report follows the entries it covers; neither is written twice.       *)
(***************************************************************************)
EXTENDS Integers

CONSTANTS
  Product,
  N,         \* sessions of a schedule
  Answer     \* what a decision can say

Session == 1..N

VARIABLES
  first,     \* first[p]: the first session of p, or 0
  input,     \* input[p][s]: the data that are bound to the session, or 0
  entry,     \* entry[p][s]: the decision, or "none"
  report     \* report[p][s]: the sessions reported as of s

ledger == <<first, input, entry, report>>

TypeOK ==
  /\ first \in [Product -> 0..N]
  /\ input \in [Product -> [Session -> 0..N]]
  /\ entry \in [Product -> [Session -> Answer \cup {"none"}]]
  /\ report \in [Product -> [Session -> SUBSET Session]]

Init ==
  /\ first = [p \in Product |-> 0]
  /\ input = [p \in Product |-> [s \in Session |-> 0]]
  /\ entry = [p \in Product |-> [s \in Session |-> "none"]]
  /\ report = [p \in Product |-> [s \in Session |-> {}]]

\* The sessions of p up to s, from its first one.
UpTo(p, s) == {r \in Session : first[p] # 0 /\ first[p] <= r /\ r <= s}

Enroll(p) ==
  /\ first[p] = 0
  /\ \E s \in Session : first' = [first EXCEPT ![p] = s]
  /\ UNCHANGED <<input, entry, report>>

\* Data through session n cover every session up to n.
Bind(p, s, n) ==
  /\ s \in UpTo(p, n) /\ input[p][s] = 0 /\ entry[p][s] = "none"
  /\ input' = [input EXCEPT ![p][s] = n]
  /\ UNCHANGED <<first, entry, report>>

Decide(p, s, answer) ==
  /\ s \in UpTo(p, s) /\ input[p][s] # 0
  /\ {r \in UpTo(p, s) : entry[p][r] = "none"} = {s}
  /\ entry' = [entry EXCEPT ![p][s] = answer]
  /\ UNCHANGED <<first, input, report>>

Report(p, s) ==
  /\ entry[p][s] # "none" /\ report[p][s] = {}
  /\ report' = [report EXCEPT ![p][s] = UpTo(p, s)]
  /\ UNCHANGED <<first, input, entry>>

Next ==
  \E p \in Product :
    \/ Enroll(p)
    \/ \E s \in Session :
         \/ \E n \in Session : Bind(p, s, n)
         \/ \E answer \in Answer : Decide(p, s, answer)
         \/ Report(p, s)

Spec == Init /\ [][Next]_ledger

=============================================================================
