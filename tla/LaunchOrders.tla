---------------------------- MODULE LaunchOrders ----------------------------
(***************************************************************************)
(* What a user may rely on who orders suites for several frequencies with  *)
(* one command, without drafts, revisions, derived keys, threads and       *)
(* repetitions: the order is fixed when it is placed; every frequency gets *)
(* one plan of the ordered study, and no suite is begun before all have    *)
(* one; a suite is begun once, as planned, and the order is finished only  *)
(* with all its suites.                                                    *)
(***************************************************************************)
CONSTANTS
  Batch,       \* orders
  Frequency,
  Asks,        \* Asks[b]: the frequencies ordered
  Graph,       \* what a suite can run: a frequency and a study
  NULL

Child == Batch \X Frequency

VARIABLES
  order,       \* what was launched, in the frequency of its draft
  plan,        \* what is to run in a frequency
  touched,     \* children whose plan somebody else may have a hand in
  suite,       \* what runs
  finished     \* orders that were answered as complete

TypeOK ==
  /\ order \in [Batch -> Graph \cup {NULL}] /\ plan \in [Child -> Graph \cup {NULL}]
  /\ touched \in SUBSET Child /\ suite \in [Child -> Graph \cup {NULL}]
  /\ finished \in SUBSET Batch

Init ==
  /\ order = [b \in Batch |-> NULL] /\ plan = [c \in Child |-> NULL]
  /\ touched = {} /\ suite = [c \in Child |-> NULL] /\ finished = {}

\* The frequency of what is launched needs no other plan.
Place(b, g) ==
  /\ order[b] = NULL
  /\ order' = [order EXCEPT ![b] = g]
  /\ plan' = [c \in Child |->
                IF c[1] = b /\ c[2] \in Asks[b] /\ c[2] = g.freq THEN g ELSE plan[c]]
  /\ UNCHANGED <<touched, suite, finished>>

\* The same study in the frequency that was asked for.
Plan(c, g) ==
  /\ order[c[1]] # NULL /\ plan[c] = NULL
  /\ c[2] \in Asks[c[1]] /\ g.freq = c[2]
  /\ g.study = order[c[1]].study \/ c \in touched
  /\ plan' = [plan EXCEPT ![c] = g]
  /\ UNCHANGED <<order, touched, suite, finished>>

\* A user works on the draft that was cloned for c.
Touch(c) ==
  /\ order[c[1]] # NULL
  /\ touched' = touched \cup {c}
  /\ UNCHANGED <<order, plan, suite, finished>>

Begin(c) ==
  /\ \A f \in Asks[c[1]] : plan[<<c[1], f>>] # NULL
  /\ c[2] \in Asks[c[1]] /\ suite[c] = NULL
  /\ suite' = [suite EXCEPT ![c] = plan[c]]
  /\ UNCHANGED <<order, plan, touched, finished>>

Finish(b) ==
  /\ \A f \in Asks[b] : suite[<<b, f>>] # NULL
  /\ finished' = finished \cup {b}
  /\ UNCHANGED <<order, plan, touched, suite>>

Next ==
  \/ \E b \in Batch, g \in Graph : Place(b, g)
  \/ \E c \in Child : Touch(c) \/ Begin(c) \/ \E g \in Graph : Plan(c, g)
  \/ \E b \in Batch : Finish(b)

Spec == Init /\ [][Next]_<<order, plan, touched, suite, finished>>

=============================================================================
