-------------------------- MODULE GraphRunContract --------------------------
(***************************************************************************)
(* What the Graph Run scheduler promises to the suites and pipelines that  *)
(* request runs, without leases, workers, fences or queues: results appear *)
(* bottom up and stay, a run completes only on top of all its results, and *)
(* what cannot be delivered fails every active run that needs it at once.  *)
(***************************************************************************)
EXTENDS Integers

CONSTANTS
  Run,       \* research runs
  Item,      \* results they need
  Needs,     \* Needs[r]: the results of run r
  Requires   \* Requires[i]: the results i is computed from

VARIABLES
  state,     \* what a run's requester sees
  done       \* the results that exist

State == {"absent", "active", "completed", "failed", "cancelled"}
TypeOK == state \in [Run -> State] /\ done \in SUBSET Item

Active == {r \in Run : state[r] = "active"}

Init == state = [r \in Run |-> "absent"] /\ done = {}

\* A request is served from existing results, or starts.
Request(r) ==
  /\ state[r] = "absent"
  /\ state' = [state EXCEPT ![r] = IF Needs[r] \subseteq done THEN "completed" ELSE "active"]
  /\ UNCHANGED done

\* One result appears; active runs that have all theirs may complete with it,
\* and those whose other work was cancelled may end there.
Deliver(i) ==
  /\ i \notin done /\ Requires[i] \subseteq done
  /\ done' = done \cup {i}
  /\ state' \in [Run -> State]
  /\ \A r \in Run :
       \/ state'[r] = state[r]
       \/ /\ r \in Active /\ i \in Needs[r]
          /\ state'[r] = IF Needs[r] \subseteq done' THEN "completed" ELSE "cancelled"

\* One result cannot be computed: every active run that needs it ends, failed
\* (or cancelled, when other work of it was cancelled before).
Fail(i) ==
  /\ i \notin done
  /\ state' \in [Run -> State]
  /\ \A r \in Run : IF r \in Active /\ i \in Needs[r]
                     THEN state'[r] \in {"failed", "cancelled"}
                     ELSE state'[r] = state[r]
  /\ UNCHANGED done

Cancel(r) ==
  /\ state[r] = "active"
  /\ state' = [state EXCEPT ![r] = "cancelled"]
  /\ UNCHANGED done

Next ==
  \/ \E r \in Run : Request(r) \/ Cancel(r)
  \/ \E i \in Item : Deliver(i) \/ Fail(i)

Spec == Init /\ [][Next]_<<state, done>>

=============================================================================
