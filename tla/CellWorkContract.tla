-------------------------- MODULE CellWorkContract --------------------------
(***************************************************************************)
(* What the queue promises to those who submit the cells of a suite and    *)
(* may cancel them, without workers, leases, attempts or processes: a cell *)
(* has one open request at a time and one answer, which nobody takes back  *)
(* and nobody gives after a cancellation was asked for; what has ended     *)
(* stays so, except that a failed request may be opened again.             *)
(***************************************************************************)
CONSTANTS
  Cell,      \* what is asked for
  Item,      \* requests
  CellOf,    \* CellOf[i]: what request i asks for
  Source,    \* Source[c]: the cell that has to be answered before c, or c
  NULL

VARIABLES
  state,     \* what becomes of a request
  asked,     \* requests whose cancellation was asked for
  answer     \* the request that answered a cell

State == {"absent", "open", "completed", "failed", "cancelled"}
TypeOK ==
  state \in [Item -> State] /\ asked \in SUBSET Item /\ answer \in [Cell -> Item \cup {NULL}]

Init ==
  state = [i \in Item |-> "absent"] /\ asked = {} /\ answer = [c \in Cell |-> NULL]

\* A request is opened, or opened again, while its cell has no other open one.
Open(i) ==
  /\ state[i] \in {"absent", "failed"}
  /\ \A j \in Item : CellOf[j] = CellOf[i] => state[j] # "open"
  /\ state' = [state EXCEPT ![i] = "open"]
  /\ UNCHANGED <<asked, answer>>

\* A request that nobody serves yet is cancelled at once.
AskCancel(i) ==
  /\ state[i] = "open"
  /\ asked' = asked \cup {i}
  /\ state' \in {state, [state EXCEPT ![i] = "cancelled"]}
  /\ UNCHANGED answer

Answer(i) ==
  LET c == CellOf[i]
  IN  /\ state[i] = "open" /\ i \notin asked
      /\ answer[c] = NULL /\ (Source[c] # c => answer[Source[c]] # NULL)
      /\ state' = [state EXCEPT ![i] = "completed"]
      /\ answer' = [answer EXCEPT ![c] = i]
      /\ UNCHANGED asked

\* Open requests end without an answer, several at a time when their workers are
\* found to be dead; only those are cancelled whose cancellation was asked for.
GiveUp ==
  /\ state' \in [Item -> State]
  /\ \A i \in Item :
       \/ state'[i] = state[i]
       \/ state[i] = "open" /\ state'[i] = "failed"
       \/ state[i] = "open" /\ state'[i] = "cancelled" /\ i \in asked
  /\ UNCHANGED <<asked, answer>>

Next == GiveUp \/ \E i \in Item : Open(i) \/ AskCancel(i) \/ Answer(i)

Spec == Init /\ [][Next]_<<state, asked, answer>>

=============================================================================
