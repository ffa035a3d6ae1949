-------------------------- MODULE WorkQueueProofs --------------------------
(***************************************************************************)
(* What holds of WorkQueue for all suites, rows, workers, users and        *)
(* bounds.  Every invariant of QueueInv is inductive over the types; only  *)
(* PortfolioAfterSource needs help: an item of a portfolio cell runs only  *)
(* when its predictive cell has a result (RunningIsReady), which stays.    *)
(***************************************************************************)
EXTENDS WorkQueueContract, TLAPS

\* An item that runs was claimed when its predictive cell had a result.
RunningIsReady ==
  \A i \in Item : row[i].status = "running" =>
    Source[CellOf[i]] = CellOf[i] \/ result[Source[CellOf[i]]] # NULL

QueueInv ==
  /\ QueueTypeOK
  /\ OneActiveRow
  /\ OneAnswer
  /\ CancelledNeverPublishes
  /\ RunningIsReady
  /\ PortfolioAfterSource

-----------------------------------------------------------------------------
(* Lemmas on the records *)

LEMMA StartStates ==
  NoRow \in RowState /\ Free \in HandState /\ NoForm \in FormState
BY QueueAssumption
   DEF NoRow, Free, NoForm, Row, Hand, Form, RowState, HandState, FormState, Active, Ended

\* A row that ends is well-formed when its failure names a class.
LEMMA ClosedTyped ==
  ASSUME NEW r \in RowState, NEW status \in Ended, NEW failure \in {NULL, Retryable, Final},
         failure # NULL <=> status = "failed"
  PROVE  /\ Closed(r, status, failure) \in RowState
         /\ Closed(r, status, failure).status = status
         /\ Closed(r, status, failure).cancel = r.cancel
         /\ Closed(r, status, failure).attempts = r.attempts
BY QueueAssumption DEF Closed, Row, RowState, Active, Ended

LEMMA CancelledTyped ==
  ASSUME NEW i \in Item, row[i] \in RowState
  PROVE  /\ Cancelled(i) \in RowState
         /\ \/ Cancelled(i) = row[i]
            \/ row[i].status = "queued" /\ Cancelled(i).status = "cancelled"
            \/ /\ row[i].status = "running" /\ Cancelled(i).status = "running"
               /\ Cancelled(i).owner = row[i].owner
BY QueueAssumption DEF Cancelled, Row, RowState, Active, Ended

LEMMA ExpiryTyped ==
  ASSUME NEW i \in Item, row[i] \in RowState
  PROVE  /\ AfterExpiry(i) \in RowState
         /\ \/ AfterExpiry(i) = row[i]
            \/ Expired(i) /\ AfterExpiry(i).status \in {"cancelled", "failed"}
BY QueueAssumption
   DEF AfterExpiry, Expired, Closed, Row, RowState, Active, Ended, Retryable

\* The item a claim takes.
LEMMA ClaimTyped ==
  ASSUME NEW i \in Item, NEW w \in Worker, row[i] \in RowState, Claimable(i)
  PROVE  Claimed(i, w) \in RowState /\ Claimed(i, w).status = "running"
BY QueueAssumption DEF Claimed, Row, RowState, Claimable, Expired, Active, Ended

\* A worker that is not idle holds an item.
LEMMA Held ==
  ASSUME QueueTypeOK, NEW w \in Worker, hand[w].phase # "idle"
  PROVE  hand[w].item \in Item /\ CellOf[hand[w].item] \in Cell
BY QueueAssumption DEF QueueTypeOK, HandState

\* A submission that is under way is at one of the cells.
LEMMA AtCell ==
  ASSUME QueueTypeOK, NEW u \in User, form[u].at # 0
  PROVE  Asked(u) \in Cell /\ form[u].at \in 1..Len(Cells)
BY QueueAssumption DEF QueueTypeOK, FormState, Asked, Cell

-----------------------------------------------------------------------------
(* Types *)

\* What a worker goes on with after each of its steps.
LEMMA HandsTyped ==
  ASSUME QueueTypeOK, NEW w \in Worker, hand[w].phase # "idle"
  PROVE  /\ \A lost \in BOOLEAN : \A phase \in {"bind", "work", "check", "publish", "cancel"} :
              Hand(phase, hand[w].item, lost, NULL) \in HandState
         /\ \A class \in {Retryable, Final} : \A phase \in {"fail", "retry"} :
              Hand(phase, hand[w].item, FALSE, class) \in HandState
         /\ hand[w].lost \in BOOLEAN
BY QueueAssumption, Held DEF QueueTypeOK, Hand, HandState

LEMMA SubmissionTyped ==
  ASSUME QueueTypeOK, NEW u \in User,
         Submit(u) \/ Ask(u) \/ Insert(u) \/ Resolve(u) \/ Link(u) \/ Abandon(u)
  PROVE  QueueTypeOK'
<1> USE DEF QueueTypeOK
<1>1. CASE Submit(u)
  BY <1>1, QueueAssumption DEF Submit, Form, FormState
<1>2. CASE Ask(u)
  <2>1. /\ Form(form[u].at, "insert", NULL) \in FormState
        /\ \A i \in Item : Form(form[u].at, "link", i) \in FormState
    BY <1>2, AtCell, QueueAssumption DEF Ask, Form, FormState
  <2>2. form' \in [User -> FormState]
    BY <1>2, <2>1 DEF Ask, RowsOf
  <2> QED BY <1>2, <2>2 DEF Ask
<1>3. CASE Insert(u)
  <2>1. Row("queued", NULL, 0, 0, FALSE, NULL) \in RowState
    BY QueueAssumption DEF Row, RowState, Active, Ended
  <2>2. /\ Form(form[u].at, "resolve", NULL) \in FormState
        /\ \A i \in Item : Form(form[u].at, "link", i) \in FormState
    BY <1>3, AtCell, QueueAssumption DEF Insert, Form, FormState
  <2>3. form' \in [User -> FormState]
    BY <1>3, <2>2 DEF Insert, RowsOf
  <2>4. row' \in [Item -> RowState]
    BY <1>3, <2>1 DEF Insert, RowsOf
  <2> QED BY <1>3, <2>3, <2>4 DEF Insert
<1>4. CASE Resolve(u)
  <2>1. \A i \in Item : Form(form[u].at, "link", i) \in FormState
    BY <1>4, AtCell, QueueAssumption DEF Resolve, Form, FormState
  <2>2. form' \in [User -> FormState]
    BY <1>4, <2>1, StartStates DEF Resolve, RowsOf
  <2> QED BY <1>4, <2>2 DEF Resolve
<1>5. CASE Link(u)
  <2>1. form[u].item \in Item /\ form[u].at \in 1..Len(Cells) /\ Asked(u) \in Cell
    BY <1>5, AtCell DEF Link, FormState
  <2>2. form' \in [User -> FormState]
    BY <1>5, <2>1, QueueAssumption, StartStates DEF Link, Form, FormState
  <2> QED BY <1>5, <2>1, <2>2 DEF Link
<1>6. CASE Abandon(u)
  BY <1>6, StartStates DEF Abandon
<1> QED BY <1>1, <1>2, <1>3, <1>4, <1>5, <1>6

LEMMA WorkerTyped ==
  ASSUME QueueTypeOK, NEW w \in Worker, WorkerStep(w)
  PROVE  QueueTypeOK'
<1> USE DEF QueueTypeOK
<1>1. CASE Poll(w)
  <2>1. CASE \E i \in Item : Claimable(i) /\ row' = [j \in Item |-> IF j = i THEN Claimed(i, w) ELSE AfterExpiry(j)]
                               /\ hand' = [hand EXCEPT ![w] = Hand("bind", i, FALSE, NULL)]
    <3>1. PICK i \in Item : /\ Claimable(i)
                            /\ row' = [j \in Item |-> IF j = i THEN Claimed(i, w) ELSE AfterExpiry(j)]
                            /\ hand' = [hand EXCEPT ![w] = Hand("bind", i, FALSE, NULL)]
      BY <2>1
    <3>2. Claimed(i, w) \in RowState /\ \A j \in Item : AfterExpiry(j) \in RowState
      BY <3>1, ClaimTyped, ExpiryTyped
    <3>3. Hand("bind", i, FALSE, NULL) \in HandState
      BY QueueAssumption DEF Hand, HandState
    <3> QED BY <1>1, <3>1, <3>2, <3>3 DEF Poll
  <2>2. CASE row' = [i \in Item |-> AfterExpiry(i)] /\ UNCHANGED hand
    BY <1>1, <2>2, ExpiryTyped DEF Poll
  <2> QED BY <1>1, <2>1, <2>2 DEF Poll
<1>2. CASE Bind(w)
  BY <1>2, HandsTyped DEF Bind, Go, Fail
<1>3. CASE HandlerReturns(w)
  BY <1>3, HandsTyped DEF HandlerReturns, Go, Fail
<1>4. CASE Raises(w)
  BY <1>4, HandsTyped DEF Raises, Fail
<1>5. CASE CheckCancellation(w)
  BY <1>5, HandsTyped DEF CheckCancellation, Go
<1>6. CASE Publish(w)
  <2>1. hand[w].item \in Item /\ CellOf[hand[w].item] \in Cell
    BY <1>6, Held DEF Publish
  <2>2. Closed(row[hand[w].item], "completed", NULL) \in RowState
    BY <2>1, ClosedTyped, QueueAssumption DEF Ended
  <2>3. hand' \in [Worker -> HandState]
    BY <1>6, HandsTyped, StartStates DEF Publish, WriteResult, Go, Fail, Leave
  <2> QED BY <1>6, <2>1, <2>2, <2>3 DEF Publish, WriteResult
<1>7. CASE FinishCancelled(w)
  <2>1. hand[w].item \in Item
    BY <1>7, Held DEF FinishCancelled
  <2>2. Closed(row[hand[w].item], "cancelled", NULL) \in RowState
    BY <2>1, ClosedTyped, QueueAssumption DEF Ended
  <2> QED BY <1>7, <2>1, <2>2, StartStates DEF FinishCancelled, Close, Leave
<1>8. CASE FinishFailed(w)
  <2>1. hand[w].item \in Item /\ hand[w].failure \in {Retryable, Final}
    BY <1>8, Held DEF FinishFailed, HandState
  <2>2. Closed(row[hand[w].item], "failed", hand[w].failure) \in RowState
    BY <2>1, ClosedTyped, QueueAssumption DEF Ended
  <2>3. hand' \in [Worker -> HandState]
    <3>1. Hand("retry", hand[w].item, FALSE, hand[w].failure) \in HandState
      BY <1>8, <2>1, HandsTyped DEF FinishFailed
    <3> QED BY <1>8, <3>1, StartStates DEF FinishFailed, Close, Leave
  <2>4. row' \in [Item -> RowState]
    BY <1>8, <2>1, <2>2 DEF FinishFailed, Close
  <2> QED BY <1>8, <2>3, <2>4 DEF FinishFailed
<1>9. CASE Retry(w)
  <2>1. hand[w].item \in Item
    BY <1>9, Held DEF Retry
  <2>2. Row("queued", NULL, 0, row[hand[w].item].attempts, row[hand[w].item].cancel, NULL) \in RowState
    BY <2>1, QueueAssumption DEF Row, RowState, Active, Ended
  <2> QED BY <1>9, <2>1, <2>2, StartStates DEF Retry, Leave
<1> QED BY <1>1, <1>2, <1>3, <1>4, <1>5, <1>6, <1>7, <1>8, <1>9 DEF WorkerStep

LEMMA TypeStep == QueueTypeOK /\ [Next]_vars => QueueTypeOK'
<1> SUFFICES ASSUME QueueTypeOK, [Next]_vars PROVE QueueTypeOK'
  OBVIOUS
<1>1. ASSUME NEW c \in Cell, Cancel(c) PROVE QueueTypeOK'
  BY <1>1, CancelledTyped DEF Cancel, QueueTypeOK
<1>2. ASSUME NEW w \in Worker, Heartbeat(w) PROVE QueueTypeOK'
  <2>1. hand[w].item \in Item
    BY <1>2, Held DEF Heartbeat
  <2>2. Owns(w) => WithLease(row[hand[w].item], LeaseTicks) \in RowState
    BY <2>1, QueueAssumption DEF QueueTypeOK, Owns, WithLease, Row, RowState
  <2>3. hand[w].phase \in {"bind", "work"} => Hand(hand[w].phase, hand[w].item, TRUE, NULL) \in HandState
    BY <1>2, HandsTyped DEF Heartbeat
  <2> QED BY <1>2, <2>1, <2>2, <2>3 DEF Heartbeat, QueueTypeOK
<1>3. ASSUME NEW w \in Worker, Crash(w) PROVE QueueTypeOK'
  BY <1>3, StartStates DEF Crash, Leave, QueueTypeOK
<1>4. ASSUME NEW i \in Item, Tick(i) PROVE QueueTypeOK'
  <2>1. WithLease(row[i], row[i].lease - 1) \in RowState
    BY <1>4, QueueAssumption DEF Tick, QueueTypeOK, WithLease, Row, RowState
  <2> QED BY <1>4, <2>1 DEF Tick, QueueTypeOK
<1>5. CASE UNCHANGED vars
  BY <1>5 DEF vars, QueueTypeOK
<1> QED BY <1>1, <1>2, <1>3, <1>4, <1>5, SubmissionTyped, WorkerTyped DEF Next

-----------------------------------------------------------------------------
(* What a step does to the rows: every step is of one of three kinds, and each *)
(* invariant follows from the kinds.                                           *)

HolderActs(i) ==
  \E w \in Worker : row[i].owner = w /\ hand[w].item = i /\ hand'[w] # hand[w]

OthersStay(i) == \A j \in Item \ {i} : row'[j] = row[j]

\* Row i comes into the queue, new or to be retried.
Appears(i) ==
  /\ row[i].status = "none" \/ RetryAllowed(i)
  /\ RowsOf(CellOf[i], Active) = {}
  /\ row'[i].status = "queued"
  /\ OthersStay(i) /\ result' = result

\* The worker of item i publishes its cell's result.
Publishes(i) ==
  /\ row[i].status = "running" /\ ~row[i].cancel /\ result[CellOf[i]] = NULL
  /\ row'[i].status = "completed" /\ ~row'[i].cancel
  /\ result' = [result EXCEPT ![CellOf[i]] = i]
  /\ HolderActs(i) /\ OthersStay(i)

\* Active work is claimed, renewed, or ends without a result.
Moves(i) ==
  \/ row'[i] = row[i]
  \/ /\ row[i].status = "running" /\ row'[i].status = "running"
  \/ /\ SourceReady(i) /\ row[i].status = "queued" /\ row'[i].status = "running"
  \/ /\ row[i].status \in Active /\ row'[i].status \in {"cancelled", "failed"}
     /\ row[i].status = "running" /\ row[i].lease > 0 => HolderActs(i)

Quiet == result' = result /\ \A i \in Item : Moves(i)

LEMMA PollKind ==
  ASSUME QueueTypeOK, NEW w \in Worker, Poll(w)
  PROVE  Quiet
<1>1. ASSUME NEW i \in Item, row'[i] = AfterExpiry(i)
      PROVE  Moves(i)
  BY <1>1, ExpiryTyped, QueueAssumption DEF Moves, QueueTypeOK, Expired, Active, RowState
<1>2. ASSUME NEW i \in Item, Claimable(i), row'[i] = Claimed(i, w)
      PROVE  Moves(i)
  BY <1>2, ClaimTyped DEF Moves, QueueTypeOK, Claimable, Expired
<1> QED BY <1>1, <1>2 DEF Poll, Quiet

LEMMA CloseKind ==
  ASSUME QueueTypeOK, NEW w \in Worker, hand[w].phase # "idle",
         NEW status \in {"cancelled", "failed"}, NEW failure \in {NULL, Retryable, Final},
         failure # NULL <=> status = "failed",
         NEW next, next # hand[w], Close(w, status, failure, next), UNCHANGED result
  PROVE  Quiet
<1>1. hand[w].item \in Item /\ row[hand[w].item] \in RowState
  BY Held DEF QueueTypeOK
<1>2. Closed(row[hand[w].item], status, failure).status = status
  BY <1>1, ClosedTyped DEF Ended
<1>3. CASE Owns(w) /\ row' = [row EXCEPT ![hand[w].item] = Closed(row[hand[w].item], status, failure)]
                   /\ hand' = [hand EXCEPT ![w] = next]
  <2>1. HolderActs(hand[w].item)
    BY <1>3 DEF HolderActs, Owns, QueueTypeOK
  <2> QED BY <1>1, <1>2, <1>3, <2>1 DEF Quiet, Moves, Owns, Active, QueueTypeOK
<1>4. CASE UNCHANGED row
  BY <1>4 DEF Quiet, Moves
<1> QED BY <1>3, <1>4 DEF Close

LEMMA PublishKind ==
  ASSUME QueueTypeOK, NEW w \in Worker, Publish(w)
  PROVE  Quiet \/ \E i \in Item : Publishes(i)
<1> DEFINE i == hand[w].item
<1>1. i \in Item /\ CellOf[i] \in Cell /\ row[i] \in RowState
  BY Held DEF Publish, QueueTypeOK
<1>2. /\ Closed(row[i], "completed", NULL).status = "completed"
      /\ Closed(row[i], "completed", NULL).cancel = row[i].cancel
  BY <1>1, ClosedTyped, QueueAssumption DEF Ended
<1>3. CASE UNCHANGED <<row, result>>
  BY <1>3 DEF Quiet, Moves
<1>4. CASE /\ Owns(w) /\ ~row[i].cancel /\ result[CellOf[i]] = NULL
           /\ row' = [row EXCEPT ![i] = Closed(row[i], "completed", NULL)]
           /\ result' = [result EXCEPT ![CellOf[i]] = i]
           /\ Leave(w)
  <2>1. HolderActs(i)
    BY <1>4 DEF HolderActs, Owns, Leave, Publish, Free, Hand, QueueTypeOK
  <2> QED BY <1>1, <1>2, <1>4, <2>1 DEF Publishes, Owns, OthersStay, QueueTypeOK
<1> QED BY <1>3, <1>4 DEF Publish, WriteResult

LEMMA StepKinds ==
  ASSUME QueueTypeOK, [Next]_vars
  PROVE  Quiet \/ \E i \in Item : Appears(i) \/ Publishes(i)
<1>1. CASE UNCHANGED <<row, result>>
  BY <1>1 DEF Quiet, Moves
<1>2. ASSUME NEW u \in User, Insert(u) PROVE UNCHANGED <<row, result>> \/ \E i \in Item : Appears(i)
  <2>1. CASE RowsOf(Asked(u), Active) = {}
    <3>1. PICK i \in RowsOf(Asked(u), {"none"}) :
             row' = [row EXCEPT ![i] = Row("queued", NULL, 0, 0, FALSE, NULL)]
      BY <1>2, <2>1 DEF Insert
    <3>2. i \in Item /\ CellOf[i] = Asked(u) /\ row[i].status = "none"
      BY <3>1 DEF RowsOf
    <3> QED BY <1>2, <2>1, <3>1, <3>2 DEF Insert, Appears, OthersStay, QueueTypeOK, Row
  <2> QED BY <1>2, <2>1 DEF Insert
<1>3. ASSUME NEW c \in Cell, Cancel(c) PROVE Quiet
  <2>1. link[c] \in Item /\ row[link[c]] \in RowState
    BY <1>3 DEF Cancel, QueueTypeOK
  <2> QED BY <1>3, <2>1, CancelledTyped DEF Cancel, Quiet, Moves, QueueTypeOK, Active
<1>4. ASSUME NEW w \in Worker, FinishCancelled(w) PROVE Quiet
  <2>1. Free # hand[w] /\ hand[w].phase # "idle"
    BY <1>4 DEF FinishCancelled, Free, Hand
  <2> QED BY <1>4, <2>1, CloseKind, QueueAssumption DEF FinishCancelled
<1>5. ASSUME NEW w \in Worker, FinishFailed(w) PROVE Quiet
  <2> DEFINE i == hand[w].item
             class == hand[w].failure
             next == IF class = Retryable /\ row[i].attempts < MaxAttempts
                     THEN Hand("retry", i, FALSE, class) ELSE Free
  <2>1. next # hand[w] /\ hand[w].phase # "idle"
    BY <1>5 DEF FinishFailed, Free, Hand
  <2>2. class \in {Retryable, Final} /\ class # NULL
    BY <1>5, QueueAssumption DEF FinishFailed, QueueTypeOK, HandState
  <2>3. Close(w, "failed", class, next) /\ UNCHANGED result
    BY <1>5 DEF FinishFailed
  <2>4. class \in {NULL, Retryable, Final} /\ (class # NULL <=> "failed" = "failed")
    BY <2>2
  <2> HIDE DEF next, class
  <2> QED BY <2>1, <2>3, <2>4, CloseKind
<1>6. ASSUME NEW w \in Worker, Retry(w) PROVE UNCHANGED <<row, result>> \/ \E i \in Item : Appears(i)
  <2>1. hand[w].item \in Item
    BY <1>6, Held DEF Retry
  <2> QED BY <1>6, <2>1 DEF Retry, RetryAllowed, Appears, OthersStay, QueueTypeOK, Row
<1>7. ASSUME NEW w \in Worker, Heartbeat(w) PROVE Quiet
  <2>1. hand[w].item \in Item
    BY <1>7, Held DEF Heartbeat
  <2>2. CASE Owns(w) /\ row' = [row EXCEPT ![hand[w].item] = WithLease(row[hand[w].item], LeaseTicks)]
    BY <1>7, <2>1, <2>2 DEF Heartbeat, Quiet, Moves, Owns, WithLease, Row, QueueTypeOK
  <2>3. CASE UNCHANGED row
    BY <1>7, <2>3 DEF Heartbeat, Quiet, Moves
  <2> QED BY <1>7, <2>2, <2>3 DEF Heartbeat
<1>8. ASSUME NEW i \in Item, Tick(i) PROVE Quiet
  <2>1. row[i].status = "running"
    BY <1>8 DEF Tick, QueueTypeOK, RowState
  <2> QED BY <1>8, <2>1 DEF Tick, Quiet, Moves, WithLease, Row, QueueTypeOK
<1> QED BY <1>1, <1>2, <1>3, <1>4, <1>5, <1>6, <1>7, <1>8, PollKind, PublishKind
        DEF Next, WorkerStep, Submit, Ask, Resolve, Link, Abandon, Bind, HandlerReturns,
            Raises, CheckCancellation, Crash, vars

-----------------------------------------------------------------------------
(* The inductive invariant *)

\* A row that a step of kind Moves changes was active and has no result afterwards.
LEMMA MovesKeep ==
  ASSUME QueueTypeOK, NEW i \in Item, Moves(i)
  PROVE  /\ row'[i].status = "completed" <=> row[i].status = "completed"
         /\ row[i].status = "completed" => row'[i] = row[i]
         /\ row'[i].status \in Active => row[i].status \in Active
         /\ row'[i].status = "running" => row[i].status = "running" \/ SourceReady(i)
BY DEF Moves, Active, QueueTypeOK

LEMMA QueueInitInv == Init => QueueInv
<1> SUFFICES ASSUME Init PROVE QueueInv
  OBVIOUS
<1>1. QueueTypeOK
  BY StartStates DEF Init, QueueTypeOK
<1>2. \A i \in Item : row[i].status = "none"
  BY DEF Init, NoRow, Row
<1>3. \A c \in Cell : result[c] = NULL /\ RowsOf(c, {"completed"}) = {}
  BY <1>2 DEF Init, RowsOf
<1> QED BY <1>1, <1>2, <1>3
        DEF QueueInv, OneActiveRow, OneAnswer, CancelledNeverPublishes, RunningIsReady,
            PortfolioAfterSource, Active

LEMMA QuietInv ==
  ASSUME QueueInv, QueueTypeOK', Quiet
  PROVE  QueueInv'
<1>1. \A i \in Item : /\ row'[i].status = "completed" <=> row[i].status = "completed"
                      /\ row[i].status = "completed" => row'[i] = row[i]
                      /\ row'[i].status \in Active => row[i].status \in Active
                      /\ row'[i].status = "running" => row[i].status = "running" \/ SourceReady(i)
  BY MovesKeep DEF Quiet, QueueInv
<1>2. OneActiveRow'
  BY <1>1 DEF OneActiveRow, QueueInv
<1>3. OneAnswer'
  BY <1>1 DEF OneAnswer, RowsOf, Quiet, QueueInv
<1>4. CancelledNeverPublishes'
  BY <1>1 DEF CancelledNeverPublishes, QueueInv
<1>5. RunningIsReady'
  BY <1>1 DEF RunningIsReady, SourceReady, Quiet, QueueInv
<1>6. PortfolioAfterSource'
  BY DEF PortfolioAfterSource, Quiet, QueueInv
<1> QED BY <1>2, <1>3, <1>4, <1>5, <1>6 DEF QueueInv

LEMMA AppearsInv ==
  ASSUME QueueInv, QueueTypeOK', NEW i \in Item, Appears(i)
  PROVE  QueueInv'
<1>1. row[i].status \in {"none", "failed"} /\ row'[i].status = "queued"
  BY DEF Appears, RetryAllowed
<1>2. \A j \in Item : CellOf[j] = CellOf[i] => row[j].status \notin Active
  BY DEF Appears, RowsOf
<1>3. \A j \in Item \ {i} : row'[j] = row[j]
  BY DEF Appears, OthersStay
<1>4. result' = result
  BY DEF Appears
<1>5. OneActiveRow'
  BY <1>2, <1>3 DEF OneActiveRow, QueueInv
<1>6. OneAnswer'
  <2>1. \A c \in Cell : RowsOf(c, {"completed"})' = RowsOf(c, {"completed"})
    BY <1>1, <1>3 DEF RowsOf
  <2> QED BY <1>4, <2>1 DEF OneAnswer, QueueInv
<1>7. CancelledNeverPublishes'
  BY <1>1, <1>3 DEF CancelledNeverPublishes, QueueInv
<1>8. RunningIsReady'
  BY <1>1, <1>3, <1>4 DEF RunningIsReady, QueueInv
<1>9. PortfolioAfterSource'
  BY <1>4 DEF PortfolioAfterSource, QueueInv
<1> QED BY <1>5, <1>6, <1>7, <1>8, <1>9 DEF QueueInv

LEMMA PublishesInv ==
  ASSUME QueueInv, QueueTypeOK', NEW i \in Item, Publishes(i)
  PROVE  QueueInv'
<1>1. /\ row[i].status = "running" /\ row'[i].status = "completed" /\ ~row'[i].cancel
      /\ result[CellOf[i]] = NULL /\ CellOf[i] \in Cell /\ i # NULL
  BY QueueAssumption DEF Publishes
<1>2. \A j \in Item \ {i} : row'[j] = row[j]
  BY DEF Publishes, OthersStay
<1>3. result'[CellOf[i]] = i /\ \A c \in Cell \ {CellOf[i]} : result'[c] = result[c]
  BY <1>1 DEF Publishes, QueueInv, QueueTypeOK
<1>4. OneActiveRow'
  BY <1>1, <1>2 DEF OneActiveRow, QueueInv, Active
<1>5. OneAnswer'
  <2> SUFFICES ASSUME NEW c \in Cell PROVE (RowsOf(c, {"completed"}) = {result[c]} \ {NULL})'
    BY DEF OneAnswer
  <2>1. CASE c = CellOf[i]
    <3>1. RowsOf(c, {"completed"}) = {}
      BY <1>1, <2>1 DEF OneAnswer, QueueInv
    <3>2. RowsOf(c, {"completed"})' = {i}
      BY <1>1, <1>2, <2>1, <3>1 DEF RowsOf
    <3> QED BY <1>1, <1>3, <2>1, <3>2
  <2>2. CASE c # CellOf[i]
    <3>1. RowsOf(c, {"completed"})' = RowsOf(c, {"completed"})
      BY <1>2, <2>2 DEF RowsOf
    <3> QED BY <1>3, <2>2, <3>1 DEF OneAnswer, QueueInv
  <2> QED BY <2>1, <2>2
<1>6. CancelledNeverPublishes'
  BY <1>1, <1>2 DEF CancelledNeverPublishes, QueueInv
<1>7. \A c \in Cell : result[c] # NULL => result'[c] # NULL
  BY <1>1, <1>3
<1>8. RunningIsReady'
  BY <1>1, <1>2, <1>7, QueueAssumption DEF RunningIsReady, QueueInv
<1>9. PortfolioAfterSource'
  <2>1. Source[CellOf[i]] = CellOf[i] \/ result[Source[CellOf[i]]] # NULL
    BY <1>1 DEF RunningIsReady, QueueInv
  <2> QED BY <1>1, <1>3, <1>7, <2>1, QueueAssumption DEF PortfolioAfterSource, QueueInv
<1> QED BY <1>4, <1>5, <1>6, <1>8, <1>9 DEF QueueInv

LEMMA QueueNextInv == QueueInv /\ [Next]_vars => QueueInv'
<1> SUFFICES ASSUME QueueInv, [Next]_vars PROVE QueueInv'
  OBVIOUS
<1>1. QueueTypeOK'
  BY TypeStep DEF QueueInv
<1> QED BY <1>1, StepKinds, QuietInv, AppearsInv, PublishesInv DEF QueueInv

-----------------------------------------------------------------------------
(* Theorems *)

\* QueueInv is invariant, for any cells, rows, workers, users and bounds.
THEOREM QueueInvariance == Spec => []QueueInv
BY QueueInitInv, QueueNextInv, PTL DEF Spec

\* Owner, lease and failure class of a row go with its status.
THEOREM QueueTypeCorrect == Spec => []QueueTypeOK
<1>1. QueueInv => QueueTypeOK
  BY DEF QueueInv
<1> QED BY <1>1, QueueInvariance, PTL

\* Retries and enqueues together never make a second active row of a cell.
THEOREM NoTwinRows == Spec => []OneActiveRow
<1>1. QueueInv => OneActiveRow
  BY DEF QueueInv
<1> QED BY <1>1, QueueInvariance, PTL

\* A cell is answered at most once, by the one item that completes.
THEOREM AnsweredOnce == Spec => []OneAnswer
<1>1. QueueInv => OneAnswer
  BY DEF QueueInv
<1> QED BY <1>1, QueueInvariance, PTL

\* Cancellation wins over every publication that has not yet committed.
THEOREM CancellationWins == Spec => []CancelledNeverPublishes
<1>1. QueueInv => CancelledNeverPublishes
  BY DEF QueueInv
<1> QED BY <1>1, QueueInvariance, PTL

\* Portfolio cells are answered after their predictive cell.
THEOREM SourcesFirst == Spec => []PortfolioAfterSource
<1>1. QueueInv => PortfolioAfterSource
  BY DEF QueueInv
<1> QED BY <1>1, QueueInvariance, PTL

\* A worker that lost its lease to another ends nothing.
THEOREM HoldersOnlyEnd == Spec => OnlyHolderEnds
<1>1. QueueTypeOK /\ [Next]_vars =>
        [\A i \in Item :
           row[i].status = "running" /\ row'[i].status \in Ended /\ row[i].lease > 0
             => \E w \in Worker : /\ row[i].owner = w /\ hand[w].item = i
                                  /\ hand'[w] # hand[w]]_vars
  <2> SUFFICES ASSUME QueueTypeOK, [Next]_vars, NEW i \in Item,
                      row[i].status = "running", row'[i].status \in Ended, row[i].lease > 0
               PROVE  HolderActs(i)
    BY DEF HolderActs
  <2>1. CASE Quiet
    BY <2>1 DEF Quiet, Moves, Ended
  <2>2. CASE \E j \in Item : Appears(j)
    BY <2>2 DEF Appears, OthersStay, RetryAllowed, Ended
  <2>3. CASE \E j \in Item : Publishes(j)
    BY <2>3 DEF Publishes, OthersStay, Ended
  <2> QED BY <2>1, <2>2, <2>3, StepKinds
<1> QED BY <1>1, QueueTypeCorrect, PTL DEF Spec, OnlyHolderEnds

\* What has ended for good is never touched again.
THEOREM EndsStand == Spec => EndsStay
<1>1. QueueTypeOK /\ [Next]_vars =>
        [\A i \in Item :
           /\ row[i].status \in {"completed", "cancelled"} => row'[i] = row[i]
           /\ row[i].status = "failed" /\ row'[i] # row[i] =>
                row'[i].status = "queued" /\ row[i].failure = Retryable
                  /\ row[i].attempts < MaxAttempts]_vars
  <2> SUFFICES ASSUME QueueTypeOK, [Next]_vars, NEW i \in Item,
                      row[i].status \in {"completed", "cancelled", "failed"}, row'[i] # row[i]
               PROVE  /\ row[i].status = "failed" /\ row'[i].status = "queued"
                      /\ row[i].failure = Retryable /\ row[i].attempts < MaxAttempts
    OBVIOUS
  <2>1. CASE Quiet
    BY <2>1 DEF Quiet, Moves, Active
  <2>2. CASE \E j \in Item : Appears(j)
    BY <2>2 DEF Appears, OthersStay, RetryAllowed
  <2>3. CASE \E j \in Item : Publishes(j)
    BY <2>3 DEF Publishes, OthersStay
  <2> QED BY <2>1, <2>2, <2>3, StepKinds
<1> QED BY <1>1, QueueTypeCorrect, PTL DEF Spec, EndsStay

-----------------------------------------------------------------------------
(* The contract *)

states == [i \in Item |-> StateOf(i)]
cancels == {i \in Item : row[i].cancel}

\* A worker gives an item back as cancelled only when that was asked for, and
\* nobody asks for the cancellation of a row that does not exist yet.
CancelSound ==
  /\ \A w \in Worker : hand[w].phase = "cancel" =>
       row[hand[w].item].cancel /\ row[hand[w].item].status # "none"
  /\ \A i \in Item : row[i].status = "none" => ~row[i].cancel

\* Row i is not asked to be cancelled, and not cancelled unless it was.
Unasked(i) ==
  /\ row'[i].cancel = row[i].cancel
  /\ row'[i].status = "cancelled" => row[i].status = "cancelled" \/ row[i].cancel
  /\ row[i].status # "none" => row'[i].status # "none"

\* A row that a worker puts an end to.
LEMMA CloseUnasked ==
  ASSUME QueueTypeOK, NEW w \in Worker, hand[w].phase # "idle",
         NEW status \in {"cancelled", "failed"}, NEW failure \in {NULL, Retryable, Final},
         failure # NULL <=> status = "failed",
         NEW next, Close(w, status, failure, next),
         status = "cancelled" => row[hand[w].item].cancel
  PROVE  \A i \in Item : Unasked(i)
<1>1. hand[w].item \in Item /\ row[hand[w].item] \in RowState
  BY Held DEF QueueTypeOK
<1>2. /\ Closed(row[hand[w].item], status, failure).status = status
      /\ Closed(row[hand[w].item], status, failure).cancel = row[hand[w].item].cancel
  BY <1>1, ClosedTyped DEF Ended
<1> QED BY <1>1, <1>2 DEF Close, Unasked, QueueTypeOK

\* Only a user asks.
LEMMA OnlyUsersAsk ==
  ASSUME QueueTypeOK, CancelSound, [Next]_vars
  PROVE  (\E c \in Cell : Cancel(c)) \/ \A i \in Item : Unasked(i)
<1> USE DEF QueueTypeOK
<1>1. UNCHANGED row => \A i \in Item : Unasked(i)
  BY DEF Unasked
<1>2. ASSUME NEW u \in User, Insert(u)
      PROVE  \A i \in Item : Unasked(i)
  <2>1. CASE UNCHANGED row
    BY <1>1, <2>1
  <2>2. CASE RowsOf(Asked(u), Active) = {}
    <3>1. PICK i \in RowsOf(Asked(u), {"none"}) :
             row' = [row EXCEPT ![i] = Row("queued", NULL, 0, 0, FALSE, NULL)]
      BY <1>2, <2>2 DEF Insert
    <3>2. i \in Item /\ row[i].status = "none" /\ row[i].cancel = FALSE
      BY <3>1 DEF RowsOf, CancelSound, RowState
    <3> QED BY <3>1, <3>2 DEF Unasked, Row
  <2> QED BY <1>2, <2>1, <2>2 DEF Insert
<1>3. ASSUME NEW w \in Worker, Poll(w)
      PROVE  \A i \in Item : Unasked(i)
  <2>1. ASSUME NEW i \in Item, row'[i] = AfterExpiry(i)
        PROVE  Unasked(i)
    BY <2>1 DEF Unasked, AfterExpiry, Expired, Closed, Row
  <2>2. ASSUME NEW i \in Item, row'[i] = Claimed(i, w)
        PROVE  Unasked(i)
    BY <2>2 DEF Unasked, Claimed, Row
  <2> QED BY <1>3, <2>1, <2>2 DEF Poll
<1>4. ASSUME NEW w \in Worker, Publish(w)
      PROVE  \A i \in Item : Unasked(i)
  <2>1. hand[w].item \in Item
    BY <1>4, Held DEF Publish
  <2> QED BY <1>4, <2>1 DEF Publish, WriteResult, Closed, Row, Unasked
<1>5. ASSUME NEW w \in Worker, FinishCancelled(w)
      PROVE  \A i \in Item : Unasked(i)
  <2>1. Close(w, "cancelled", NULL, Free) /\ hand[w].phase = "cancel"
    BY <1>5 DEF FinishCancelled
  <2> QED BY <2>1, CloseUnasked, QueueAssumption DEF CancelSound
<1>6. ASSUME NEW w \in Worker, FinishFailed(w)
      PROVE  \A i \in Item : Unasked(i)
  <2>1. /\ hand[w].phase # "idle" /\ hand[w].failure \in {NULL, Retryable, Final}
        /\ hand[w].failure # NULL
    BY <1>6 DEF FinishFailed, HandState
  <2>2. PICK next : Close(w, "failed", hand[w].failure, next)
    BY <1>6 DEF FinishFailed
  <2> QED BY <2>1, <2>2, CloseUnasked
<1>7. ASSUME NEW w \in Worker, Retry(w)
      PROVE  \A i \in Item : Unasked(i)
  <2>1. hand[w].item \in Item
    BY <1>7, Held DEF Retry
  <2> QED BY <1>7, <2>1 DEF Retry, Row, Unasked
<1>8. ASSUME NEW w \in Worker, Heartbeat(w)
      PROVE  \A i \in Item : Unasked(i)
  <2>1. hand[w].item \in Item
    BY <1>8, Held DEF Heartbeat
  <2>2. CASE row' = [row EXCEPT ![hand[w].item] = WithLease(row[hand[w].item], LeaseTicks)]
    BY <2>1, <2>2 DEF WithLease, Row, Unasked
  <2> QED BY <1>1, <1>8, <2>2 DEF Heartbeat
<1>9. ASSUME NEW i \in Item, Tick(i)
      PROVE  \A j \in Item : Unasked(j)
  BY <1>9 DEF Tick, WithLease, Row, Unasked
<1> QED BY <1>1, <1>2, <1>3, <1>4, <1>5, <1>6, <1>7, <1>8, <1>9
        DEF Next, WorkerStep, Submit, Ask, Resolve, Link, Abandon, Bind, HandlerReturns,
            Raises, CheckCancellation, Crash, vars

\* A cancellation that was asked for is never withdrawn.
LEMMA CancelStays ==
  ASSUME QueueTypeOK, CancelSound, [Next]_vars, NEW i \in Item
  PROVE  /\ row[i].cancel => row'[i].cancel
         /\ row[i].status # "none" => row'[i].status # "none"
<1>1. ASSUME NEW c \in Cell, Cancel(c)
      PROVE  /\ row[i].cancel => row'[i].cancel
             /\ row[i].status # "none" => row'[i].status # "none"
  BY <1>1 DEF Cancel, Cancelled, Row, QueueTypeOK
<1> QED BY <1>1, OnlyUsersAsk DEF Unasked

\* Who comes to hold a cancellation has seen it.
LEMMA CancelSeen ==
  ASSUME QueueTypeOK, CancelSound, [Next]_vars, NEW w \in Worker, hand'[w].phase = "cancel"
  PROVE  /\ hand'[w].item = hand[w].item /\ hand[w].item \in Item
         /\ row[hand[w].item].cancel /\ row[hand[w].item].status # "none"
<1> USE DEF QueueTypeOK
<1>1. CASE hand'[w] = hand[w]
  BY <1>1, Held DEF CancelSound
<1>2. CASE CheckCancellation(w)
  BY <1>2, Held DEF CheckCancellation, Go, Hand, Owns
<1>3. CASE Publish(w)
  BY <1>3, Held DEF Publish, WriteResult, Go, Fail, Leave, Free, Hand, Owns
<1>4. CASE Heartbeat(w)
  BY <1>1, <1>4 DEF Heartbeat, Hand
<1>5. CASE Poll(w) \/ Bind(w) \/ HandlerReturns(w) \/ Raises(w) \/ FinishCancelled(w)
            \/ FinishFailed(w) \/ Retry(w) \/ Crash(w)
  <2>1. hand'[w].phase \in {"idle", "bind", "work", "check", "publish", "fail", "retry"} \/ hand'[w] = hand[w]
    BY <1>5 DEF Poll, Bind, HandlerReturns, Raises, FinishCancelled, FinishFailed, Retry, Crash,
                Close, Go, Fail, Leave, Free, Hand
  <2> QED BY <1>1, <2>1
<1>6. ASSUME NEW v \in Worker, v # w, WorkerStep(v) \/ Heartbeat(v) \/ Crash(v)
      PROVE  hand'[w] = hand[w]
  BY <1>6 DEF WorkerStep, Heartbeat, Crash, Poll, Bind, HandlerReturns, Raises, CheckCancellation,
              Publish, WriteResult, FinishCancelled, FinishFailed, Retry, Close, Go, Fail, Leave
<1>7. ASSUME NEW u \in User,
             Submit(u) \/ Ask(u) \/ Insert(u) \/ Resolve(u) \/ Link(u) \/ Abandon(u)
      PROVE  hand'[w] = hand[w]
  BY <1>7 DEF Submit, Ask, Insert, Resolve, Link, Abandon
<1>8. (\E c \in Cell : Cancel(c)) \/ (\E i \in Item : Tick(i)) \/ UNCHANGED vars => hand'[w] = hand[w]
  BY DEF Cancel, Tick, vars
<1> QED BY <1>1, <1>2, <1>3, <1>4, <1>5, <1>6, <1>7, <1>8 DEF Next, WorkerStep

LEMMA CancelSoundStep ==
  ASSUME QueueTypeOK, CancelSound, [Next]_vars
  PROVE  CancelSound'
<1>1. ASSUME NEW w \in Worker, hand'[w].phase = "cancel"
      PROVE  row'[hand'[w].item].cancel /\ row'[hand'[w].item].status # "none"
  BY <1>1, CancelSeen, CancelStays
<1>2. ASSUME NEW i \in Item, row'[i].status = "none"
      PROVE  ~row'[i].cancel
  <2>1. row[i].status = "none" /\ ~row[i].cancel
    BY <1>2, CancelStays DEF CancelSound
  <2>2. ASSUME NEW c \in Cell, Cancel(c)
        PROVE  row'[i] = row[i]
    BY <2>1, <2>2 DEF Cancel, Cancelled, QueueTypeOK
  <2> QED BY <2>1, <2>2, OnlyUsersAsk DEF Unasked
<1> QED BY <1>1, <1>2 DEF CancelSound

\* A step of each kind, as its requester sees it.
LEMMA CancelAsks ==
  ASSUME QueueTypeOK, NEW c \in Cell, Cancel(c)
  PROVE  \E i \in Item : Contract!AskCancel(i)
<1> USE DEF QueueTypeOK
<1> PICK i \in Item : i = link[c]
  BY DEF Cancel
<1>1. /\ row[i] \in RowState /\ row' = [row EXCEPT ![i] = Cancelled(i)] /\ result' = result
      /\ row[i].status \in Active /\ Cancelled(i).cancel
      /\ Cancelled(i).status = row[i].status \/ Cancelled(i).status = "cancelled"
  BY DEF Cancel, Cancelled, Row, RowState, Active
<1>2. cancels' = cancels \cup {i}
  BY <1>1 DEF cancels
<1>3. states[i] = "open" /\ states' \in {states, [states EXCEPT ![i] = "cancelled"]}
  <2>1. \A j \in Item : j # i => StateOf(j)' = StateOf(j)
    BY <1>1 DEF StateOf
  <2>2. StateOf(i) = "open"
    BY <1>1 DEF StateOf, Active
  <2>3. StateOf(i)' \in {"open", "cancelled"}
    <3>1. row'[i].status = Cancelled(i).status
      BY <1>1
    <3> QED BY <1>1, <3>1 DEF StateOf, Active
  <2>4. states' = [states EXCEPT ![i] = StateOf(i)']
    BY <2>1 DEF states
  <2>5. states[i] = "open" /\ states = [states EXCEPT ![i] = "open"]
    BY <2>2 DEF states
  <2> QED BY <2>3, <2>4, <2>5
<1> QED BY <1>1, <1>2, <1>3 DEF Contract!AskCancel, states, cancels

LEMMA QuietGivesUp ==
  ASSUME QueueTypeOK, QueueTypeOK', Quiet, \A i \in Item : Unasked(i)
  PROVE  Contract!GiveUp
<1> USE DEF QueueTypeOK
<1>1. cancels' = cancels /\ result' = result
  BY DEF cancels, Unasked, Quiet
<1>2. states' \in [Item -> Contract!State]
  BY DEF states, StateOf, Contract!State, RowState, Active, Ended
<1>3. ASSUME NEW i \in Item
      PROVE  \/ states'[i] = states[i]
             \/ states[i] = "open" /\ states'[i] = "failed"
             \/ states[i] = "open" /\ states'[i] = "cancelled" /\ i \in cancels
  <2>1. Moves(i) /\ Unasked(i)
    BY DEF Quiet
  <2> QED BY <2>1 DEF Moves, Unasked, states, StateOf, Active, cancels
<1> QED BY <1>1, <1>2, <1>3 DEF Contract!GiveUp, states, cancels

LEMMA AppearsOpens ==
  ASSUME QueueTypeOK, NEW i \in Item, Appears(i), \A j \in Item : Unasked(j)
  PROVE  Contract!Open(i)
<1> USE DEF QueueTypeOK
<1>1. cancels' = cancels /\ result' = result
  BY DEF cancels, Unasked, Appears
<1>2. states[i] \in {"absent", "failed"} /\ states' = [states EXCEPT ![i] = "open"]
  BY DEF Appears, OthersStay, RetryAllowed, states, StateOf, Active
<1>3. \A j \in Item : CellOf[j] = CellOf[i] => states[j] # "open"
  BY DEF Appears, RowsOf, states, StateOf, RowState, Ended
<1> QED BY <1>1, <1>2, <1>3 DEF Contract!Open, states, cancels

LEMMA PublishesAnswers ==
  ASSUME QueueInv, NEW i \in Item, Publishes(i), \A j \in Item : Unasked(j)
  PROVE  Contract!Answer(i)
<1> USE DEF QueueInv, QueueTypeOK
<1>1. cancels' = cancels /\ i \notin cancels
  BY DEF cancels, Unasked, Publishes
<1>2. states[i] = "open" /\ states' = [states EXCEPT ![i] = "completed"]
  BY DEF Publishes, OthersStay, states, StateOf, Active
<1>3. Source[CellOf[i]] # CellOf[i] => result[Source[CellOf[i]]] # NULL
  BY DEF Publishes, RunningIsReady
<1>4. result[CellOf[i]] = NULL /\ result' = [result EXCEPT ![CellOf[i]] = i]
  BY DEF Publishes
<1> QED BY <1>1, <1>2, <1>3, <1>4 DEF Contract!Answer, states, cancels

LEMMA QueueContractStep ==
  ASSUME QueueInv, CancelSound, [Next]_vars
  PROVE  [Contract!Next]_<<states, cancels, result>>
<1>1. QueueTypeOK /\ QueueTypeOK'
  BY TypeStep DEF QueueInv
<1>2. CASE \E c \in Cell : Cancel(c)
  BY <1>1, <1>2, CancelAsks DEF Contract!Next
<1>3. CASE \A i \in Item : Unasked(i)
  BY <1>1, <1>3, StepKinds, QuietGivesUp, AppearsOpens, PublishesAnswers DEF Contract!Next
<1> QED BY <1>1, <1>2, <1>3, OnlyUsersAsk

\* The queue serves its cells as if it had one worker that neither dies nor
\* repeats anything: the detail of rows, leases, attempts and races implements
\* CellWorkContract.
THEOREM QueueKeepsContract == Spec => ImplementsCellWork
<1>1. Init => CancelSound
  BY DEF Init, CancelSound, Free, Hand, NoRow, Row
<1>2. QueueInv /\ CancelSound /\ [Next]_vars => CancelSound'
  BY CancelSoundStep DEF QueueInv
<1>3. QueueInv /\ CancelSound /\ [Next]_vars =>
        [Contract!Next]_<<[i \in Item |-> StateOf(i)], {i \in Item : row[i].cancel}, result>>
  BY QueueContractStep DEF states, cancels
<1>4. Init => Contract!Init
  <2>1. ASSUME Init, NEW i \in Item
        PROVE  StateOf(i) = "absent" /\ row[i].cancel = FALSE
    BY <2>1 DEF Init, StateOf, NoRow, Row
  <2> QED BY <2>1 DEF Init, Contract!Init
<1> QED
  BY <1>1, <1>2, <1>3, <1>4, QueueInvariance, PTL
  DEF Spec, ImplementsCellWork, Contract!Spec

=============================================================================
