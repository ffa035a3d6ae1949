----------------------------- MODULE WorkQueue -----------------------------
(***************************************************************************)
(* The persistent queue ops.work_item as the cells of a research suite use *)
(* it: users submit the suite (enqueue a cell, then link the Work Item to  *)
(* it), workers claim items under a lease, execute them and publish the    *)
(* cell's result together with the end of the item, users ask for          *)
(* cancellation, and processes die anywhere between two transactions.      *)
(*                                                                         *)
(* A transaction is one step: the rows it decides on are locked.  Enqueue  *)
(* is the exception, its lookup and its insert are statements of their own *)
(* in READ COMMITTED.  A handler computes the same result on every attempt *)
(* (its inputs are frozen), so that a cell has one result artifact.        *)
(***************************************************************************)
EXTENDS Naturals, Sequences

CONSTANTS
  Cells,        \* the cells of the suite, in the order submit enqueues them
  Item,         \* Work Item rows, written or not
  CellOf,       \* CellOf[i]: the cell whose fingerprint row i carries
  Source,       \* Source[c]: the predictive cell of a portfolio cell, or c
  Worker, User,
  MaxAttempts,  \* max_attempts of every item
  LeaseTicks,   \* length of a lease
  NULL

Cell == {Cells[n] : n \in 1..Len(Cells)}

\* Failure classes: infrastructure and interrupted may be retried unchanged,
\* data_quality, capacity and contract may not.
Retryable == "retryable"
Final == "final"

ASSUME QueueAssumption ==
  /\ Cells \in Seq(Cell)
  /\ CellOf \in [Item -> Cell] /\ Source \in [Cell -> Cell]
  /\ NULL \notin Worker \cup Item \cup {Retryable, Final}
  /\ MaxAttempts \in Nat \ {0} /\ LeaseTicks \in Nat \ {0}

VARIABLES
  row,     \* row[i]: ops.work_item
  link,    \* link[c]: research_suite_work_item, the item a cell is linked to
  result,  \* result[c]: the item whose worker published the cell's result
  hand,    \* hand[w]: what a worker's run_once holds
  form     \* form[u]: where a user's submit is

vars == <<row, link, result, hand, form>>

Active == {"queued", "running"}
Ended == {"completed", "failed", "cancelled"}

Row(status, owner, lease, attempts, cancel, failure) ==
  [status |-> status, owner |-> owner, lease |-> lease, attempts |-> attempts,
   cancel |-> cancel, failure |-> failure]
Hand(phase, item, lost, failure) ==
  [phase |-> phase, item |-> item, lost |-> lost, failure |-> failure]
Form(at, phase, item) == [at |-> at, phase |-> phase, item |-> item]

NoRow == Row("none", NULL, 0, 0, FALSE, NULL)
Free == Hand("idle", NULL, FALSE, NULL)
NoForm == Form(0, "idle", NULL)

Init ==
  /\ row = [i \in Item |-> NoRow]
  /\ link = [c \in Cell |-> NULL]
  /\ result = [c \in Cell |-> NULL]
  /\ hand = [w \in Worker |-> Free]
  /\ form = [u \in User |-> NoForm]

RowsOf(c, S) == {i \in Item : CellOf[i] = c /\ row[i].status \in S}

-----------------------------------------------------------------------------
(* Submission: _enqueue_cells, WorkQueueService.enqueue *)

Submit(u) ==
  /\ form[u].at = 0 /\ Len(Cells) > 0
  /\ form' = [form EXCEPT ![u] = Form(1, "ask", NULL)]
  /\ UNCHANGED <<row, link, result, hand>>

Asked(u) == Cells[form[u].at]

\* The lookup of a terminal row.
Ask(u) ==
  /\ form[u].phase = "ask"
  /\ \/ \E i \in RowsOf(Asked(u), {"completed"}) :
          form' = [form EXCEPT ![u] = Form(form[u].at, "link", i)]
     \/ /\ RowsOf(Asked(u), {"completed"}) = {}
        /\ form' = [form EXCEPT ![u] = Form(form[u].at, "insert", NULL)]
  /\ UNCHANGED <<row, link, result, hand>>

\* INSERT .. ON CONFLICT DO NOTHING: the partial unique index knows queued and
\* running rows only.
Insert(u) ==
  /\ form[u].phase = "insert"
  /\ IF RowsOf(Asked(u), Active) = {}
     THEN \E i \in RowsOf(Asked(u), {"none"}) :
            /\ row' = [row EXCEPT ![i] = Row("queued", NULL, 0, 0, FALSE, NULL)]
            /\ form' = [form EXCEPT ![u] = Form(form[u].at, "link", i)]
     ELSE /\ form' = [form EXCEPT ![u] = Form(form[u].at, "resolve", NULL)]
          /\ UNCHANGED row
  /\ UNCHANGED <<link, result, hand>>

\* The row that won the race, completed rows first; it may have failed meanwhile,
\* which raises.
Resolve(u) ==
  /\ form[u].phase = "resolve"
  /\ LET completed == RowsOf(Asked(u), {"completed"})
         found == IF completed # {} THEN completed ELSE RowsOf(Asked(u), Active)
     IN  \/ \E i \in found :
              form' = [form EXCEPT ![u] = Form(form[u].at, "link", i)]
         \/ found = {} /\ form' = [form EXCEPT ![u] = NoForm]
  /\ UNCHANGED <<row, link, result, hand>>

\* A transaction of its own links the cell to the item, instead of an older one.
Link(u) ==
  /\ form[u].phase = "link"
  /\ link' = [link EXCEPT ![Asked(u)] = form[u].item]
  /\ form' = [form EXCEPT ![u] =
               IF form[u].at < Len(Cells)
               THEN Form(form[u].at + 1, "ask", NULL)
               ELSE NoForm]
  /\ UNCHANGED <<row, result, hand>>

\* The API process dies or the request is aborted.
Abandon(u) ==
  /\ form[u].at # 0
  /\ form' = [form EXCEPT ![u] = NoForm]
  /\ UNCHANGED <<row, link, result, hand>>

-----------------------------------------------------------------------------
(* Cancellation: request_cancel *)

\* Fault: a failed row is taken for one that waits.
CancelledFailed(i) ==
  LET r == row[i]
  IN  CASE r.status \in {"queued", "failed"} ->
             Row("cancelled", NULL, 0, r.attempts, TRUE, NULL)
        [] r.status = "running" -> Row("running", r.owner, r.lease, r.attempts, TRUE, NULL)
        [] OTHER                -> r

Cancelled(i) ==
  LET r == row[i]
  IN  CASE r.status = "queued"  -> Row("cancelled", NULL, 0, r.attempts, TRUE, NULL)
        [] r.status = "running" -> Row("running", r.owner, r.lease, r.attempts, TRUE, NULL)
        [] OTHER                -> r

Cancel(c) ==
  /\ link[c] # NULL /\ Cancelled(link[c]) # row[link[c]]
  /\ row' = [row EXCEPT ![link[c]] = Cancelled(link[c])]
  /\ UNCHANGED <<link, result, hand, form>>

-----------------------------------------------------------------------------
(* The worker: run_once *)

Expired(i) == row[i].status = "running" /\ row[i].lease = 0

Closed(r, status, failure) ==
  Row(status, NULL, 0, r.attempts, r.cancel, failure)

\* _terminalize_expired: nobody may claim these again.
AfterExpiry(i) ==
  CASE Expired(i) /\ row[i].cancel -> Closed(row[i], "cancelled", NULL)
    [] Expired(i) /\ ~row[i].cancel /\ row[i].attempts >= MaxAttempts
         -> Closed(row[i], "failed", Retryable)
    [] OTHER -> row[i]

\* A portfolio cell waits for the accepted result of its predictive cell.
SourceReady(i) ==
  LET c == CellOf[i]
  IN  Source[c] # c => link[c] = i /\ result[Source[c]] # NULL

\* Fault: only queued items are looked at.
ClaimableQueued(i) ==
  /\ row[i].status = "queued"
  /\ ~row[i].cancel
  /\ row[i].attempts < MaxAttempts
  /\ SourceReady(i)

\* Fault: a portfolio cell does not wait.
ClaimableEarly(i) ==
  /\ row[i].status = "queued" \/ Expired(i)
  /\ ~row[i].cancel
  /\ row[i].attempts < MaxAttempts

Claimable(i) ==
  /\ row[i].status = "queued" \/ Expired(i)
  /\ ~row[i].cancel
  /\ row[i].attempts < MaxAttempts
  /\ SourceReady(i)

Claimed(i, w) ==
  Row("running", w, LeaseTicks, row[i].attempts + 1, row[i].cancel, NULL)

\* claim: close what expired for good, then take an item.  The statement skips
\* rows another transaction has locked, so any claimable item may be the first.
Poll(w) ==
  /\ hand[w].phase = "idle"
  /\ \/ \E i \in {i \in Item : Claimable(i)} :
          /\ row' = [j \in Item |-> IF j = i THEN Claimed(i, w) ELSE AfterExpiry(j)]
          /\ hand' = [hand EXCEPT ![w] = Hand("bind", i, FALSE, NULL)]
     \/ /\ \A i \in Item : ~Claimable(i)
        /\ \E i \in Item : AfterExpiry(i) # row[i]
        /\ row' = [i \in Item |-> AfterExpiry(i)]
        /\ UNCHANGED hand
  /\ UNCHANGED <<link, result, form>>

Go(w, phase) ==
  hand' = [hand EXCEPT ![w] = Hand(phase, hand[w].item, hand[w].lost, NULL)]
Fail(w, class) == hand' = [hand EXCEPT ![w] = Hand("fail", hand[w].item, FALSE, class)]
Leave(w) == hand' = [hand EXCEPT ![w] = Free]

\* _resolve_request: the cell is found by the link, its absence is a contract failure.
Bind(w) ==
  /\ hand[w].phase = "bind"
  /\ LET i == hand[w].item
     IN  IF link[CellOf[i]] = i THEN Go(w, "work") ELSE Fail(w, Final)
  /\ UNCHANGED <<row, link, result, form>>

\* The handler returns; a heartbeat that failed meanwhile is an interruption.
HandlerReturns(w) ==
  /\ hand[w].phase = "work"
  /\ IF hand[w].lost THEN Fail(w, Retryable) ELSE Go(w, "check")
  /\ UNCHANGED <<row, link, result, form>>

\* The database fails, or the handler or the quality gate raises.
Raises(w) ==
  /\ \/ hand[w].phase \in {"bind", "work", "check", "publish"} /\ Fail(w, Retryable)
     \/ hand[w].phase \in {"work", "publish"} /\ Fail(w, Final)
  /\ UNCHANGED <<row, link, result, form>>

Owns(w) ==
  LET r == row[hand[w].item] IN r.status = "running" /\ r.owner = w

CheckCancellation(w) ==
  /\ hand[w].phase = "check"
  /\ Go(w, IF Owns(w) /\ row[hand[w].item].cancel THEN "cancel" ELSE "publish")
  /\ UNCHANGED <<row, link, result, form>>

\* Fault: the cancellation is looked at before the publication only.
PublishUnlessLost(w) ==
  LET i == hand[w].item
  IN  IF Owns(w)
      THEN /\ row' = [row EXCEPT ![i] = Closed(row[i], "completed", NULL)]
           /\ result' = [result EXCEPT ![CellOf[i]] = i]
           /\ Leave(w)
      ELSE Fail(w, Retryable) /\ UNCHANGED <<row, result>>

\* draft_writer: result and end of the item in one transaction.
WriteResult(w) ==
  LET i == hand[w].item
  IN  \/ /\ Owns(w) /\ ~row[i].cancel
         /\ row' = [row EXCEPT ![i] = Closed(row[i], "completed", NULL)]
         /\ result' = [result EXCEPT ![CellOf[i]] = i]
         /\ Leave(w)
      \/ /\ Owns(w) /\ row[i].cancel
         /\ Go(w, "cancel") /\ UNCHANGED <<row, result>>
      \/ ~Owns(w) /\ Fail(w, Retryable) /\ UNCHANGED <<row, result>>

\* Fault: an existing artifact does not end the publication.
PublishAgain(w) ==
  /\ hand[w].phase = "publish"
  /\ WriteResult(w)
  /\ UNCHANGED <<link, form>>

\* complete: an artifact that exists is returned as it is, and the item with it.
Publish(w) ==
  /\ hand[w].phase = "publish"
  /\ IF result[CellOf[hand[w].item]] = NULL
     THEN WriteResult(w)
     ELSE Leave(w) /\ UNCHANGED <<row, result>>
  /\ UNCHANGED <<link, form>>

\* Fault: finish does not compare the owner.
CloseAnyones(w, status, failure, next) ==
  LET i == hand[w].item
  IN  /\ row' = [row EXCEPT ![i] = Closed(row[i], status, failure)]
      /\ hand' = [hand EXCEPT ![w] = next]

\* finish: by the owner of a running item; otherwise it raises and run_once with it.
Close(w, status, failure, next) ==
  LET i == hand[w].item
  IN  \/ /\ Owns(w)
         /\ row' = [row EXCEPT ![i] = Closed(row[i], status, failure)]
         /\ hand' = [hand EXCEPT ![w] = next]
      \/ ~Owns(w) /\ Leave(w) /\ UNCHANGED row

FinishCancelled(w) ==
  /\ hand[w].phase = "cancel"
  /\ Close(w, "cancelled", NULL, Free)
  /\ UNCHANGED <<link, result, form>>

\* A retryable failure with attempts left is followed by a retry.
FinishFailed(w) ==
  /\ hand[w].phase = "fail"
  /\ LET i == hand[w].item
         class == hand[w].failure
         again == class = Retryable /\ row[i].attempts < MaxAttempts
     IN  Close(w, "failed", class, IF again THEN Hand("retry", i, FALSE, class) ELSE Free)
  /\ UNCHANGED <<link, result, form>>

\* Fault: a retry is not subject to the unique index.
RetryAllowedTwice(i) == row[i].status = "failed"

\* retry, in a transaction of its own; the unique index refuses it when the cell
\* has another active row.
RetryAllowed(i) ==
  /\ row[i].status = "failed" /\ row[i].failure = Retryable
  /\ row[i].attempts < MaxAttempts
  /\ RowsOf(CellOf[i], Active) = {}

Retry(w) ==
  /\ hand[w].phase = "retry"
  /\ LET i == hand[w].item
     IN  \/ /\ RetryAllowed(i)
            /\ row' = [row EXCEPT ![i] =
                        Row("queued", NULL, 0, row[i].attempts, row[i].cancel, NULL)]
         \/ ~RetryAllowed(i) /\ UNCHANGED row
  /\ Leave(w)
  /\ UNCHANGED <<link, result, form>>

WorkerStep(w) ==
  \/ Poll(w) \/ Bind(w) \/ HandlerReturns(w) \/ Raises(w) \/ CheckCancellation(w)
  \/ Publish(w) \/ FinishCancelled(w) \/ FinishFailed(w) \/ Retry(w)

-----------------------------------------------------------------------------
(* Heartbeats, crashes, time *)

WithLease(r, lease) == Row(r.status, r.owner, lease, r.attempts, r.cancel, r.failure)

\* keep_lease: a renewal that is refused ends the thread, and is remembered until
\* the handler returns (nobody asks later).
Heartbeat(w) ==
  /\ hand[w].phase # "idle"
  /\ LET i == hand[w].item
     IN  \/ /\ Owns(w) /\ row[i].lease > 0
            /\ row' = [row EXCEPT ![i] = WithLease(row[i], LeaseTicks)] /\ UNCHANGED hand
         \/ /\ ~(Owns(w) /\ row[i].lease > 0) /\ hand[w].phase \in {"bind", "work"}
            /\ hand' = [hand EXCEPT ![w] = Hand(hand[w].phase, i, TRUE, NULL)]
            /\ UNCHANGED row
  /\ UNCHANGED <<link, result, form>>

Crash(w) ==
  /\ hand[w].phase # "idle"
  /\ Leave(w)
  /\ UNCHANGED <<row, link, result, form>>

Tick(i) ==
  /\ row[i].lease > 0
  /\ row' = [row EXCEPT ![i] = WithLease(row[i], row[i].lease - 1)]
  /\ UNCHANGED <<link, result, hand, form>>

Next ==
  \/ \E u \in User :
       Submit(u) \/ Ask(u) \/ Insert(u) \/ Resolve(u) \/ Link(u) \/ Abandon(u)
  \/ \E c \in Cell : Cancel(c)
  \/ \E w \in Worker : WorkerStep(w) \/ Heartbeat(w) \/ Crash(w)
  \/ \E i \in Item : Tick(i)

Spec == Init /\ [][Next]_vars

\* run_persistent_worker polls for ever and a dead process is started again; a
\* handler ends.  Nothing is assumed of heartbeats, crashes, users or failures.
Fairness ==
  /\ \A w \in Worker : SF_vars(WorkerStep(w))
  /\ \A i \in Item : WF_vars(Tick(i))

FairSpec == Spec /\ Fairness

-----------------------------------------------------------------------------
(* Correctness *)

RowState ==
  {r \in [status   : {"none"} \cup Active \cup Ended,
          owner    : Worker \cup {NULL},
          lease    : 0..LeaseTicks,
          attempts : 0..MaxAttempts,
          cancel   : BOOLEAN,
          failure  : {NULL, Retryable, Final}] :
     /\ r.owner # NULL <=> r.status = "running"
     /\ r.lease > 0 => r.status = "running"
     /\ r.failure # NULL <=> r.status = "failed"}

HandState ==
  {h \in [phase   : {"idle", "bind", "work", "check", "publish", "cancel", "fail", "retry"},
          item    : Item \cup {NULL},
          lost    : BOOLEAN,
          failure : {NULL, Retryable, Final}] :
     /\ h.item # NULL <=> h.phase # "idle"
     /\ h.failure # NULL <=> h.phase \in {"fail", "retry"}}

FormState ==
  {f \in [at    : 0..Len(Cells),
          phase : {"idle", "ask", "insert", "resolve", "link"},
          item  : Item \cup {NULL}] :
     /\ f.at # 0 <=> f.phase # "idle"
     /\ f.item # NULL <=> f.phase = "link"}

\* Types, and: a row has an owner exactly while it is running and a lease only then,
\* a failure class exactly while it is failed; a worker and a submission hold what
\* their phase needs.
QueueTypeOK ==
  /\ row \in [Item -> RowState]
  /\ link \in [Cell -> Item \cup {NULL}] /\ result \in [Cell -> Item \cup {NULL}]
  /\ hand \in [Worker -> HandState]
  /\ form \in [User -> FormState]

\* The unique index holds through retries of old rows and enqueues of new ones.
OneActiveRow ==
  \A i, j \in Item :
    CellOf[i] = CellOf[j] /\ row[i].status \in Active /\ row[j].status \in Active => i = j

\* A cell's result is published with the end of one item, and no other item of
\* the cell ever completes, however many rows, attempts and workers it had.
OneAnswer == \A c \in Cell : RowsOf(c, {"completed"}) = {result[c]} \ {NULL}

\* Work whose cancellation was asked for before its publication never publishes,
\* whenever the request came.
CancelledNeverPublishes == \A i \in Item : row[i].status = "completed" => ~row[i].cancel

\* A portfolio cell has no result before its predictive cell has one.
PortfolioAfterSource == \A c \in Cell : result[c] # NULL => result[Source[c]] # NULL

\* While its lease runs, an item is ended or published by the worker that claimed
\* it last, not by one that lost it.
OnlyHolderEnds ==
  [][\A i \in Item :
       row[i].status = "running" /\ row'[i].status \in Ended /\ row[i].lease > 0
         => \E w \in Worker : /\ row[i].owner = w /\ hand[w].item = i
                              /\ hand'[w] # hand[w]]_vars

\* Completed and cancelled rows never change; a failed one only goes back to the
\* queue, when its failure may be retried and attempts are left.
EndsStay ==
  [][\A i \in Item :
       /\ row[i].status \in {"completed", "cancelled"} => row'[i] = row[i]
       /\ row[i].status = "failed" /\ row'[i] # row[i] =>
            row'[i].status = "queued" /\ row[i].failure = Retryable
              /\ row[i].attempts < MaxAttempts]_vars

\* The known ways for an item to wait for ever in the queue: its cancellation was
\* asked for before it was put back, or its predictive cell has no result.
Unclaimable(i) == row[i].status = "queued" /\ (row[i].cancel \/ ~SourceReady(i))

\* In the end every item has ended or is unclaimable, however often workers die,
\* lose leases or fail.
QueueSettles ==
  \A i \in Item : <>[](row[i].status \notin Active \/ Unclaimable(i))

=============================================================================
