------------------------------ MODULE GraphDag ------------------------------
(***************************************************************************)
(* The v0.22 Graph Run scheduler: content-addressed Work Items shared by   *)
(* Graph Runs, leased to workers under a fencing token, finished by a      *)
(* PL/pgSQL transaction that closes runs and propagates failure.           *)
(*                                                                         *)
(* Every database function is one action, except the two that decide on    *)
(* rows they do not lock, under READ COMMITTED: v022_finish_graph_work     *)
(* reads the items of a run, v022_release_graph_run the consumers of an    *)
(* item.  Each is split where it reads (Begin...) and where its writes     *)
(* become visible (Commit...); in between it holds the row locks of what   *)
(* it has written.                                                         *)
(*                                                                         *)
(* An operator whose comment begins with Fault is the operator below it    *)
(* with a plausible bug; it is used only to see a property fail.           *)
(***************************************************************************)
EXTENDS Integers

CONSTANTS
  Run,        \* Graph Run identities (run_fingerprint)
  Item,       \* Work Item identities (execution_fingerprint)
  Worker,     \* worker processes
  NoOwner,    \* lease_owner IS NULL
  PipelineKey,\* the worker_key (executor_version) every processing loop uses
  SuiteKey,   \* SuiteKey[w]: the --worker-id of w, "v022-suite-worker" by default
  Needs,      \* Needs[r]: the Work Items Run r consumes
  Requires,   \* Requires[i]: the required upstream Work Items of i
  Fenced,     \* items whose completion is a fenced publication of an output
  SuiteRun,   \* runs written by a Suite Runtime Plan (the others: plan_run)
  MaxFence,   \* bound: how often one item may be claimed
  LeaseTicks  \* bound: clock ticks a fresh lease lasts

ASSUME OwnerAssumption ==
  /\ SuiteKey = [w \in Worker |-> SuiteKey[w]]
  /\ NoOwner # PipelineKey
  /\ \A w \in Worker : SuiteKey[w] # NoOwner

\* mark_ready refuses a run whose required upstream is not consumed by it.
ASSUME NeedsAssumption ==
  /\ Needs \in [Run -> SUBSET Item]
  /\ Requires \in [Item -> SUBSET Item]
  /\ \A r \in Run : \A i \in Needs[r] : Requires[i] \subseteq Needs[r]

\* mark_ready refuses a run whose dependencies have a cycle: among any items of a
\* run there is one that requires none of the others.
ASSUME AcyclicAssumption ==
  \A r \in Run : \A S \in SUBSET Needs[r] : S # {} => \E i \in S : Requires[i] \cap S = {}

\* mark_ready refuses typed work in a run without a Suite Runtime Plan.
ASSUME KindAssumption ==
  /\ Fenced \subseteq Item /\ SuiteRun \subseteq Run
  /\ \A r \in Run \ SuiteRun : Needs[r] \cap Fenced = {}

ASSUME BoundAssumption == MaxFence \in Nat \ {0} /\ LeaseTicks \in Nat \ {0}

VARIABLES
  runStatus,   \* v022_graph_run.status; "absent" before the row exists
  released,    \* the run's consumers carry released_at
  itemStatus,  \* v022_graph_work_item.status; "absent" before the row exists
  owner,       \* lease_owner
  lease,       \* clock ticks until lease_expires_at; 0 = expired or no lease
  fence,       \* fencing_token
  cancelReq,   \* cancel_requested_at IS NOT NULL
  output,      \* fence of the published output of a fenced item, 0 = none
  job,         \* what each worker holds in memory: its claim and how far it is
  txn,         \* the uncommitted v022_finish_graph_work of each worker
  sweep        \* the uncommitted v022_release_graph_run of each run: the runs
               \* (r among them) whose consumers it has seen unreleased

itemVars == <<itemStatus, owner, lease, fence, cancelReq, output>>
vars == <<runStatus, released, itemStatus, owner, lease, fence, cancelReq,
          output, job, txn, sweep>>

-----------------------------------------------------------------------------
(* Statuses. planning exists only inside the planning transaction, and no  *)
(* caller finishes work as cancelled, so blocked_upstream_cancelled is     *)
(* never written.                                                          *)
RunActive == {"ready", "running"}
RunTerminal == {"completed", "failed", "cancelled"}
RunState == {"absent"} \cup RunActive \cup RunTerminal

Done == {"completed", "reused"}
Broken == {"failed", "blocked_upstream_failed"}
Dead == Broken \cup {"cancelled"}
ItemState == {"absent", "queued", "running"} \cup Done \cup Dead

Owner == {NoOwner, PipelineKey} \cup {SuiteKey[w] : w \in Worker}

NoJob == [phase |-> "idle"]
Phase == {"executing", "refused", "erred"}
Claims == [phase : Phase, run : Run, item : Item, fence : 1..MaxFence]

Verdict == {"none"} \cup RunTerminal
NoTxn == [outcome |-> "none"]
Finishes == [outcome : {"completed", "failed"}, blocked : SUBSET Item,
             verdict : [Run -> Verdict]]

\* Fault: only the direct downstream items are blocked.
AffectedDirectly(i) == {j \in Item : i \in Requires[j]}

\* Every item reachable from i along required edges (the WITH RECURSIVE of
\* v022_finish_graph_work): the least set closed under "requires".
ClosedBelow(i, S) ==
  \A j \in Item : (i \in Requires[j] \/ Requires[j] \cap S # {}) => j \in S
Affected(i) == {j \in Item : \A S \in SUBSET Item : ClosedBelow(i, S) => j \in S}

\* Rows an uncommitted finish has written, hence locked.
Locked(i) == \E v \in Worker : txn[v] # NoTxn /\ (job[v].item = i \/ i \in txn[v].blocked)

RunLocked(r) ==
  \/ \E v \in Worker : txn[v] # NoTxn /\ txn[v].verdict[r] # "none"
  \/ sweep[r] # {}

Init ==
  /\ runStatus = [r \in Run |-> "absent"]
  /\ released = [r \in Run |-> FALSE]
  /\ itemStatus = [i \in Item |-> "absent"]
  /\ owner = [i \in Item |-> NoOwner]
  /\ lease = [i \in Item |-> 0]
  /\ fence = [i \in Item |-> 0]
  /\ cancelReq = [i \in Item |-> FALSE]
  /\ output = [i \in Item |-> 0]
  /\ job = [w \in Worker |-> NoJob]
  /\ txn = [w \in Worker |-> NoTxn]
  /\ sweep = [r \in Run |-> {}]

-----------------------------------------------------------------------------
(* Planning: one transaction writes the run, its items, its consumers and  *)
(* marks it ready (or completed when every item is already done).          *)

\* Fault: a run that finds all its results is left to the workers.
RunAlwaysReady(r) == "ready"

RunAfterPlanning(r) ==
  IF \A i \in Needs[r] : itemStatus'[i] \in Done THEN "completed" ELSE "ready"

HasActiveConsumer(i) ==
  \E q \in Run : i \in Needs[q] /\ ~released[q] /\ runStatus[q] \in RunActive

Replanned(status) ==
  IF status \in Dead \cup {"absent"} THEN "queued"
  ELSE IF status = "completed" THEN "reused" ELSE status

\* Fault: a request to cancel outlives the work it was made for.
RequestKept(i, r) == cancelReq[i]

\* The plan of r clears the request of a dead item.
RequestAfter(i, r) == cancelReq[i] /\ ~(i \in Needs[r] /\ itemStatus[i] \in Dead)

\* GraphDagService.plan_run: a dead item that no active run consumes any more
\* is queued again; a completed one is marked reused.
PlanProcessing(r) ==
  /\ r \notin SuiteRun /\ runStatus[r] = "absent"
  /\ \A i \in Needs[r] : ~Locked(i)
  /\ \A i \in Needs[r] : itemStatus[i] \in Dead => ~HasActiveConsumer(i)
  /\ itemStatus' = [i \in Item |->
       IF i \in Needs[r] THEN Replanned(itemStatus[i]) ELSE itemStatus[i]]
  /\ cancelReq' = [i \in Item |-> RequestAfter(i, r)]
  /\ runStatus' = [runStatus EXCEPT ![r] = RunAfterPlanning(r)]
  /\ UNCHANGED <<released, owner, lease, fence, output, job, txn, sweep>>

\* _write_graph_work: a Suite Runtime Plan binds materialized Processing Work
\* and accepts typed work that is queued, running or done, never dead work.
PlanSuite(r) ==
  /\ r \in SuiteRun /\ runStatus[r] = "absent"
  /\ \A i \in Needs[r] : ~Locked(i)
  /\ \A i \in Needs[r] \ Fenced : itemStatus[i] \in Done
  /\ \A i \in Needs[r] : itemStatus[i] \notin Dead
  /\ itemStatus' = [i \in Item |->
       IF i \in Needs[r] /\ itemStatus[i] = "absent" THEN "queued" ELSE itemStatus[i]]
  /\ runStatus' = [runStatus EXCEPT ![r] = RunAfterPlanning(r)]
  /\ UNCHANGED <<released, owner, lease, fence, cancelReq, output, job, txn, sweep>>

-----------------------------------------------------------------------------
(* Leases *)

\* A consumer row of r that v022_claim_graph_work may serve.
Serves(r, i) == i \in Needs[r] /\ ~released[r] /\ runStatus[r] \in RunActive

\* Fault: upstream results are not waited for.
ClaimableEarly(r, i) ==
  /\ Serves(r, i) /\ ~cancelReq[i]
  /\ itemStatus[i] = "queued" \/ (itemStatus[i] = "running" /\ lease[i] = 0)

Claimable(r, i) ==
  /\ Serves(r, i) /\ ~cancelReq[i]
  /\ itemStatus[i] = "queued" \/ (itemStatus[i] = "running" /\ lease[i] = 0)
  /\ \A u \in Requires[i] : itemStatus[u] \in Done

\* No key tells two claims apart: processing loops share one, and so do suite
\* workers unless each is started with a --worker-id of its own.
KeyOf(w, i) == IF i \in Fenced THEN SuiteKey[w] ELSE PipelineKey

\* v022_claim_graph_work.  SKIP LOCKED passes over locked items; the update of
\* a ready run waits for a finish that has written that run.  The order of
\* candidates (priority, age) is left open, and so is who serves a run: the
\* suite's advisory lock belongs to a session its worker can lose and outlive.
Claim(w, r, i) ==
  /\ job[w] = NoJob
  /\ Claimable(r, i) /\ ~Locked(i)
  /\ runStatus[r] = "ready" => ~RunLocked(r)
  /\ fence[i] < MaxFence
  /\ itemStatus' = [itemStatus EXCEPT ![i] = "running"]
  /\ owner' = [owner EXCEPT ![i] = KeyOf(w, i)]
  /\ lease' = [lease EXCEPT ![i] = LeaseTicks]
  /\ fence' = [fence EXCEPT ![i] = @ + 1]
  /\ runStatus' = [runStatus EXCEPT ![r] = "running"]
  /\ job' = [job EXCEPT ![w] =
       [phase |-> "executing", run |-> r, item |-> i, fence |-> fence[i] + 1]]
  /\ UNCHANGED <<released, cancelReq, output, txn, sweep>>

\* Fault: the fencing token is not compared.
HoldsByKey(w) ==
  LET i == job[w].item
  IN  /\ job[w] # NoJob
      /\ itemStatus[i] = "running" /\ owner[i] = KeyOf(w, i) /\ lease[i] > 0

\* The claim of w is the item's current one and its lease has not expired.
HoldsLease(w) ==
  LET i == job[w].item
  IN  /\ job[w] # NoJob
      /\ itemStatus[i] = "running" /\ owner[i] = KeyOf(w, i)
      /\ fence[i] = job[w].fence /\ lease[i] > 0

\* GraphDagService.renew, from the heartbeat thread.  A refused renewal only
\* stops that thread.
Renew(w) ==
  /\ HoldsLease(w) /\ txn[w] = NoTxn /\ job[w].phase = "executing"
  /\ ~cancelReq[job[w].item]
  /\ lease' = [lease EXCEPT ![job[w].item] = LeaseTicks]
  /\ UNCHANGED <<runStatus, released, itemStatus, owner, fence, cancelReq, output, job, txn, sweep>>

\* now() moves on.  (The lease of a row being finished was already checked.)
ElapseLease(i) ==
  /\ itemStatus[i] = "running" /\ lease[i] > 0 /\ ~Locked(i)
  /\ lease' = [lease EXCEPT ![i] = @ - 1]
  /\ UNCHANGED <<runStatus, released, itemStatus, owner, fence, cancelReq, output, job, txn, sweep>>

-----------------------------------------------------------------------------
(* Execution and finish *)

\* _lock_active_claim: the fence of a typed or aggregation output also demands
\* that the run it was claimed through still consumes it and is running.
\* Processing nodes finish under v022_finish_graph_work's own checks alone.
MayComplete(w) ==
  /\ HoldsLease(w) /\ ~cancelReq[job[w].item]
  /\ job[w].item \in Fenced =>
       ~released[job[w].run] /\ runStatus[job[w].run] = "running"

\* The executor raises (data gap, contract error, lost heartbeat).
ExecutionFails(w) ==
  /\ job[w] # NoJob /\ job[w].phase = "executing" /\ txn[w] = NoTxn
  /\ job' = [job EXCEPT ![w].phase = "erred"]
  /\ UNCHANGED <<runStatus, released, itemVars, txn, sweep>>

\* The result is ready but its publication is refused: an exception as well.
PublicationRefused(w) ==
  /\ job[w] # NoJob /\ job[w].phase = "executing" /\ txn[w] = NoTxn
  /\ ~MayComplete(w)
  /\ job' = [job EXCEPT ![w].phase = "refused"]
  /\ UNCHANGED <<runStatus, released, itemVars, txn, sweep>>

\* What the finish of i leaves in item j, seen by its own later statements.
AfterFinish(i, outcome, blocked, j) ==
  IF j = i THEN outcome
  ELSE IF j \in blocked THEN "blocked_upstream_failed" ELSE itemStatus[j]

\* Fault: the dead items of every run are looked at.
DeadAnywhere(i, outcome, blocked, r) ==
  {j \in Item : AfterFinish(i, outcome, blocked, j) \in Dead}

DeadAfter(i, outcome, blocked, r) ==
  {j \in Needs[r] : AfterFinish(i, outcome, blocked, j) \in Dead}

\* Fault: a run is left open only for queued items.
QueuedAfter(i, outcome, blocked, r) ==
  {j \in Needs[r] : AfterFinish(i, outcome, blocked, j) = "queued"}

LeftAfter(i, outcome, blocked, r) ==
  {j \in Needs[r] : AfterFinish(i, outcome, blocked, j) \notin Done}

\* Fault: a run that has claimed nothing itself is not closed.
ClosableOnceStarted(r) == runStatus[r] = "running"

Closable(r) == runStatus[r] \in RunActive

\* The status the finish of i would give run r: SELECT ... LIMIT 1 picks any
\* dead item, otherwise the run completes when no item is left.
RunVerdicts(i, outcome, blocked, r) ==
  LET dead == DeadAfter(i, outcome, blocked, r)
  IN  IF i \notin Needs[r] \/ ~Closable(r) THEN {"none"}
      ELSE IF dead # {}
        THEN {IF AfterFinish(i, outcome, blocked, j) = "cancelled"
              THEN "cancelled" ELSE "failed" : j \in dead}
      ELSE IF LeftAfter(i, outcome, blocked, r) = {} THEN {"completed"}
      ELSE {"none"}

\* The statements of v022_finish_graph_work, up to its commit.
BeginFinish(w, outcome) ==
  /\ txn[w] = NoTxn /\ HoldsLease(w) /\ ~Locked(job[w].item)
  /\ IF outcome = "completed" THEN job[w].phase = "executing" /\ MayComplete(w)
                              ELSE job[w].phase # "executing"
  /\ LET i == job[w].item
         blocked == IF outcome = "completed" THEN {}
                    ELSE {j \in Affected(i) : itemStatus[j] = "queued"}
         verdicts == UNION {RunVerdicts(i, outcome, blocked, r) : r \in Run}
     IN  /\ \A j \in blocked : ~Locked(j)
         /\ \E verdict \in [Run -> verdicts] :
              /\ \A r \in Run : /\ verdict[r] \in RunVerdicts(i, outcome, blocked, r)
                                /\ verdict[r] # "none" => ~RunLocked(r)
              /\ txn' = [txn EXCEPT ![w] =
                   [outcome |-> outcome, blocked |-> blocked, verdict |-> verdict]]
  /\ UNCHANGED <<runStatus, released, itemVars, job, sweep>>

\* The commit: the terminal item, the output published with it, the blocked
\* descendants and the closed runs become visible together.
CommitFinish(w) ==
  /\ txn[w] # NoTxn
  /\ LET i == job[w].item
         t == txn[w]
     IN  /\ itemStatus' = [j \in Item |-> AfterFinish(i, t.outcome, t.blocked, j)]
         /\ owner' = [owner EXCEPT ![i] = NoOwner]
         /\ lease' = [lease EXCEPT ![i] = 0]
         /\ output' = [output EXCEPT ![i] =
              IF t.outcome = "completed" /\ i \in Fenced THEN job[w].fence ELSE @]
         /\ runStatus' = [r \in Run |->
              IF t.verdict[r] # "none" /\ Closable(r) THEN t.verdict[r] ELSE runStatus[r]]
  /\ job' = [job EXCEPT ![w] = NoJob]
  /\ txn' = [txn EXCEPT ![w] = NoTxn]
  /\ UNCHANGED <<released, fence, cancelReq, sweep>>

\* Recording the failure raises "stale or invalid graph work fencing token".
FinishRejected(w) ==
  /\ job[w] # NoJob /\ job[w].phase # "executing" /\ txn[w] = NoTxn
  /\ ~HoldsLease(w)
  /\ job' = [job EXCEPT ![w] = NoJob]
  /\ UNCHANGED <<runStatus, released, itemVars, txn, sweep>>

\* The process dies; the database rolls its open transaction back.
Crash(w) ==
  /\ job[w] # NoJob
  /\ job' = [job EXCEPT ![w] = NoJob]
  /\ txn' = [txn EXCEPT ![w] = NoTxn]
  /\ UNCHANGED <<runStatus, released, itemVars, sweep>>

-----------------------------------------------------------------------------
(* Release: cancel_run of an obsolete run, or the reset of a Research Round *)

\* Fault: the consumers of a run that has not started are not seen.
SeenStarted(r) ==
  {r} \cup {q \in Run : runStatus[q] \notin {"absent", "ready"} /\ ~released[q]}

\* Consumers not released, the run's own included.  Those of a failed or
\* completed run were never released and still count.
Seen(r) == {r} \cup {q \in Run : runStatus[q] # "absent" /\ ~released[q]}

\* Work that loses its last unreleased consumer with r, as far as r has seen.
Orphaned(r) == {i \in Needs[r] : \A q \in sweep[r] \ {r} : i \notin Needs[q]}

\* Fault: a release cancels a run that has already ended.
RunAfterAnyRelease(r) == "cancelled"

RunAfterRelease(r) == IF runStatus[r] \in RunActive THEN "cancelled" ELSE runStatus[r]

\* The run and its consumers are written, the consumers of its items read.
BeginRelease(r) ==
  /\ runStatus[r] # "absent" /\ ~released[r] /\ ~RunLocked(r)
  /\ sweep' = [sweep EXCEPT ![r] = Seen(r)]
  /\ UNCHANGED <<runStatus, released, itemVars, job, txn>>

\* The orphaned items are written and finalize_released_graph_run closes the
\* run.  An item locked meanwhile by a plan or a finish is waited for; its
\* status is then looked at again, its consumers are not: the plan has locked
\* the row without changing it.
CommitRelease(r) ==
  /\ sweep[r] # {}
  /\ \A i \in Orphaned(r) : ~Locked(i)
  /\ released' = [released EXCEPT ![r] = TRUE]
  /\ runStatus' = [runStatus EXCEPT ![r] = RunAfterRelease(r)]
  /\ itemStatus' = [i \in Item |->
       IF i \in Orphaned(r) /\ itemStatus[i] = "queued" THEN "cancelled" ELSE itemStatus[i]]
  /\ cancelReq' = [i \in Item |->
       cancelReq[i] \/ (i \in Orphaned(r) /\ itemStatus[i] \in {"queued", "running"})]
  /\ sweep' = [sweep EXCEPT ![r] = {}]
  /\ UNCHANGED <<owner, lease, fence, output, job, txn>>

\* The transaction of a reset or a cancel_run is rolled back.
AbortRelease(r) ==
  /\ sweep[r] # {}
  /\ sweep' = [sweep EXCEPT ![r] = {}]
  /\ UNCHANGED <<runStatus, released, itemVars, job, txn>>

-----------------------------------------------------------------------------
Plan(r) == PlanProcessing(r) \/ PlanSuite(r)
ClaimSome(w) == \E r \in Run, i \in Item : Claim(w, r, i)
Release(r) == BeginRelease(r) \/ CommitRelease(r) \/ AbortRelease(r)
Finish(w) == \E outcome \in {"completed", "failed"} : BeginFinish(w, outcome)

Next ==
  \/ \E r \in Run : Plan(r) \/ Release(r)
  \/ \E w \in Worker : \/ ClaimSome(w) \/ Renew(w)
                       \/ ExecutionFails(w) \/ PublicationRefused(w)
                       \/ Finish(w) \/ CommitFinish(w)
                       \/ FinishRejected(w) \/ Crash(w)
  \/ \E i \in Item : ElapseLease(i)

Spec == Init /\ [][Next]_vars

-----------------------------------------------------------------------------
(* Safety *)

Types ==
  /\ runStatus \in [Run -> RunState]
  /\ released \in [Run -> BOOLEAN]
  /\ itemStatus \in [Item -> ItemState]
  /\ owner \in [Item -> Owner]
  /\ lease \in [Item -> 0..LeaseTicks]
  /\ fence \in [Item -> 0..MaxFence]
  /\ cancelReq \in [Item -> BOOLEAN]
  /\ output \in [Item -> 0..MaxFence]
  /\ job \in [Worker -> {NoJob} \cup Claims]
  /\ txn \in [Worker -> {NoTxn} \cup Finishes]
  /\ sweep \in [Run -> SUBSET Run]

\* The CHECK of v022_graph_work_item.
LeaseColumns == \A i \in Item : itemStatus[i] = "running" <=> owner[i] # NoOwner

\* Every variable has its type, and no statement runs into the CHECK that ties
\* the lease columns of an item to its status.
TypeOK == Types /\ LeaseColumns

\* An item runs, and is done, only over completed upstream results, however
\* runs that share it are planned, failed and released around it.
UpstreamsDone ==
  \A i \in Item : itemStatus[i] \in {"running"} \cup Done =>
    \A u \in Requires[i] : itemStatus[u] \in Done

\* Failure reaches everything below it: no queued item waits for an upstream
\* that failed or was blocked (it could never be claimed), whichever run the
\* two were planned by.
NoQueuedBehindFailure ==
  \A i \in Item : itemStatus[i] = "queued" =>
    \A u \in Requires[i] : itemStatus[u] \notin Broken

\* A run that is still active was not passed over by a failure: none of its
\* items is broken, although other runs plan, fail and release what they share.
ActiveRunIsViable ==
  \A r \in Run : runStatus[r] \in RunActive =>
    \A i \in Needs[r] : itemStatus[i] \notin Broken

\* Nobody waits for everybody: an active run has an item in a live lease, or one
\* that the next claim may take, unless a cancellation reached an item it shares
\* or its completion was lost (all its items are done).
ActiveRunGoesOn ==
  \A r \in Run : runStatus[r] \in RunActive =>
    \/ \A i \in Needs[r] : itemStatus[i] \in Done
    \/ \E i \in Needs[r] : itemStatus[i] = "cancelled" \/ (itemStatus[i] = "running" /\ cancelReq[i])
    \/ \E i \in Needs[r] : Claimable(r, i) \/ (itemStatus[i] = "running" /\ lease[i] > 0)

\* A completed run has all its results, and no later plan takes one away.
CompletedRunIsDone ==
  \A r \in Run : runStatus[r] = "completed" => \A i \in Needs[r] : itemStatus[i] \in Done

\* A fenced item is done exactly when an output is published for it, by the
\* latest claim: no worker that lost its lease publishes over its successor.
OnePublication ==
  \A i \in Fenced : /\ output[i] # 0 <=> itemStatus[i] \in Done
                    /\ output[i] \in {0, fence[i]}

\* What an uncommitted finish of w relies on: its claim is current, and the
\* items it blocks still wait.
TxnCurrent(w) ==
  HoldsLease(w) /\ \A j \in txn[w].blocked : itemStatus[j] = "queued"

-----------------------------------------------------------------------------
(* Action properties *)

\* A result that exists is never lost: done items stay done, and the output
\* published for one is never replaced.
ResultsStay ==
  [][\A i \in Item : itemStatus[i] \in Done =>
       itemStatus'[i] \in Done /\ output'[i] = output[i]]_vars

\* Only the latest claim of an item ends it, and only within its lease: a worker
\* that was taken for dead changes nothing when it comes back, even under the
\* key all processing loops share.
OnlyLatestClaimEnds ==
  [][\A i \in Item : itemStatus[i] = "running" /\ itemStatus'[i] # "running" =>
       \E w \in Worker : /\ job[w] # NoJob /\ job'[w] = NoJob
                         /\ job[w].item = i /\ job[w].fence = fence[i] /\ lease[i] > 0]_vars

\* A terminal run never changes again: the finish of shared work, a late claim
\* or a release do not reopen or relabel it.
TerminalRunStays ==
  [][\A r \in Run : runStatus[r] \in RunTerminal => runStatus'[r] = runStatus[r]]_vars

\* A run ends badly for a reason of its own: it fails only when an item it
\* needs is broken, and is cancelled only by its release or by a cancelled item.
BadEndHasCause ==
  [][\A r \in Run : runStatus'[r] # runStatus[r] =>
       /\ runStatus'[r] = "failed" => \E i \in Needs[r] : itemStatus'[i] \in Broken
       /\ runStatus'[r] = "cancelled" =>
            released'[r] \/ \E i \in Needs[r] : itemStatus'[i] = "cancelled"]_vars

\* The work another live run consumes is not cancelled with a run (cancel_run:
\* "without cancelling Work shared by another live consumer"): a release knows
\* every run live at its start, and what it cancels none of them needs.  A run
\* planned while the release is under way is not safe: it is not in the sweep.
CancelSparesSeenWork ==
  [][/\ \A r, q \in Run : sweep'[r] # sweep[r] /\ sweep'[r] # {} /\ runStatus[q] \in RunActive
          => q \in sweep'[r]
     /\ \A i \in Item, q \in Run :
          /\ (~cancelReq[i] /\ cancelReq'[i]) \/ (itemStatus[i] # "cancelled" /\ itemStatus'[i] = "cancelled")
          /\ i \in Needs[q] /\ runStatus'[q] \in RunActive
          => \E r \in Run : sweep[r] # {} /\ sweep'[r] = {} /\ q \notin sweep[r]]_vars

-----------------------------------------------------------------------------
(* What the documents say and the code does not do *)

\* "The Graph Run enters its terminal state with its work": a run whose items
\* are all done is not left active.
CompletionReachesRun ==
  \A r \in Run : runStatus[r] \in RunActive => \E i \in Needs[r] : itemStatus[i] \notin Done

=============================================================================
