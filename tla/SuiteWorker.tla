---------------------------- MODULE SuiteWorker ----------------------------
(***************************************************************************)
(* The processes that drive the Graph Run scheduler.  A suite worker locks *)
(* the oldest suite that is not finished, publishes its raw payloads one by *)
(* one, materializes its processing runs (Stage 1, 2 and 3) in loops of its *)
(* own, plans the suite's run, serves one typed Work Item per call of      *)
(* run_once and, when the run is completed, publishes evidence, ranking    *)
(* and diagnostics one after the other.  Any exception the worker does not *)
(* handle ends the process; somebody starts it again.  Meanwhile users     *)
(* reset the Research Round of a suite.                                    *)
(*                                                                         *)
(* A suite is identified with the run its Suite Runtime Plan writes: one   *)
(* executor version is modelled.                                           *)
(***************************************************************************)
EXTENDS GraphDag, Sequences

CONSTANTS
  Source,     \* Source[s]: the processing runs of suite s's graph and range, one
              \* for each stage that has nodes, in the order they are run
  Context,    \* Context[s]: the calculation context of suite s's raw payloads
  Age,        \* Age[s]: place of suite s in the order of created_at
  Rank,       \* Rank[i]: place of item i in the claim order (priority, created_at)
  NoSuite,    \* no advisory lock is held
  Resettable  \* bound: the suites whose rounds are reset

ASSUME SuiteAssumption ==
  /\ Source \in [SuiteRun -> Seq(Run \ SuiteRun)]
  /\ \A s \in SuiteRun : Source[s] # <<>>
  /\ Context = [s \in SuiteRun |-> Context[s]]
  /\ Age \in [SuiteRun -> Nat] /\ Rank \in [Item -> Nat]
  /\ \A s, t \in SuiteRun : s # t => Age[s] # Age[t]
  /\ \A i, j \in Item : i # j => Rank[i] # Rank[j]
  /\ NoSuite \notin Run /\ Resettable \subseteq SuiteRun

\* Stage n + 1 is planned by the worker that has worked stage n off: a graph and
\* range that share one of their runs are the same.  The typed work of a suite
\* reads outputs of these runs.
ASSUME LayerAssumption ==
  /\ \A s, t \in SuiteRun : \A m \in DOMAIN Source[s], n \in DOMAIN Source[t] :
       Source[s][m] = Source[t][n] => m = n /\ Source[s] = Source[t]
  /\ \A s \in SuiteRun : Needs[s] \ Fenced \subseteq
       UNION {Needs[Source[s][n]] : n \in DOMAIN Source[s]}

VARIABLES
  serving,   \* the suite whose advisory lock a worker's session holds
  stage,     \* where the worker is in run_once
  layer,     \* which of the suite's processing runs it is at
  raw,       \* how many raw payloads of a context are bound: no, some or all
  workedOff, \* the Stage 1 runs whose loop came to its end: every node is bound
  published, \* what is published of every result of the suite
  failing,   \* the last call for the suite broke off, or left a publication out
  open       \* the suite's Research Round is active

workerVars == <<serving, stage, layer, raw, workedOff, published, failing, open>>
suiteVars == <<vars, workerVars>>

Publication == {"evidence", "ranking", "diagnostics"}
Stage == {"idle", "materialize", "raw", "layer", "loop", "plan",
          "claim", "work", "check", "raise"} \cup Publication
Raw == {"none", "partial", "complete"}
Contexts == {Context[s] : s \in SuiteRun}

InitSuites ==
  /\ Init
  /\ serving = [w \in Worker |-> NoSuite]
  /\ stage = [w \in Worker |-> "idle"]
  /\ layer = [w \in Worker |-> 1]
  /\ raw = [k \in Contexts |-> "none"]
  /\ workedOff = {}
  /\ published = [s \in SuiteRun |-> {}]
  /\ failing = [s \in SuiteRun |-> FALSE]
  /\ open = [s \in SuiteRun |-> TRUE]

To(w, next) == stage' = [stage EXCEPT ![w] = next]

\* The worker goes on under its lock.
Proceed(w, next) == To(w, next) /\ UNCHANGED <<serving, layer>>

\* Fault: run_once returns without pg_advisory_unlock.
LeaveLocked(w) == To(w, "idle") /\ UNCHANGED serving /\ layer' = [layer EXCEPT ![w] = 1]

\* run_once ends, or the process does: the advisory lock is released.
Leave(w) ==
  /\ To(w, "idle")
  /\ serving' = [serving EXCEPT ![w] = NoSuite]
  /\ layer' = [layer EXCEPT ![w] = 1]

\* What the suites and their rounds keep in the database beside the scheduler.
suiteRecords == <<raw, workedOff, published, failing, open>>

-----------------------------------------------------------------------------
(* _lock_next_suite, _latest_active_run *)

\* Fault: a run that completed is not looked at again.
CandidateWhileActive(s) ==
  open[s] /\ runStatus[s] \in {"absent"} \cup RunActive

Candidate(s) ==
  /\ open[s]
  /\ \/ runStatus[s] \in {"absent"} \cup RunActive
     \/ runStatus[s] = "completed" /\ published[s] # Publication

Lockable == {s \in SuiteRun : Candidate(s) /\ \A w \in Worker : serving[w] # s}

LockNextSuite(w) ==
  /\ stage[w] = "idle"
  /\ \E s \in Lockable :
       /\ \A t \in Lockable : Age[s] <= Age[t]
       /\ serving' = [serving EXCEPT ![w] = s]
       /\ failing' = [failing EXCEPT ![s] = FALSE]
       /\ To(w, IF runStatus[s] = "absent" THEN "materialize" ELSE "claim")
  /\ UNCHANGED <<vars, layer, raw, workedOff, published, open>>

-----------------------------------------------------------------------------
(* process_suite: materialize_representative_processing, then the plan *)

\* _existing_raw_payload_bundle: none is bound yet, all are, or the set is
\* refused as raw_payload_binding_set_incomplete.
FindRaw(w) ==
  LET found == raw[Context[serving[w]]]
  IN  /\ stage[w] = "materialize"
      /\ CASE found = "none" -> Proceed(w, "raw")
           [] found = "complete" -> Proceed(w, "layer")
           [] found = "partial" -> Leave(w)
      /\ UNCHANGED <<vars, suiteRecords>>

\* Each payload and its binding are an Artifact transaction of their own, here
\* the first one and the others; one that another worker has published is reused.
PublishRaw(w) ==
  LET k == Context[serving[w]]
  IN  /\ stage[w] = "raw"
      /\ raw' = [raw EXCEPT ![k] = IF @ = "none" THEN "partial" ELSE "complete"]
      /\ Proceed(w, IF raw[k] = "none" THEN "raw" ELSE "layer")
      /\ UNCHANGED <<vars, workedOff, published, failing, open>>

\* The processing run the worker is at.
Current(w) == Source[serving[w]][layer[w]]

\* The worker that creates a processing run is the one that works it off.
PlanSource(w) ==
  /\ stage[w] = "layer"
  /\ PlanProcessing(Current(w))
  /\ Proceed(w, "loop")
  /\ UNCHANGED suiteRecords

\* A completed Stage 1 is replayed, and the later stages are taken to be there.
\* Shared nodes may have completed it after its loop broke off: whether the last
\* node was bound by then is left open.
ReplaySource(w) ==
  /\ stage[w] = "layer" /\ layer[w] = 1 /\ runStatus[Current(w)] = "completed"
  /\ Proceed(w, "plan")
  /\ UNCHANGED <<vars, suiteRecords>>

\* representative_processing_replay_incomplete, or a plan_run that is refused.
SourceUnusable(w) ==
  LET p == Current(w)
  IN  /\ stage[w] = "layer"
      /\ \/ runStatus[p] \notin {"absent", "completed"}
         \/ runStatus[p] = "completed" /\ p \notin workedOff
         \/ /\ runStatus[p] = "absent"
            /\ \E i \in Needs[p] : itemStatus[i] \in Dead /\ HasActiveConsumer(i)
      /\ Leave(w)
      /\ UNCHANGED <<vars, suiteRecords>>

\* What v022_claim_graph_work returns: the first claimable item not locked.
Offers(r) == {i \in Item : Claimable(r, i) /\ ~Locked(i)}
First(S) == {i \in S : \A j \in S : Rank[i] <= Rank[j]}

Undone(p) == {i \in Needs[p] : itemStatus[i] \notin Done}

\* Node by node, in order: each must be the very item the claim returns, else
\* representative_graph_work_claim_mismatch leaves the claimed one behind.
LoopClaim(w) ==
  LET p == Current(w)
  IN  /\ stage[w] = "loop" /\ job[w] = NoJob /\ Undone(p) # {}
      /\ \E i \in First(Offers(p)) :
           /\ Claim(w, p, i)
           /\ Proceed(w, IF i \in First(Undone(p)) THEN "loop" ELSE "raise")
      /\ UNCHANGED suiteRecords

LoopRefused(w) ==
  LET p == Current(w)
  IN  /\ stage[w] = "loop" /\ job[w] = NoJob /\ Undone(p) # {} /\ Offers(p) = {}
      /\ Leave(w)
      /\ UNCHANGED <<vars, suiteRecords>>

\* The next stage is planned only now: until then nothing tells of it.
LoopDone(w) ==
  /\ stage[w] = "loop" /\ job[w] = NoJob /\ Undone(Current(w)) = {}
  /\ IF layer[w] = Len(Source[serving[w]])
       THEN Proceed(w, "plan")
       ELSE To(w, "layer") /\ layer' = [layer EXCEPT ![w] = @ + 1] /\ UNCHANGED serving
  /\ workedOff' = workedOff \cup {Source[serving[w]][1]}
  /\ UNCHANGED <<vars, raw, published, failing, open>>

\* The plan is written whatever has become of the round meanwhile.
PlanRuntime(w) ==
  /\ stage[w] = "plan"
  /\ PlanSuite(serving[w])
  /\ Proceed(w, "claim")
  /\ UNCHANGED suiteRecords

\* "Reusable Graph Work identity is not runnable", or a node output the typed
\* work reads is not there (v022_processing_materialization_missing).
PlanRefused(w) ==
  /\ stage[w] = "plan"
  /\ \E i \in Needs[serving[w]] :
       itemStatus[i] \in Dead \/ (i \notin Fenced /\ itemStatus[i] \notin Done)
  /\ Leave(w)
  /\ UNCHANGED <<vars, suiteRecords>>

-----------------------------------------------------------------------------
(* One item of the suite's run *)

ServeClaim(w) ==
  /\ stage[w] = "claim"
  /\ \E i \in First(Offers(serving[w])) : Claim(w, serving[w], i)
  /\ Proceed(w, "work")
  /\ UNCHANGED suiteRecords

\* After the item, or when there is none to claim: a look at the run.
LookAtRun(w) ==
  /\ \/ stage[w] = "check"
     \/ stage[w] = "claim" /\ Offers(serving[w]) = {}
  /\ IF runStatus[serving[w]] = "completed" THEN Proceed(w, "evidence") ELSE Leave(w)
  /\ UNCHANGED <<vars, suiteRecords>>

-----------------------------------------------------------------------------
(* _finalize_completed_suite: three services, each with transactions of its own *)

\* On to the next service, or out of run_once after the last.
NextService(w) ==
  CASE stage[w] = "evidence" -> Proceed(w, "ranking")
    [] stage[w] = "ranking" -> Proceed(w, "diagnostics")
    [] stage[w] = "diagnostics" -> Leave(w)

PublishResults(w) ==
  /\ stage[w] \in Publication /\ (stage[w] = "ranking" => open[serving[w]])
  /\ published' = [published EXCEPT ![serving[w]] = @ \cup {stage[w]}]
  /\ NextService(w)
  /\ UNCHANGED <<vars, raw, workedOff, failing, open>>

\* publish_for_suite raises when the round is not active any more.
RankingRefused(w) ==
  /\ stage[w] = "ranking" /\ ~open[serving[w]]
  /\ Leave(w)
  /\ UNCHANGED <<vars, suiteRecords>>

\* A result that is not accepted becomes no member of the ranking, and a
\* ForwardReturnCalculationError of the diagnostics is suppressed: the service
\* returns normally and the row is not there.
LeaveOut(w) ==
  /\ stage[w] \in {"ranking", "diagnostics"} /\ stage[w] \notin published[serving[w]]
  /\ stage[w] = "ranking" => open[serving[w]]
  /\ failing' = [failing EXCEPT ![serving[w]] = TRUE]
  /\ NextService(w)
  /\ UNCHANGED <<vars, raw, workedOff, published, open>>

-----------------------------------------------------------------------------
(* The work on one item, and the end of a call *)

\* Between claim and finish, in the loop and in run_once alike.
Execute(w) ==
  /\ stage[w] \in {"loop", "work"}
  /\ PublicationRefused(w) \/ Finish(w)
  /\ UNCHANGED workerVars

\* A completed node lets the loop go on; a completed typed item is followed by
\* a look at its run; a failed one ends the loop's process or the call.
Finished(w) ==
  /\ stage[w] \in {"loop", "work"}
  /\ CommitFinish(w)
  /\ IF txn[w].outcome = "completed"
       THEN Proceed(w, IF stage[w] = "loop" THEN "loop" ELSE "check")
       ELSE Leave(w)
  /\ UNCHANGED suiteRecords

\* The failure cannot be recorded either: the exception ends the process.
Rejected(w) ==
  /\ stage[w] \in {"loop", "work"}
  /\ FinishRejected(w) /\ Leave(w)
  /\ UNCHANGED suiteRecords

\* Fault: the item is given back without a look at its fence.
RaiseAndRequeue(w) ==
  /\ stage[w] = "raise" /\ job[w] # NoJob
  /\ itemStatus' = [itemStatus EXCEPT ![job[w].item] = "queued"]
  /\ owner' = [owner EXCEPT ![job[w].item] = NoOwner]
  /\ job' = [job EXCEPT ![w] = NoJob]
  /\ Leave(w)
  /\ UNCHANGED <<runStatus, released, lease, fence, cancelReq, output, txn, sweep, suiteRecords>>

\* An exception run_once does not handle; a claim left behind stays running.
Raise(w) ==
  /\ stage[w] = "raise"
  /\ IF job[w] = NoJob THEN UNCHANGED vars ELSE Crash(w)
  /\ Leave(w)
  /\ UNCHANGED suiteRecords

Misfortune(w) ==
  /\ stage[w] \in {"loop", "work"}
  /\ Renew(w) \/ ExecutionFails(w)
  /\ UNCHANGED workerVars

\* The process dies, or a step raises for a reason this module leaves open: no
\* market rows, a coverage too short, a cohort that cannot be ranked, ...
BreakOff(w) ==
  /\ stage[w] # "idle"
  /\ IF job[w] = NoJob THEN UNCHANGED vars ELSE Crash(w)
  /\ Leave(w)
  /\ failing' = [failing EXCEPT ![serving[w]] = TRUE]
  /\ UNCHANGED <<raw, workedOff, published, open>>

-----------------------------------------------------------------------------
(* GraphDraftService.reset closes the round and releases its active runs *)

ResetRunning(s) ==
  /\ s \in Resettable /\ open[s] /\ runStatus[s] \in RunActive
  /\ BeginRelease(s)
  /\ UNCHANGED workerVars

CommitReset(s) ==
  /\ CommitRelease(s)
  /\ open' = [open EXCEPT ![s] = FALSE]
  /\ UNCHANGED <<serving, stage, layer, raw, workedOff, published, failing>>

RollBackReset(s) == AbortRelease(s) /\ UNCHANGED workerVars

ResetIdle(s) ==
  /\ s \in Resettable /\ open[s] /\ runStatus[s] \notin RunActive
  /\ open' = [open EXCEPT ![s] = FALSE]
  /\ UNCHANGED <<vars, serving, stage, layer, raw, workedOff, published, failing>>

-----------------------------------------------------------------------------
\* What a living worker process does by itself.
Work(w) ==
  \/ LockNextSuite(w) \/ FindRaw(w) \/ PublishRaw(w)
  \/ PlanSource(w) \/ ReplaySource(w) \/ SourceUnusable(w)
  \/ LoopClaim(w) \/ LoopRefused(w) \/ LoopDone(w)
  \/ PlanRuntime(w) \/ PlanRefused(w)
  \/ ServeClaim(w) \/ LookAtRun(w)
  \/ PublishResults(w) \/ RankingRefused(w) \/ LeaveOut(w)
  \/ Execute(w) \/ Finished(w) \/ Rejected(w) \/ Raise(w)

ClockTick(i) == ElapseLease(i) /\ UNCHANGED workerVars

NextSuites ==
  \/ \E w \in Worker : Work(w) \/ Misfortune(w) \/ BreakOff(w)
  \/ \E s \in SuiteRun : \/ ResetRunning(s) \/ CommitReset(s)
                         \/ RollBackReset(s) \/ ResetIdle(s)
  \/ \E i \in Item : ClockTick(i)

SuiteSpec == InitSuites /\ [][NextSuites]_suiteVars

\* Processes are kept running and polling, an execution ends or raises, the
\* clock moves and a transaction ends.  A worker that waits for a row lock is
\* queued for it: resets that come and go do not keep it waiting for ever.
Fairness ==
  /\ \A w \in Worker : SF_suiteVars(Work(w))
  /\ \A i \in Item : WF_suiteVars(ClockTick(i))
  /\ \A s \in SuiteRun : WF_suiteVars(CommitReset(s))

FairSuiteSpec == SuiteSpec /\ Fairness

-----------------------------------------------------------------------------
(* Properties *)

\* The lock and the stage of a worker go together, and it works on nothing but
\* the suite it has locked: an item of the processing run it is at in the loop,
\* an item of the suite's run afterwards.
SuiteTypeOK ==
  /\ serving \in [Worker -> SuiteRun \cup {NoSuite}] /\ stage \in [Worker -> Stage]
  /\ layer \in [Worker -> Nat] /\ raw \in [Contexts -> Raw]
  /\ workedOff \subseteq Run /\ published \in [SuiteRun -> SUBSET Publication]
  /\ failing \in [SuiteRun -> BOOLEAN] /\ open \in [SuiteRun -> BOOLEAN]
  /\ \A w \in Worker :
       /\ stage[w] = "idle" <=> serving[w] = NoSuite
       /\ IF serving[w] = NoSuite THEN layer[w] = 1 ELSE layer[w] \in DOMAIN Source[serving[w]]
       /\ job[w] # NoJob =>
            \/ stage[w] \in {"loop", "raise"} /\ job[w].run = Current(w)
            \/ stage[w] = "work" /\ job[w].run = serving[w]

\* Workers use the scheduler only as its module describes: every step is one of
\* GraphDag or leaves the scheduler alone, so what holds there holds here.
ImplementsGraphDag == Spec

\* A suite has come to its end: its results are published, it failed, it was
\* cancelled or its round was closed.
Settled(s) ==
  \/ ~open[s]
  \/ runStatus[s] \in {"failed", "cancelled"}
  \/ runStatus[s] = "completed" /\ published[s] = Publication

\* A worker is publishing the raw payloads of s or working off its source.
SourceAttended(s) ==
  \E w \in Worker : serving[w] # NoSuite /\
    \/ stage[w] = "raw" /\ Context[serving[w]] = Context[s]
    \/ stage[w] \in {"layer", "loop"} /\ Source[serving[w]] = Source[s]

\* The known ways for a suite to stand still.  What a worker leaves half done
\* before the plan is not taken up again: some of the raw payloads, a processing
\* run that has not completed, or a completed Stage 1 whose nodes are not all bound
\* or whose later stages are missing.
SourceStranded(s) ==
  LET p == Source[s][1]
  IN  /\ runStatus[s] = "absent" /\ ~SourceAttended(s)
      /\ \/ raw[Context[s]] = "partial"
         \/ runStatus[p] \notin {"absent", "completed"}
         \/ /\ runStatus[p] = "completed"
            /\ p \notin workedOff \/ \E i \in Needs[s] \ Fenced : itemStatus[i] \notin Done
PlanImpossible(s) ==
  runStatus[s] = "absent" /\ \E i \in Needs[s] : itemStatus[i] \in Dead
RunStuck(s) ==
  /\ runStatus[s] \in RunActive
  /\ \/ \A i \in Needs[s] : itemStatus[i] \in Done
     \/ \E i \in Needs[s] : \/ itemStatus[i] = "cancelled"
                            \/ itemStatus[i] = "running" /\ cancelReq[i]
ClaimsUsedUp(s) ==
  \E i \in UNION {Needs[r] : r \in {s} \cup {Source[s][n] : n \in DOMAIN Source[s]}} :
    fence[i] = MaxFence /\ itemStatus[i] \notin Done

\* failing[s] is taken back by the next call for s: what breaks off now and then
\* is no obstacle.
Obstacle(s) ==
  /\ open[s]
  /\ SourceStranded(s) \/ PlanImpossible(s) \/ RunStuck(s) \/ ClaimsUsedUp(s) \/ failing[s]

\* Every suite of an open round ends, through deaths and exceptions at any step,
\* lost leases, resets of other rounds and the failure of shared work, unless it
\* or an older suite (which the workers lock first) stands still for a known
\* reason or its calls break off again and again.
SuiteSettles ==
  \A s \in SuiteRun :
    []<>(Settled(s) \/ \E t \in SuiteRun : Age[t] <= Age[s] /\ Obstacle(t))

=============================================================================
