----------------------- MODULE GraphDagContractProofs -----------------------
(***************************************************************************)
(* How failure travels in GraphDag, and that the scheduler keeps what      *)
(* GraphRunContract promises, for all runs, items, dependencies and        *)
(* workers.                                                                *)
(*                                                                         *)
(* A failing finish decides which items it blocks and which runs it closes *)
(* before its commit.  TxnReaches says that the decision still covers      *)
(* everything at the commit: no item below it was queued meanwhile, and no *)
(* run that needs it became active, because either takes a plan, and a     *)
(* plan of anything below the failing item needs the item's row, which the *)
(* finish has locked.                                                      *)
(***************************************************************************)
EXTENDS GraphDagContract, GraphDagProofs

\* A released run is over, and only a run that exists is being released.
ReleaseSound ==
  \A r \in Run : /\ released[r] => runStatus[r] \in RunTerminal
                 /\ sweep[r] # {} => runStatus[r] # "absent"

\* What the uncommitted finish of w has decided reaches all it concerns.
TxnReaches(w) ==
  LET i == job[w].item
      t == txn[w]
  IN  /\ t.outcome = "completed" => t.blocked = {}
      /\ t.blocked \subseteq Affected(i)
      /\ t.outcome = "failed" =>
           \A j \in Affected(i) : itemStatus[j] = "queued" => j \in t.blocked
      /\ \A r \in Run :
           /\ t.verdict[r] # "none" => i \in Needs[r]
           /\ runStatus[r] \in RunActive =>
                /\ t.verdict[r] = "failed" => t.outcome = "failed"
                /\ t.verdict[r] = "cancelled" => \E j \in Needs[r] : itemStatus[j] = "cancelled"
                /\ t.outcome = "failed" /\ i \in Needs[r] => t.verdict[r] \in {"failed", "cancelled"}

TxnsReach == \A w \in Worker : txn[w] # NoTxn => TxnReaches(w)

FailureInv == ReleaseSound /\ ActiveRunIsViable /\ NoQueuedBehindFailure /\ TxnsReach

-----------------------------------------------------------------------------
(* What is below an item *)

\* Whoever requires an affected item is affected.
LEMMA AffectedClosed ==
  ASSUME NEW i \in Item, NEW j \in Item,
         i \in Requires[j] \/ Requires[j] \cap Affected(i) # {}
  PROVE  j \in Affected(i)
<1> SUFFICES ASSUME NEW S \in SUBSET Item, ClosedBelow(i, S)
             PROVE  j \in S
  BY DEF Affected
<1>1. Affected(i) \subseteq S
  BY DEF Affected
<1> QED BY <1>1 DEF ClosedBelow

\* A run that needs an affected item needs the item itself.
LEMMA AffectedNeeds ==
  ASSUME NEW i \in Item, NEW r \in Run, NEW j \in Affected(i), j \in Needs[r]
  PROVE  i \in Needs[r]
<1> DEFINE S == {k \in Item : k \in Needs[r] => i \in Needs[r]}
<1>1. ClosedBelow(i, S)
  BY NeedsAssumption DEF ClosedBelow
<1>2. j \in S
  BY <1>1 DEF Affected
<1> QED BY <1>2

-----------------------------------------------------------------------------
(* Steps of items and runs *)

\* Only the plan of a run that needs it puts an item into the queue.
LEMMA QueuedStep ==
  ASSUME Inv, [Next]_vars, NEW i \in Item, itemStatus'[i] = "queued", itemStatus[i] # "queued"
  PROVE  \E r \in Run : i \in Needs[r] /\ Plan(r)
<1>0. Next
  BY DEF vars
<1>1. CASE \E r \in Run : Plan(r)
  BY <1>1 DEF Plan, PlanProcessing, PlanSuite
<1>2. CASE \E w \in Worker, r \in Run, j \in Item : Claim(w, r, j)
  BY <1>2 DEF Claim, Inv, Types
<1>3. CASE \E w \in Worker : CommitFinish(w)
  BY <1>3, CommitItems
<1>4. CASE \E r \in Run : CommitRelease(r)
  BY <1>4 DEF CommitRelease
<1> QED BY <1>0, <1>1, <1>2, <1>3, <1>4, StatusSteps

\* Only a failing finish breaks items: its own and those it blocks.
LEMMA BrokenStep ==
  ASSUME Inv, [Next]_vars, NEW i \in Item, itemStatus'[i] \in Broken, itemStatus[i] \notin Broken
  PROVE  \E w \in Worker :
           /\ CommitFinish(w)
           /\ \/ i = job[w].item /\ txn[w].outcome = "failed"
              \/ i \in txn[w].blocked
<1>0. Next
  BY DEF vars
<1>1. CASE \E r \in Run : Plan(r)
  BY <1>1 DEF Plan, PlanProcessing, PlanSuite, Replanned, Broken, Dead, Done
<1>2. CASE \E w \in Worker, r \in Run, j \in Item : Claim(w, r, j)
  BY <1>2 DEF Claim, Inv, Types, Broken
<1>3. CASE \E w \in Worker : CommitFinish(w)
  BY <1>3, CommitItems DEF Broken
<1>4. CASE \E r \in Run : CommitRelease(r)
  BY <1>4 DEF CommitRelease, Broken
<1> QED BY <1>0, <1>1, <1>2, <1>3, <1>4, StatusSteps

\* A cancelled item that an active run consumes stays cancelled.
LEMMA CancelledStep ==
  ASSUME Inv, ReleaseSound, [Next]_vars, NEW r \in Run, runStatus[r] \in RunActive,
         NEW i \in Needs[r], itemStatus[i] = "cancelled"
  PROVE  itemStatus'[i] = "cancelled"
<1>0. i \in Item /\ HasActiveConsumer(i)
  BY NeedsAssumption DEF HasActiveConsumer, ReleaseSound, RunActive, RunTerminal
<1> SUFFICES ASSUME itemStatus'[i] # "cancelled" PROVE FALSE
  OBVIOUS
<1>1. Next
  BY DEF vars
<1>2. CASE \E q \in Run : Plan(q)
  BY <1>0, <1>2 DEF Plan, PlanProcessing, PlanSuite, Dead
<1>3. CASE \E w \in Worker, q \in Run, j \in Item : Claim(w, q, j)
  BY <1>0, <1>3 DEF Claim, Claimable, Inv, Types
<1>4. CASE \E w \in Worker : CommitFinish(w)
  BY <1>0, <1>4, CommitItems
<1>5. CASE \E q \in Run : CommitRelease(q)
  BY <1>0, <1>5 DEF CommitRelease
<1> QED BY <1>0, <1>1, <1>2, <1>3, <1>4, <1>5, StatusSteps

\* A run becomes active in its plan only.
LEMMA ActiveStep ==
  ASSUME Inv, [Next]_vars, NEW r \in Run, runStatus'[r] \in RunActive, runStatus[r] \notin RunActive
  PROVE  Plan(r)
<1>1. CASE \E q \in Run : Plan(q)
  BY <1>1 DEF Plan, PlanProcessing, PlanSuite, Inv, Types
<1>2. CASE \E w \in Worker, q \in Run, j \in Item : Claim(w, q, j)
  BY <1>2 DEF Claim, Claimable, Serves, Inv, Types
<1>3. CASE \E w \in Worker : CommitFinish(w)
  BY <1>3 DEF CommitFinish, Closable
<1>4. CASE \E q \in Run : CommitRelease(q)
  BY <1>4 DEF CommitRelease, RunAfterRelease, Inv, Types, RunActive
<1>5. CASE UNCHANGED runStatus
  BY <1>5
<1> QED BY <1>1, <1>2, <1>3, <1>4, <1>5
        DEF Next, Release, BeginRelease, AbortRelease, ClaimSome, Renew, ExecutionFails,
            PublicationRefused, Finish, BeginFinish, FinishRejected, Crash, ElapseLease, vars

\* A run comes to exist in its plan only.
LEMMA ExistStep ==
  ASSUME Inv, [Next]_vars, NEW r \in Run, runStatus'[r] # "absent", runStatus[r] = "absent"
  PROVE  Plan(r)
<1>1. CASE \E q \in Run : Plan(q)
  BY <1>1 DEF Plan, PlanProcessing, PlanSuite, Inv, Types
<1>2. CASE \E w \in Worker, q \in Run, j \in Item : Claim(w, q, j)
  BY <1>2 DEF Claim, Claimable, Serves, RunActive, Inv, Types
<1>3. CASE \E w \in Worker : CommitFinish(w)
  BY <1>3 DEF CommitFinish, Closable, RunActive
<1>4. CASE \E q \in Run : CommitRelease(q)
  BY <1>4 DEF CommitRelease, RunAfterRelease, RunActive, Inv, Types
<1>5. CASE UNCHANGED runStatus
  BY <1>5
<1> QED BY <1>1, <1>2, <1>3, <1>4, <1>5
        DEF Next, Release, BeginRelease, AbortRelease, ClaimSome, Renew, ExecutionFails,
            PublicationRefused, Finish, BeginFinish, FinishRejected, Crash, ElapseLease, vars

\* A run that exists goes on existing.
LEMMA ExistsStep ==
  ASSUME Inv, [Next]_vars, NEW r \in Run, runStatus[r] # "absent"
  PROVE  runStatus'[r] # "absent"
<1>1. CASE \E q \in Run : Plan(q)
  BY <1>1 DEF Plan, PlanProcessing, PlanSuite, RunAfterPlanning, Inv, Types
<1>2. CASE \E w \in Worker, q \in Run, j \in Item : Claim(w, q, j)
  BY <1>2 DEF Claim, Inv, Types
<1>3. CASE \E w \in Worker : CommitFinish(w)
  BY <1>3, TxnIsFinish DEF CommitFinish, Verdict, RunTerminal, Inv
<1>4. CASE \E q \in Run : CommitRelease(q)
  BY <1>4 DEF CommitRelease, RunAfterRelease, Inv, Types
<1>5. CASE UNCHANGED runStatus
  BY <1>5
<1> QED BY <1>1, <1>2, <1>3, <1>4, <1>5
        DEF Next, Release, BeginRelease, AbortRelease, ClaimSome, Renew, ExecutionFails,
            PublicationRefused, Finish, BeginFinish, FinishRejected, Crash, ElapseLease, vars

\* A plan leaves nothing broken among what its run needs, and locks nothing that
\* an uncommitted finish has locked.
LEMMA PlanStep ==
  ASSUME Inv, NEW r \in Run, Plan(r)
  PROVE  \A i \in Needs[r] : itemStatus'[i] \notin Broken /\ ~Locked(i)
<1> SUFFICES ASSUME NEW i \in Needs[r]
             PROVE  itemStatus'[i] \notin Broken /\ ~Locked(i)
  OBVIOUS
<1>1. i \in Item
  BY NeedsAssumption
<1>2. CASE PlanProcessing(r)
  BY <1>1, <1>2 DEF PlanProcessing, Replanned, Dead, Broken
<1>3. CASE PlanSuite(r)
  BY <1>1, <1>3 DEF PlanSuite, Dead, Broken
<1> QED BY <1>2, <1>3 DEF Plan

-----------------------------------------------------------------------------
(* What an uncommitted finish has decided *)

\* The statements of a finish reach every item and run concerned.
LEMMA BeginReaches ==
  ASSUME Inv, FailureInv, NEW w \in Worker, NEW outcome \in {"completed", "failed"},
         BeginFinish(w, outcome)
  PROVE  TxnReaches(w)'
<1> DEFINE i == job[w].item
           blocked == IF outcome = "completed" THEN {}
                      ELSE {j \in Affected(i) : itemStatus[j] = "queued"}
<1>1. PICK verdict \in [Run -> Verdict] :
        /\ \A r \in Run : verdict[r] \in RunVerdicts(i, outcome, blocked, r)
        /\ txn' = [txn EXCEPT ![w] =
             [outcome |-> outcome, blocked |-> blocked, verdict |-> verdict]]
  BY BeginFinishVerdict
<1>2. UNCHANGED <<runStatus, itemStatus, job>>
  BY DEF BeginFinish, itemVars
<1>3. /\ txn'[w].outcome = outcome /\ txn'[w].blocked = blocked
      /\ txn'[w].verdict = verdict
  BY <1>1 DEF Inv, Types
<1>4. outcome = "completed" => blocked = {}
  OBVIOUS
<1>5. /\ blocked \subseteq Affected(i)
      /\ outcome = "failed" => \A j \in Affected(i) : itemStatus[j] = "queued" => j \in blocked
  OBVIOUS
<1> HIDE DEF blocked, i
<1>6. ASSUME NEW r \in Run
      PROVE  /\ verdict[r] # "none" => i \in Needs[r]
             /\ runStatus[r] \in RunActive =>
                  /\ verdict[r] = "failed" => outcome = "failed"
                  /\ verdict[r] = "cancelled" => \E j \in Needs[r] : itemStatus[j] = "cancelled"
                  /\ outcome = "failed" /\ i \in Needs[r] => verdict[r] \in {"failed", "cancelled"}
  <2> DEFINE dead == DeadAfter(i, outcome, blocked, r)
  <2>1. verdict[r] \in RunVerdicts(i, outcome, blocked, r)
    BY <1>1
  <2>2. verdict[r] # "none" => i \in Needs[r]
    BY <2>1 DEF RunVerdicts
  <2>3. ASSUME verdict[r] \in {"failed", "cancelled"}
        PROVE  \E j \in dead : verdict[r] = IF AfterFinish(i, outcome, blocked, j) = "cancelled"
                                             THEN "cancelled" ELSE "failed"
    BY <2>1, <2>3 DEF RunVerdicts
  <2>4. ASSUME runStatus[r] \in RunActive, verdict[r] = "failed", outcome = "completed"
        PROVE  FALSE
    <3>1. PICK j \in dead : AfterFinish(i, outcome, blocked, j) # "cancelled"
      BY <2>3, <2>4
    <3>2. j \in Needs[r] /\ itemStatus[j] \in Broken
      BY <1>4, <2>4, <3>1 DEF DeadAfter, AfterFinish, Dead, Broken
    <3> QED BY <2>4, <3>2 DEF FailureInv, ActiveRunIsViable
  <2>5. ASSUME verdict[r] = "cancelled"
        PROVE  \E j \in Needs[r] : itemStatus[j] = "cancelled"
    <3>1. PICK j \in dead : AfterFinish(i, outcome, blocked, j) = "cancelled"
      BY <2>3, <2>5
    <3> QED BY <3>1 DEF DeadAfter, AfterFinish
  <2>6. ASSUME runStatus[r] \in RunActive, outcome = "failed", i \in Needs[r]
        PROVE  verdict[r] \in {"failed", "cancelled"}
    <3>1. i \in dead
      BY <2>6 DEF DeadAfter, AfterFinish, Dead, Broken
    <3> QED BY <2>1, <2>6, <3>1 DEF RunVerdicts, Closable
  <2> QED BY <2>2, <2>4, <2>5, <2>6
<1> QED BY <1>2, <1>3, <1>4, <1>5, <1>6 DEF TxnReaches, i

\* While a finish is uncommitted nothing it has locked is planned, so nothing
\* below its item is queued and no run that needs it becomes active.
LEMMA KeepsReaching ==
  ASSUME Inv, FailureInv, [Next]_vars, NEW w \in Worker, txn[w] # NoTxn,
         txn'[w] = txn[w], job'[w].item = job[w].item
  PROVE  TxnReaches(w)'
<1> DEFINE i == job[w].item
           t == txn[w]
<1>1. TxnReaches(w) /\ Locked(i)
  BY TxnLocks DEF FailureInv, TxnsReach
<1>2. \A r \in Run : Plan(r) => i \notin Needs[r]
  BY <1>1, PlanStep
<1>3. ASSUME t.outcome = "failed", NEW j \in Affected(i), itemStatus'[j] = "queued"
      PROVE  j \in t.blocked
  <2>1. j \in Item
    BY DEF Affected
  <2>2. CASE itemStatus[j] = "queued"
    BY <1>1, <1>3, <2>2 DEF TxnReaches
  <2>3. CASE itemStatus[j] # "queued"
    <3>1. PICK r \in Run : j \in Needs[r] /\ Plan(r)
      BY <1>3, <2>1, <2>3, QueuedStep
    <3> HIDE DEF i
    <3>2. i \in Item
      BY TxnItem DEF Inv, i
    <3>3. i \in Needs[r]
      BY <3>1, <3>2, AffectedNeeds
    <3> QED BY <1>2, <3>1, <3>3
  <2> QED BY <2>2, <2>3
<1>4. ASSUME NEW r \in Run
      PROVE  /\ t.verdict[r] # "none" => i \in Needs[r]
             /\ runStatus'[r] \in RunActive =>
                  /\ t.verdict[r] = "failed" => t.outcome = "failed"
                  /\ t.verdict[r] = "cancelled" => \E j \in Needs[r] : itemStatus'[j] = "cancelled"
                  /\ t.outcome = "failed" /\ i \in Needs[r] => t.verdict[r] \in {"failed", "cancelled"}
  <2>1. t.verdict[r] # "none" => i \in Needs[r]
    BY <1>1 DEF TxnReaches
  <2>2. CASE runStatus[r] \in RunActive
    BY <1>1, <2>1, <2>2, CancelledStep DEF TxnReaches, FailureInv
  <2>3. CASE runStatus[r] \notin RunActive /\ runStatus'[r] \in RunActive
    BY <1>2, <2>1, <2>3, ActiveStep
  <2> QED BY <2>1, <2>2, <2>3
<1> HIDE DEF i, t
<1> QED BY <1>1, <1>3, <1>4 DEF TxnReaches, i, t

-----------------------------------------------------------------------------
(* The invariant *)

\* The commit of a failing finish closes every active run that needs what it
\* breaks.
LEMMA FailureCloses ==
  ASSUME Inv, FailureInv, NEW w \in Worker, CommitFinish(w), NEW r \in Run,
         NEW i \in Needs[r],
         (i = job[w].item /\ txn[w].outcome = "failed") \/ i \in txn[w].blocked
  PROVE  runStatus'[r] \notin RunActive
<1>1. txn[w] # NoTxn /\ TxnReaches(w) /\ job[w].item \in Item
  BY CommitItems DEF CommitFinish, FailureInv, TxnsReach
<1>2. txn[w].outcome = "failed"
  BY <1>1, CommitItems DEF TxnReaches
<1>3. job[w].item \in Needs[r]
  BY <1>1, AffectedNeeds DEF TxnReaches
<1>4. runStatus[r] \in RunActive => txn[w].verdict[r] \in {"failed", "cancelled"}
  BY <1>1, <1>2, <1>3 DEF TxnReaches
<1> QED BY <1>4 DEF CommitFinish, Closable, RunActive

LEMMA FailureStep ==
  ASSUME Inv, FailureInv, [Next]_vars
  PROVE  FailureInv'
<1>1. ReleaseSound'
  <2>1. ASSUME NEW r \in Run, released'[r] PROVE runStatus'[r] \in RunTerminal
    <3>1. CASE released[r]
      BY <3>1, TerminalStep DEF FailureInv, ReleaseSound
    <3>2. CASE ~released[r]
      <4>1. CommitRelease(r)
        BY <2>1, <3>2 DEF Next, vars, Plan, PlanProcessing, PlanSuite, Release, BeginRelease,
              CommitRelease, AbortRelease, ClaimSome, Claim, Renew, ExecutionFails,
              PublicationRefused, Finish, BeginFinish, CommitFinish, FinishRejected, Crash,
              ElapseLease, Inv, Types
      <4>2. runStatus[r] \in RunState \ {"absent"}
        BY <4>1 DEF CommitRelease, FailureInv, ReleaseSound, Inv, Types
      <4>3. runStatus'[r] = RunAfterRelease(r)
        BY <4>1 DEF CommitRelease, Inv, Types
      <4> QED BY <4>2, <4>3 DEF RunAfterRelease, RunState, RunTerminal
    <3> QED BY <3>1, <3>2 DEF Inv, Types
  <2>2. ASSUME NEW r \in Run, sweep'[r] # {} PROVE runStatus'[r] # "absent"
    <3>1. sweep[r] # {} \/ BeginRelease(r)
      BY <2>2 DEF Next, vars, Plan, PlanProcessing, PlanSuite, Release, BeginRelease,
              CommitRelease, AbortRelease, ClaimSome, Claim, Renew, ExecutionFails,
              PublicationRefused, Finish, BeginFinish, CommitFinish, FinishRejected, Crash,
              ElapseLease, Inv, Types
    <3> QED BY <3>1, ExistsStep DEF BeginRelease, FailureInv, ReleaseSound
  <2> QED BY <2>1, <2>2 DEF ReleaseSound
<1>2. ActiveRunIsViable'
  <2> SUFFICES ASSUME NEW r \in Run, runStatus'[r] \in RunActive,
                      NEW i \in Needs[r], itemStatus'[i] \in Broken
               PROVE  FALSE
    BY DEF ActiveRunIsViable
  <2>1. CASE runStatus[r] \in RunActive
    <3>1. i \in Item /\ itemStatus[i] \notin Broken
      BY <2>1, NeedsAssumption DEF FailureInv, ActiveRunIsViable
    <3> QED BY <3>1, BrokenStep, FailureCloses
  <2>2. CASE runStatus[r] \notin RunActive
    BY <2>2, ActiveStep, PlanStep
  <2> QED BY <2>1, <2>2
<1>3. NoQueuedBehindFailure'
  <2> SUFFICES ASSUME NEW i \in Item, itemStatus'[i] = "queued",
                      NEW u \in Requires[i], itemStatus'[u] \in Broken
               PROVE  FALSE
    BY DEF NoQueuedBehindFailure
  <2>0. u \in Item
    BY NeedsAssumption
  <2>1. CASE itemStatus[i] = "queued"
    <3>1. itemStatus[u] \notin Broken
      BY <2>1 DEF FailureInv, NoQueuedBehindFailure
    <3>2. PICK w \in Worker : /\ CommitFinish(w)
                              /\ \/ u = job[w].item /\ txn[w].outcome = "failed"
                                 \/ u \in txn[w].blocked
      BY <2>0, <3>1, BrokenStep
    <3>3. txn[w] # NoTxn /\ TxnReaches(w) /\ job[w].item \in Item
      BY <3>2, CommitItems DEF CommitFinish, FailureInv, TxnsReach
    <3>4. txn[w].outcome = "failed"
      BY <3>2, <3>3, CommitItems DEF TxnReaches
    <3>5. i \in Affected(job[w].item)
      BY <3>2, <3>3, AffectedClosed DEF TxnReaches
    <3>6. i \in txn[w].blocked
      BY <2>1, <3>3, <3>4, <3>5 DEF TxnReaches
    <3> QED BY <2>1, <3>2, <3>6, CommitItems
  <2>2. CASE itemStatus[i] # "queued"
    <3>1. PICK r \in Run : i \in Needs[r] /\ Plan(r)
      BY <2>2, QueuedStep
    <3>2. u \in Needs[r]
      BY <3>1, NeedsAssumption
    <3> QED BY <3>1, <3>2, PlanStep
  <2> QED BY <2>1, <2>2
<1>4. TxnsReach'
  BY TxnStep, BeginReaches, KeepsReaching DEF TxnsReach
<1> QED BY <1>1, <1>2, <1>3, <1>4 DEF FailureInv

LEMMA FailureInit == Init => FailureInv
BY DEF Init, FailureInv, ReleaseSound, ActiveRunIsViable, NoQueuedBehindFailure, TxnsReach,
       RunActive, Broken

\* Failure is propagated completely, whatever is planned, shared, released and
\* finished at the same time.
THEOREM FailureInvariance == Spec => []FailureInv
BY FailureInit, FailureStep, Invariance, PTL DEF Spec

\* No active run needs anything broken: a failure closes every run it concerns
\* in its own commit, and no run is planned onto it in between.
THEOREM ActiveRunsAreViable == Spec => []ActiveRunIsViable
<1>1. FailureInv => ActiveRunIsViable
  BY DEF FailureInv
<1> QED BY <1>1, FailureInvariance, PTL

\* No item is left in the queue above an upstream that failed or was blocked,
\* however deep below the failure it is and whichever run queued it.
THEOREM FailureReachesQueue == Spec => []NoQueuedBehindFailure
<1>1. FailureInv => NoQueuedBehindFailure
  BY DEF FailureInv
<1> QED BY <1>1, FailureInvariance, PTL

-----------------------------------------------------------------------------
(* Ends *)

LEMMA EndCause ==
  ASSUME Inv, FailureInv, [Next]_vars, NEW r \in Run, runStatus'[r] # runStatus[r]
  PROVE  /\ runStatus'[r] = "failed" => \E i \in Needs[r] : itemStatus'[i] \in Broken
         /\ runStatus'[r] = "cancelled" =>
              released'[r] \/ \E i \in Needs[r] : itemStatus'[i] = "cancelled"
<1>1. CASE \E q \in Run : Plan(q)
  BY <1>1 DEF Plan, PlanProcessing, PlanSuite, RunAfterPlanning, Inv, Types
<1>2. CASE \E w \in Worker, q \in Run, j \in Item : Claim(w, q, j)
  BY <1>2 DEF Claim, Inv, Types
<1>3. CASE \E w \in Worker : CommitFinish(w)
  <2>1. PICK w \in Worker : CommitFinish(w)
    BY <1>3
  <2>2. /\ txn[w] # NoTxn /\ runStatus[r] \in RunActive
        /\ runStatus'[r] = txn[w].verdict[r] /\ txn[w].verdict[r] # "none"
    BY <2>1 DEF CommitFinish, Closable
  <2>3. TxnReaches(w)
    BY <2>2 DEF FailureInv, TxnsReach
  <2>4. ASSUME runStatus'[r] = "failed"
        PROVE  \E i \in Needs[r] : itemStatus'[i] \in Broken
    <3>1. job[w].item \in Needs[r] /\ txn[w].outcome = "failed"
      BY <2>2, <2>3, <2>4 DEF TxnReaches
    <3> QED BY <2>1, <3>1, CommitItems DEF Broken
  <2>5. ASSUME runStatus'[r] = "cancelled"
        PROVE  \E i \in Needs[r] : itemStatus'[i] = "cancelled"
    <3>1. PICK i \in Needs[r] : itemStatus[i] = "cancelled"
      BY <2>2, <2>3, <2>5 DEF TxnReaches
    <3> QED BY <2>2, <3>1, CancelledStep DEF FailureInv
  <2> QED BY <2>4, <2>5
<1>4. CASE \E q \in Run : CommitRelease(q)
  <2>1. PICK q \in Run : CommitRelease(q)
    BY <1>4
  <2>2. r = q /\ runStatus'[r] = RunAfterRelease(r) /\ released'[r]
    BY <2>1 DEF CommitRelease, Inv, Types
  <2> QED BY <2>2 DEF RunAfterRelease
<1>5. CASE UNCHANGED runStatus
  BY <1>5
<1> QED BY <1>1, <1>2, <1>3, <1>4, <1>5
        DEF Next, Release, BeginRelease, AbortRelease, ClaimSome, Renew, ExecutionFails,
            PublicationRefused, Finish, BeginFinish, FinishRejected, Crash, ElapseLease, vars

\* No run is failed by work it does not need, and none is cancelled but by its
\* own release or over cancelled work, for any verdict a finish may pick.
THEOREM BadEndsHaveCauses == Spec => BadEndHasCause
<1>1. Inv /\ FailureInv /\ [Next]_vars =>
        [\A r \in Run : runStatus'[r] # runStatus[r] =>
           /\ runStatus'[r] = "failed" => \E i \in Needs[r] : itemStatus'[i] \in Broken
           /\ runStatus'[r] = "cancelled" =>
                released'[r] \/ \E i \in Needs[r] : itemStatus'[i] = "cancelled"]_vars
  BY EndCause
<1> QED BY <1>1, Invariance, FailureInvariance, PTL DEF Spec, BadEndHasCause

-----------------------------------------------------------------------------
(* Releases *)

\* A release that begins sees every run that is active.
LEMMA SweepSees ==
  ASSUME Inv, FailureInv, [Next]_vars, NEW r \in Run, NEW q \in Run,
         sweep'[r] # sweep[r], sweep'[r] # {}, runStatus[q] \in RunActive
  PROVE  q \in sweep'[r]
<1>1. BeginRelease(r)
  BY DEF Next, vars, Plan, PlanProcessing, PlanSuite, Release, BeginRelease, CommitRelease,
         AbortRelease, ClaimSome, Claim, Renew, ExecutionFails, PublicationRefused, Finish,
         BeginFinish, CommitFinish, FinishRejected, Crash, ElapseLease, Inv, Types
<1>2. sweep'[r] = Seen(r)
  BY <1>1 DEF BeginRelease, Inv, Types
<1>3. ~released[q] /\ runStatus[q] # "absent"
  BY DEF FailureInv, ReleaseSound, RunActive, RunTerminal
<1> QED BY <1>2, <1>3 DEF Seen

\* Whatever is cancelled is orphaned by a release that commits.
LEMMA CancelStep ==
  ASSUME Inv, [Next]_vars, NEW i \in Item,
         \/ ~cancelReq[i] /\ cancelReq'[i]
         \/ itemStatus[i] # "cancelled" /\ itemStatus'[i] = "cancelled"
  PROVE  \E r \in Run : CommitRelease(r) /\ i \in Orphaned(r)
<1>1. CASE \E r \in Run : CommitRelease(r)
  BY <1>1 DEF CommitRelease
<1>2. CASE \E r \in Run : Plan(r)
  BY <1>2 DEF Plan, PlanProcessing, PlanSuite, RequestAfter, Replanned, Dead, Inv, Types
<1>3. CASE \E w \in Worker, r \in Run, j \in Item : Claim(w, r, j)
  BY <1>3 DEF Claim, Inv, Types
<1>4. CASE \E w \in Worker : CommitFinish(w)
  <2>1. UNCHANGED cancelReq
    BY <1>4 DEF CommitFinish
  <2> QED BY <1>4, <2>1, CommitItems
<1>5. CASE UNCHANGED <<itemStatus, cancelReq>>
  BY <1>5
<1> QED BY <1>1, <1>2, <1>3, <1>4, <1>5
        DEF Next, Release, BeginRelease, AbortRelease, ClaimSome, Renew, ExecutionFails,
            PublicationRefused, Finish, BeginFinish, FinishRejected, Crash, ElapseLease,
            itemVars, vars

LEMMA CancelSpares ==
  ASSUME Inv, [Next]_vars, NEW i \in Item, NEW q \in Run,
         \/ ~cancelReq[i] /\ cancelReq'[i]
         \/ itemStatus[i] # "cancelled" /\ itemStatus'[i] = "cancelled",
         i \in Needs[q], runStatus'[q] \in RunActive
  PROVE  \E r \in Run : sweep[r] # {} /\ sweep'[r] = {} /\ q \notin sweep[r]
<1>1. PICK r \in Run : CommitRelease(r) /\ i \in Orphaned(r)
  BY CancelStep
<1>2. sweep[r] # {} /\ sweep'[r] = {} /\ runStatus'[r] = RunAfterRelease(r)
  BY <1>1 DEF CommitRelease, Inv, Types
<1>3. q # r
  BY <1>2 DEF RunAfterRelease, RunActive
<1> QED BY <1>1, <1>2, <1>3 DEF Orphaned

\* A release knows every run that is live at its start and cancels none of the
\* work they need, for any sharing and any number of concurrent releases.
THEOREM CancelsSpareSeenWork == Spec => CancelSparesSeenWork
<1>1. Inv /\ FailureInv /\ [Next]_vars =>
        [/\ \A r, q \in Run :
              sweep'[r] # sweep[r] /\ sweep'[r] # {} /\ runStatus[q] \in RunActive => q \in sweep'[r]
         /\ \A i \in Item, q \in Run :
              /\ (~cancelReq[i] /\ cancelReq'[i]) \/ (itemStatus[i] # "cancelled" /\ itemStatus'[i] = "cancelled")
              /\ i \in Needs[q] /\ runStatus'[q] \in RunActive
              => \E r \in Run : sweep[r] # {} /\ sweep'[r] = {} /\ q \notin sweep[r]]_vars
  BY SweepSees, CancelSpares
<1> QED BY <1>1, Invariance, FailureInvariance, PTL DEF Spec, CancelSparesSeenWork

-----------------------------------------------------------------------------
(* Nobody waits for everybody *)

\* No request to cancel lies on work that waits: the plan that queues an item
\* again takes the request away.
RequestsSound == \A i \in Item : cancelReq[i] => itemStatus[i] \notin {"absent", "queued"}

\* A run exists together with all its items.
RunsPlanned ==
  \A r \in Run : runStatus[r] # "absent" => \A i \in Needs[r] : itemStatus[i] # "absent"

GoesOnInv == RequestsSound /\ RunsPlanned

\* An item that exists goes on existing.
LEMMA ItemStep ==
  ASSUME Inv, [Next]_vars, NEW i \in Item, itemStatus[i] # "absent"
  PROVE  itemStatus'[i] # "absent"
<1> SUFFICES ASSUME itemStatus'[i] # itemStatus[i]
             PROVE  itemStatus'[i] # "absent"
  OBVIOUS
<1>0. Next
  BY DEF vars
<1>1. CASE \E r \in Run : Plan(r)
  BY <1>1 DEF Plan, PlanProcessing, PlanSuite, Replanned
<1>2. CASE \E w \in Worker, r \in Run, j \in Item : Claim(w, r, j)
  BY <1>2 DEF Claim, Inv, Types
<1>3. CASE \E w \in Worker : CommitFinish(w)
  BY <1>3, CommitItems
<1>4. CASE \E r \in Run : CommitRelease(r)
  BY <1>4 DEF CommitRelease
<1> QED BY <1>0, <1>1, <1>2, <1>3, <1>4, StatusSteps

\* What a plan queues carries no request, and it leaves none of its items out.
LEMMA PlanRequestsNothing ==
  ASSUME GoesOnInv, NEW r \in Run, Plan(r)
  PROVE  /\ RequestsSound'
         /\ \A i \in Needs[r] : itemStatus'[i] # "absent"
<1>1. CASE PlanProcessing(r)
  <2> SUFFICES ASSUME NEW i \in Item
               PROVE  /\ cancelReq'[i] => itemStatus'[i] \notin {"absent", "queued"}
                      /\ i \in Needs[r] => itemStatus'[i] # "absent"
    BY NeedsAssumption DEF RequestsSound
  <2>1. /\ cancelReq'[i] = RequestAfter(i, r)
        /\ itemStatus'[i] = IF i \in Needs[r] THEN Replanned(itemStatus[i]) ELSE itemStatus[i]
    BY <1>1 DEF PlanProcessing
  <2> QED BY <2>1 DEF GoesOnInv, RequestsSound, RequestAfter, Replanned
<1>2. CASE PlanSuite(r)
  BY <1>2, NeedsAssumption DEF PlanSuite, GoesOnInv, RequestsSound
<1> QED BY <1>1, <1>2 DEF Plan

LEMMA GoesOnStep ==
  ASSUME Inv, GoesOnInv, [Next]_vars
  PROVE  GoesOnInv'
<1>1. RequestsSound'
  <2>1. CASE \E r \in Run : Plan(r)
    BY <2>1, PlanRequestsNothing
  <2>2. CASE \E r \in Run : CommitRelease(r)
    <3> SUFFICES ASSUME NEW i \in Item, cancelReq'[i]
                 PROVE  itemStatus'[i] \notin {"absent", "queued"}
      BY DEF RequestsSound
    <3>1. PICK r \in Run : CommitRelease(r)
      BY <2>2
    <3>2. /\ cancelReq'[i] = (cancelReq[i] \/ (i \in Orphaned(r) /\ itemStatus[i] \in {"queued", "running"}))
          /\ itemStatus'[i] = IF i \in Orphaned(r) /\ itemStatus[i] = "queued" THEN "cancelled"
                              ELSE itemStatus[i]
      BY <3>1 DEF CommitRelease
    <3> QED BY <3>2 DEF GoesOnInv, RequestsSound
  <2>3. CASE ~(\E r \in Run : Plan(r)) /\ ~(\E r \in Run : CommitRelease(r))
    <3> SUFFICES ASSUME NEW i \in Item, cancelReq'[i]
                 PROVE  itemStatus'[i] \notin {"absent", "queued"}
      BY DEF RequestsSound
    <3>1. cancelReq[i]
      BY <2>3, CancelStep
    <3>2. itemStatus[i] \notin {"absent", "queued"}
      BY <3>1 DEF GoesOnInv, RequestsSound
    <3> QED BY <2>3, <3>2, QueuedStep, ItemStep
  <2> QED BY <2>1, <2>2, <2>3
<1>2. RunsPlanned'
  <2> SUFFICES ASSUME NEW r \in Run, runStatus'[r] # "absent", NEW i \in Needs[r]
               PROVE  itemStatus'[i] # "absent"
    BY DEF RunsPlanned
  <2>1. i \in Item
    BY NeedsAssumption
  <2>2. CASE runStatus[r] # "absent"
    BY <2>1, <2>2, ItemStep DEF GoesOnInv, RunsPlanned
  <2>3. CASE runStatus[r] = "absent"
    <3>1. Plan(r)
      BY <2>3, ExistStep
    <3> QED BY <3>1, PlanRequestsNothing
  <2> QED BY <2>2, <2>3
<1> QED BY <1>1, <1>2 DEF GoesOnInv

LEMMA GoesOnInit == Init => GoesOnInv
BY DEF Init, GoesOnInv, RequestsSound, RunsPlanned

THEOREM GoesOnInvariance == Spec => []GoesOnInv
BY GoesOnInit, GoesOnStep, Invariance, PTL DEF Spec

\* Among the items of an active run that are not done there is one that requires
\* none of the others.  It exists and is not broken, so it is cancelled, running
\* or queued; queued, it carries no request and may be claimed.
LEMMA SomethingGoesOn ==
  ASSUME Inv, FailureInv, GoesOnInv
  PROVE  ActiveRunGoesOn
<1> SUFFICES ASSUME NEW r \in Run, runStatus[r] \in RunActive,
                    ~(\A i \in Needs[r] : itemStatus[i] \in Done)
             PROVE  \/ \E i \in Needs[r] : itemStatus[i] = "cancelled"
                                             \/ (itemStatus[i] = "running" /\ cancelReq[i])
                    \/ \E i \in Needs[r] : Claimable(r, i)
                                             \/ (itemStatus[i] = "running" /\ lease[i] > 0)
  BY DEF ActiveRunGoesOn
<1> DEFINE S == {i \in Needs[r] : itemStatus[i] \notin Done}
<1>1. PICK m \in S : Requires[m] \cap S = {}
  <2>1. S \in SUBSET Needs[r] /\ S # {}
    OBVIOUS
  <2> HIDE DEF S
  <2> QED BY <2>1, AcyclicAssumption
<1>2. m \in Needs[r] /\ m \in Item
  BY NeedsAssumption
<1>3. \A u \in Requires[m] : itemStatus[u] \in Done
  BY <1>1, <1>2, NeedsAssumption
<1>4. itemStatus[m] \in {"queued", "running", "cancelled"}
  <2>1. itemStatus[m] # "absent"
    BY <1>2 DEF GoesOnInv, RunsPlanned, RunActive
  <2>2. itemStatus[m] \notin Broken
    BY <1>2 DEF FailureInv, ActiveRunIsViable
  <2> QED BY <1>2, <2>1, <2>2 DEF Inv, Types, ItemState, Dead
<1>5. Serves(r, m)
  BY <1>2 DEF Serves, FailureInv, ReleaseSound, RunActive, RunTerminal
<1>6. CASE itemStatus[m] = "queued"
  <2>1. ~cancelReq[m]
    BY <1>2, <1>6 DEF GoesOnInv, RequestsSound
  <2> QED BY <1>2, <1>3, <1>5, <1>6, <2>1 DEF Claimable
<1>7. CASE itemStatus[m] = "running" /\ ~cancelReq[m]
  <2>1. lease[m] \in Nat
    BY <1>2, BoundAssumption DEF Inv, Types
  <2>2. CASE lease[m] = 0
    BY <1>2, <1>3, <1>5, <1>7, <2>2 DEF Claimable
  <2>3. CASE lease[m] > 0
    BY <1>2, <1>7, <2>3
  <2> QED BY <2>1, <2>2, <2>3
<1> QED BY <1>2, <1>4, <1>6, <1>7

\* No active run is stuck behind work that nobody holds and nobody may take,
\* whatever the dependencies are, unless a cancellation reached it or all its
\* items are done.
THEOREM ActiveRunsGoOn == Spec => []ActiveRunGoesOn
BY SomethingGoesOn, Invariance, FailureInvariance, GoesOnInvariance, PTL

-----------------------------------------------------------------------------
(* The contract *)

states == [r \in Run |-> StateOf(r)]
results == {i \in Item : itemStatus[i] \in Done}

LEMMA ContractInit == Init => Contract!Init
BY DEF Init, Contract!Init, StateOf, RunActive, Done

\* A requester sees one of the states of the contract.
LEMMA StateOfType ==
  ASSUME Inv, NEW r \in Run
  PROVE  /\ StateOf(r) \in Contract!State
         /\ StateOf(r) = "active" <=> runStatus[r] \in RunActive
BY DEF Inv, Types, StateOf, RunState, RunActive, RunTerminal, Contract!State

\* A plan is a request: results that exist serve it, and none is added or lost.
LEMMA PlanRequests ==
  ASSUME Inv, NEW r \in Run, Plan(r)
  PROVE  Contract!Request(r)
<1>1. results' = results
  <2> SUFFICES ASSUME NEW i \in Item
               PROVE  itemStatus'[i] \in Done <=> itemStatus[i] \in Done
    BY DEF results
  <2>1. CASE PlanProcessing(r)
    BY <2>1 DEF PlanProcessing, Replanned, Dead, Broken, Done
  <2>2. CASE PlanSuite(r)
    BY <2>2 DEF PlanSuite, Done
  <2> QED BY <2>1, <2>2 DEF Plan
<1>2. /\ runStatus[r] = "absent"
      /\ runStatus' = [runStatus EXCEPT ![r] = RunAfterPlanning(r)]
  BY DEF Plan, PlanProcessing, PlanSuite
<1>3. RunAfterPlanning(r) = IF Needs[r] \subseteq results THEN "completed" ELSE "ready"
  BY <1>1, NeedsAssumption DEF RunAfterPlanning, results
<1>4. StateOf(r) = "absent"
  BY <1>2 DEF StateOf, RunActive
<1>5. states' = [states EXCEPT ![r] = IF Needs[r] \subseteq results THEN "completed" ELSE "active"]
  BY <1>2, <1>3 DEF states, StateOf, RunActive, Inv, Types
<1> QED BY <1>1, <1>4, <1>5 DEF Contract!Request, states, results

\* The commit of a finish delivers its item, or fails it together with every
\* active run that needs it.
LEMMA CommitDelivers ==
  ASSUME Inv, FailureInv, Completion, NEW w \in Worker, CommitFinish(w),
         NEW i \in Item, i = job[w].item
  PROVE  Contract!Deliver(i) \/ Contract!Fail(i)
<1> DEFINE t == txn[w]
<1>1. /\ i \in Item /\ itemStatus[i] = "running" /\ itemStatus'[i] = t.outcome
      /\ t.outcome \in {"completed", "failed"}
      /\ \A j \in Item \ {i} : itemStatus'[j] \in Done <=> itemStatus[j] \in Done
  BY CommitItems DEF Done
<1>2. t # NoTxn /\ TxnReaches(w) /\ VerdictsSound(w)
  BY DEF CommitFinish, FailureInv, TxnsReach, Completion
<1>3. i \notin results /\ i \in Item
  BY <1>1 DEF results, Done
<1>4. \A r \in Run : runStatus'[r] = IF t.verdict[r] # "none" /\ runStatus[r] \in RunActive
                                     THEN t.verdict[r] ELSE runStatus[r]
  BY DEF CommitFinish, Closable
<1>5. \A r \in Run : t.verdict[r] \in {"none", "completed", "failed", "cancelled"}
  BY <1>2, TxnIsFinish DEF Verdict, RunTerminal, Inv
<1>6. states' \in [Run -> Contract!State]
  BY <1>4, <1>5 DEF states, StateOf, RunActive, Inv, Types, RunState, RunTerminal, Contract!State
<1>7. \A r \in Run : r \in Contract!Active <=> runStatus[r] \in RunActive
  BY StateOfType DEF Contract!Active
<1>8. \A r \in Run : t.verdict[r] = "none" \/ runStatus[r] \notin RunActive => states'[r] = states[r]
  BY <1>4 DEF states, StateOf
<1>9. \A r \in Run : runStatus[r] \in RunActive /\ t.verdict[r] # "none" => states'[r] = t.verdict[r]
  BY <1>4, <1>5 DEF states, StateOf, RunActive
<1>10. CASE t.outcome = "completed"
  <2>1. results' = results \cup {i}
    BY <1>1, <1>10 DEF results, Done
  <2>2. Requires[i] \subseteq results
    BY <1>1, NeedsAssumption DEF Inv, UpstreamsDone, results
  <2>3. ASSUME NEW r \in Run, states'[r] # states[r]
        PROVE  /\ runStatus[r] \in RunActive /\ i \in Needs[r]
               /\ states'[r] = IF Needs[r] \subseteq results' THEN "completed" ELSE "cancelled"
    <3>1. /\ runStatus[r] \in RunActive /\ t.verdict[r] # "none" /\ states'[r] = t.verdict[r]
          /\ i \in Needs[r]
      BY <1>2, <1>8, <1>9, <2>3 DEF TxnReaches
    <3>2. CASE t.verdict[r] = "completed"
      <4>1. \A j \in Needs[r] \ {i} : j \in results
        BY <1>2, <3>2, NeedsAssumption DEF VerdictsSound, results
      <4> QED BY <2>1, <3>1, <3>2, <4>1
    <3>3. CASE t.verdict[r] = "cancelled"
      <4>1. PICK j \in Needs[r] : itemStatus[j] = "cancelled"
        BY <1>2, <3>1, <3>3 DEF TxnReaches
      <4>2. j \notin results'
        BY <1>1, <2>1, <4>1 DEF results, Done
      <4> QED BY <3>1, <3>3, <4>1, <4>2
    <3>4. t.verdict[r] # "failed"
      BY <1>2, <1>10, <3>1 DEF TxnReaches
    <3> QED BY <1>5, <3>1, <3>2, <3>3, <3>4
  <2> HIDE DEF t
  <2> QED BY <1>3, <1>6, <1>7, <2>1, <2>2, <2>3 DEF Contract!Deliver, states, results
<1>11. CASE t.outcome = "failed"
  <2>1. results' = results
    BY <1>1, <1>11 DEF results, Done
  <2>2. ASSUME NEW r \in Run
        PROVE  IF runStatus[r] \in RunActive /\ i \in Needs[r]
               THEN states'[r] \in {"failed", "cancelled"} ELSE states'[r] = states[r]
    <3>1. CASE runStatus[r] \in RunActive /\ i \in Needs[r]
      <4>1. t.verdict[r] \in {"failed", "cancelled"}
        BY <1>2, <1>11, <3>1 DEF TxnReaches
      <4> QED BY <1>9, <3>1, <4>1
    <3>2. CASE ~(runStatus[r] \in RunActive /\ i \in Needs[r])
      BY <1>2, <1>8, <3>2 DEF TxnReaches
    <3> QED BY <3>1, <3>2
  <2> HIDE DEF t
  <2> QED BY <1>3, <1>6, <1>7, <2>1, <2>2 DEF Contract!Fail, states, results
<1> QED BY <1>1, <1>10, <1>11

\* A release cancels the run for its requester, or nobody sees it.
LEMMA ReleaseCancels ==
  ASSUME Inv, NEW r \in Run, CommitRelease(r)
  PROVE  Contract!Cancel(r) \/ UNCHANGED <<states, results>>
<1>1. results' = results
  BY DEF CommitRelease, results, Done, Inv, Types
<1>2. runStatus' = [runStatus EXCEPT ![r] = RunAfterRelease(r)]
  BY DEF CommitRelease
<1>3. CASE runStatus[r] \in RunActive
  <2>1. states' = [states EXCEPT ![r] = "cancelled"]
    BY <1>2, <1>3 DEF states, StateOf, RunActive, RunAfterRelease, Inv, Types
  <2> QED BY <1>1, <1>3, <2>1, StateOfType DEF Contract!Cancel, states, results
<1>4. CASE runStatus[r] \notin RunActive
  BY <1>1, <1>2, <1>4 DEF states, StateOf, RunAfterRelease, Inv, Types
<1> QED BY <1>3, <1>4

\* A claim is invisible: queued and running work look the same from outside.
LEMMA ClaimInvisible ==
  ASSUME Inv, NEW w \in Worker, NEW r \in Run, NEW i \in Item, Claim(w, r, i)
  PROVE  UNCHANGED <<states, results>>
<1>1. /\ itemStatus[i] \in {"queued", "running"} /\ runStatus[r] \in RunActive
      /\ itemStatus' = [itemStatus EXCEPT ![i] = "running"]
      /\ runStatus' = [runStatus EXCEPT ![r] = "running"]
  BY DEF Claim, Claimable, Serves
<1>2. results' = results
  BY <1>1 DEF results, Done, Inv, Types
<1>3. states' = states
  BY <1>1 DEF states, StateOf, RunActive, Inv, Types
<1> QED BY <1>2, <1>3

LEMMA ContractStep ==
  ASSUME Inv, FailureInv, Completion, [Next]_vars
  PROVE  [Contract!Next]_<<states, results>>
<1>1. CASE \E r \in Run : Plan(r)
  BY <1>1, PlanRequests DEF Contract!Next
<1>2. CASE \E w \in Worker, r \in Run, i \in Item : Claim(w, r, i)
  BY <1>2, ClaimInvisible
<1>3. CASE \E w \in Worker : CommitFinish(w)
  <2>1. PICK w \in Worker : CommitFinish(w)
    BY <1>3
  <2>2. PICK i \in Item : i = job[w].item
    BY <2>1, CommitItems
  <2>3. Contract!Deliver(i) \/ Contract!Fail(i)
    BY <2>1, <2>2, CommitDelivers
  <2> QED BY <2>3 DEF Contract!Next
<1>4. CASE \E r \in Run : CommitRelease(r)
  BY <1>4, ReleaseCancels DEF Contract!Next
<1>5. CASE UNCHANGED <<runStatus, itemStatus>>
  BY <1>5 DEF states, results, StateOf
<1> QED BY <1>1, <1>2, <1>3, <1>4, <1>5
        DEF Next, Release, BeginRelease, AbortRelease, ClaimSome, Renew, ExecutionFails,
            PublicationRefused, Finish, BeginFinish, FinishRejected, Crash, ElapseLease,
            itemVars, vars

\* The scheduler implements the contract: with its leases, crashes, retries and
\* concurrent finishes, a requester never sees anything else.
THEOREM SchedulerKeepsContract == Spec => ImplementsContract
<1>1. Init => Completion
  BY DEF Init, Completion, CompletedRunIsDone
<1>2. Inv /\ Completion /\ [Next]_vars => Completion'
  BY CompletionStep
<1>3. Inv /\ FailureInv /\ Completion /\ [Next]_vars =>
        [Contract!Next]_<<[r \in Run |-> StateOf(r)], {i \in Item : itemStatus[i] \in Done}>>
  BY ContractStep DEF states, results
<1>4. Init => Contract!Init
  BY ContractInit
<1> QED BY <1>1, <1>2, <1>3, <1>4, Invariance, FailureInvariance, PTL
        DEF Spec, ImplementsContract, Contract!Spec

=============================================================================
