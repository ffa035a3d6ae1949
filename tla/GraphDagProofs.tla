--------------------------- MODULE GraphDagProofs ---------------------------
(***************************************************************************)
(* What holds of GraphDag for all runs, items, dependencies and workers.   *)
(*                                                                         *)
(* TypeOK, UpstreamsDone and OnePublication are not inductive one by one:  *)
(* what a finish writes at its commit was decided before, and stays right  *)
(* only because the rows it locked are left alone in between.  Inv adds    *)
(* that: the claim of an uncommitted finish is current, what it blocks     *)
(* still waits (TxnCurrent), and no two finishes write the same row        *)
(* (LocksExclusive).                                                       *)
(***************************************************************************)
EXTENDS GraphDag, TLAPS

LocksExclusive ==
  \A v, w \in Worker : v # w /\ txn[v] # NoTxn /\ txn[w] # NoTxn =>
    job[v].item # job[w].item /\ txn[v].blocked \cap txn[w].blocked = {}

TxnsCurrent == \A w \in Worker : txn[w] # NoTxn => TxnCurrent(w)

Inv ==
  /\ Types
  /\ LeaseColumns
  /\ TxnsCurrent
  /\ LocksExclusive
  /\ UpstreamsDone
  /\ OnePublication

-----------------------------------------------------------------------------
(* Lemmas *)

\* A worker that holds a job holds a claim.
LEMMA JobIsClaim ==
  ASSUME Types, NEW w \in Worker, job[w] # NoJob
  PROVE  job[w] \in Claims /\ job[w].item \in Item /\ job[w].fence \in 1..MaxFence
BY DEF Types, Claims

LEMMA TxnIsFinish ==
  ASSUME Types, NEW w \in Worker, txn[w] # NoTxn
  PROVE  /\ txn[w] \in Finishes
         /\ txn[w].outcome \in {"completed", "failed"}
         /\ txn[w].blocked \subseteq Item
         /\ txn[w].verdict \in [Run -> Verdict]
BY DEF Types, Finishes

\* The claim of an uncommitted finish: its item runs under its fence.
LEMMA TxnItem ==
  ASSUME Types, TxnsCurrent, NEW w \in Worker, txn[w] # NoTxn
  PROVE  /\ job[w] \in Claims /\ job[w].item \in Item
         /\ itemStatus[job[w].item] = "running"
         /\ fence[job[w].item] = job[w].fence /\ lease[job[w].item] > 0
BY JobIsClaim DEF TxnsCurrent, TxnCurrent, HoldsLease

\* A claim names an owner.
LEMMA KeyIsOwner ==
  ASSUME NEW w \in Worker, NEW i \in Item
  PROVE  KeyOf(w, i) \in Owner /\ KeyOf(w, i) # NoOwner
BY OwnerAssumption DEF KeyOf, Owner

\* The rows of an uncommitted finish are locked.
LEMMA TxnLocks ==
  ASSUME NEW w \in Worker, txn[w] # NoTxn
  PROVE  Locked(job[w].item) /\ \A j \in txn[w].blocked : Locked(j)
BY DEF Locked

LEMMA InitInv == Init => Inv
<1> SUFFICES ASSUME Init PROVE Inv
  OBVIOUS
<1>1. Types
  BY BoundAssumption, OwnerAssumption DEF Init, Types, RunState, ItemState, Owner, Dead, Broken, Done, RunActive, RunTerminal
<1>2. LeaseColumns /\ UpstreamsDone /\ OnePublication
  BY KindAssumption DEF Init, LeaseColumns, UpstreamsDone, OnePublication, Done
<1>3. TxnsCurrent /\ LocksExclusive
  BY DEF Init, TxnsCurrent, LocksExclusive
<1> QED BY <1>1, <1>2, <1>3 DEF Inv

-----------------------------------------------------------------------------
(* Planning *)

\* Planning touches only rows it can lock, and never a running or done one but
\* to mark a completed one reused.
LEMMA PlanInv ==
  ASSUME Inv, NEW r \in Run, Plan(r)
  PROVE  Inv'
<1> USE DEF Inv
<1>1. /\ UNCHANGED <<released, owner, lease, fence, output, job, txn, sweep>>
      /\ \A i \in Needs[r] : ~Locked(i)
  BY DEF Plan, PlanProcessing, PlanSuite
<1>2. \A i \in Item :
        /\ itemStatus'[i] \in ItemState
        /\ itemStatus'[i] = "running" <=> itemStatus[i] = "running"
        /\ itemStatus'[i] \in Done <=> itemStatus[i] \in Done
        /\ Locked(i) => itemStatus'[i] = itemStatus[i]
  <2> SUFFICES ASSUME NEW i \in Item
               PROVE  /\ itemStatus'[i] \in ItemState
                      /\ itemStatus'[i] = "running" <=> itemStatus[i] = "running"
                      /\ itemStatus'[i] \in Done <=> itemStatus[i] \in Done
                      /\ Locked(i) => itemStatus'[i] = itemStatus[i]
    OBVIOUS
  <2>1. itemStatus[i] \in ItemState
    BY DEF Types
  <2>2. CASE PlanProcessing(r)
    BY <1>1, <2>1, <2>2 DEF PlanProcessing, Replanned, ItemState, Done, Dead, Broken
  <2>3. CASE PlanSuite(r)
    BY <1>1, <2>1, <2>3 DEF PlanSuite, ItemState, Done, Dead, Broken
  <2> QED BY <2>2, <2>3 DEF Plan
<1>3. Types'
  <2>1. itemStatus' \in [Item -> ItemState]
    BY <1>2 DEF Plan, PlanProcessing, PlanSuite
  <2>2. runStatus' \in [Run -> RunState]
    <3>1. RunAfterPlanning(r) \in RunState
      BY DEF RunAfterPlanning, RunState, RunActive, RunTerminal
    <3>2. runStatus' = [runStatus EXCEPT ![r] = RunAfterPlanning(r)]
      BY DEF Plan, PlanProcessing, PlanSuite
    <3> QED BY <3>1, <3>2 DEF Types
  <2>3. cancelReq' \in [Item -> BOOLEAN]
    <3>1. CASE PlanProcessing(r)
      BY <3>1 DEF PlanProcessing, RequestAfter, Types
    <3>2. CASE PlanSuite(r)
      BY <3>2 DEF PlanSuite, Types
    <3> QED BY <3>1, <3>2 DEF Plan
  <2> QED BY <1>1, <2>1, <2>2, <2>3 DEF Types
<1>4. LeaseColumns'
  BY <1>1, <1>2 DEF LeaseColumns
<1>5. TxnsCurrent'
  <2> SUFFICES ASSUME NEW w \in Worker, txn[w] # NoTxn
               PROVE  TxnCurrent(w)'
    BY <1>1 DEF TxnsCurrent
  <2>1. TxnCurrent(w) /\ job[w].item \in Item /\ txn[w].blocked \subseteq Item
    BY TxnItem, TxnIsFinish DEF TxnsCurrent
  <2> QED BY <1>1, <1>2, <2>1, TxnLocks DEF TxnCurrent, HoldsLease
<1>6. LocksExclusive'
  BY <1>1 DEF LocksExclusive
<1>7. UpstreamsDone'
  BY <1>2, NeedsAssumption DEF UpstreamsDone
<1>8. OnePublication'
  BY <1>1, <1>2, KindAssumption DEF OnePublication
<1> QED BY <1>3, <1>4, <1>5, <1>6, <1>7, <1>8

-----------------------------------------------------------------------------
(* Leases *)

\* A claim takes an item that is not locked, and a fence above all others.
LEMMA ClaimInv ==
  ASSUME Inv, NEW w \in Worker, NEW r \in Run, NEW i \in Item, Claim(w, r, i)
  PROVE  Inv'
<1> USE DEF Inv
<1>1. /\ UNCHANGED <<released, cancelReq, output, txn, sweep>>
      /\ job[w] = NoJob /\ ~Locked(i)
      /\ itemStatus[i] \in {"queued", "running"}
      /\ \A u \in Requires[i] : itemStatus[u] \in Done
      /\ fence[i] < MaxFence
  BY DEF Claim, Claimable
<1>2. /\ itemStatus' = [itemStatus EXCEPT ![i] = "running"]
      /\ owner' = [owner EXCEPT ![i] = KeyOf(w, i)]
      /\ lease' = [lease EXCEPT ![i] = LeaseTicks]
      /\ fence' = [fence EXCEPT ![i] = @ + 1]
      /\ runStatus' = [runStatus EXCEPT ![r] = "running"]
      /\ job' = [job EXCEPT ![w] =
           [phase |-> "executing", run |-> r, item |-> i, fence |-> fence[i] + 1]]
  BY DEF Claim
<1>3. Types'
  <2>1. fence[i] + 1 \in 1..MaxFence
    BY <1>1, BoundAssumption DEF Types
  <2>2. [phase |-> "executing", run |-> r, item |-> i, fence |-> fence[i] + 1] \in Claims
    BY <2>1 DEF Claims, Phase
  <2>3. job' \in [Worker -> {NoJob} \cup Claims]
    BY <1>2, <2>2 DEF Types
  <2>4. fence' \in [Item -> 0..MaxFence] /\ lease' \in [Item -> 0..LeaseTicks]
    BY <1>2, <2>1, BoundAssumption DEF Types
  <2>5. owner' \in [Item -> Owner]
    BY <1>2, KeyIsOwner DEF Types
  <2>6. itemStatus' \in [Item -> ItemState] /\ runStatus' \in [Run -> RunState]
    BY <1>2 DEF Types, ItemState, RunState, RunActive
  <2> QED BY <1>1, <2>3, <2>4, <2>5, <2>6 DEF Types
<1>4. LeaseColumns'
  BY <1>2, KeyIsOwner DEF LeaseColumns, Types
<1>5. \A v \in Worker : txn[v] # NoTxn =>
        /\ v # w /\ job'[v] = job[v]
        /\ job[v].item \in Item /\ job[v].item # i
        /\ i \notin txn[v].blocked /\ txn[v].blocked \subseteq Item
  <2> SUFFICES ASSUME NEW v \in Worker, txn[v] # NoTxn
               PROVE  /\ v # w /\ job'[v] = job[v]
                      /\ job[v].item \in Item /\ job[v].item # i
                      /\ i \notin txn[v].blocked /\ txn[v].blocked \subseteq Item
    OBVIOUS
  <2>1. job[v] # NoJob
    BY DEF TxnsCurrent, TxnCurrent, HoldsLease
  <2>2. v # w
    BY <1>1, <2>1
  <2>3. job[v].item \in Item /\ txn[v].blocked \subseteq Item
    BY TxnItem, TxnIsFinish
  <2> QED BY <1>1, <1>2, <2>2, <2>3, TxnLocks DEF Types
<1>6. TxnsCurrent'
  <2> SUFFICES ASSUME NEW v \in Worker, txn[v] # NoTxn
               PROVE  TxnCurrent(v)'
    BY <1>1 DEF TxnsCurrent
  <2> QED BY <1>1, <1>2, <1>5 DEF TxnsCurrent, TxnCurrent, HoldsLease, Types
<1>7. LocksExclusive'
  BY <1>1, <1>5 DEF LocksExclusive
<1>8. UpstreamsDone'
  BY <1>1, <1>2, NeedsAssumption DEF UpstreamsDone, Types, Done
<1>9. OnePublication'
  BY <1>1, <1>2, KindAssumption DEF OnePublication, Types, Done
<1> QED BY <1>3, <1>4, <1>6, <1>7, <1>8, <1>9

\* Renewals and the clock change nothing but the lease, and never the lease of a
\* row that is being finished.
LEMMA LeaseInv ==
  ASSUME Inv,
         (\E w \in Worker : Renew(w)) \/ (\E i \in Item : ElapseLease(i))
  PROVE  Inv'
<1> USE DEF Inv
<1>1. UNCHANGED <<runStatus, released, itemStatus, owner, fence, cancelReq, output, job, txn, sweep>>
  BY DEF Renew, ElapseLease
<1>2. lease' \in [Item -> 0..LeaseTicks] /\ \A i \in Item : Locked(i) => lease'[i] > 0 \/ lease'[i] = lease[i]
  <2>1. CASE \E w \in Worker : Renew(w)
    <3>1. PICK w \in Worker : Renew(w)
      BY <2>1
    <3>2. job[w].item \in Item
      BY <3>1, JobIsClaim DEF Renew, HoldsLease
    <3> QED BY <3>1, <3>2, BoundAssumption DEF Renew, Types
  <2>2. CASE \E i \in Item : ElapseLease(i)
    <3>1. PICK i \in Item : ElapseLease(i)
      BY <2>2
    <3> QED BY <3>1, BoundAssumption DEF ElapseLease, Types
  <2> QED BY <2>1, <2>2
<1>3. Types'
  BY <1>1, <1>2 DEF Types
<1>4. TxnsCurrent'
  <2> SUFFICES ASSUME NEW v \in Worker, txn[v] # NoTxn
               PROVE  TxnCurrent(v)'
    BY <1>1 DEF TxnsCurrent
  <2>1. job[v].item \in Item /\ lease[job[v].item] > 0
    BY TxnItem
  <2> QED BY <1>1, <1>2, <2>1, TxnLocks DEF TxnsCurrent, TxnCurrent, HoldsLease
<1>5. LeaseColumns' /\ LocksExclusive' /\ UpstreamsDone' /\ OnePublication'
  BY <1>1 DEF LeaseColumns, LocksExclusive, UpstreamsDone, OnePublication
<1> QED BY <1>3, <1>4, <1>5

-----------------------------------------------------------------------------
(* What a worker does in its own memory *)

\* A worker without an open transaction may change or drop its job; one with an
\* open transaction loses both at once.
LEMMA WorkerInv ==
  ASSUME Inv, NEW w \in Worker,
         ExecutionFails(w) \/ PublicationRefused(w) \/ FinishRejected(w) \/ Crash(w)
  PROVE  Inv'
<1> USE DEF Inv
<1>1. /\ UNCHANGED <<runStatus, released, itemVars, sweep>>
      /\ txn' = [txn EXCEPT ![w] = NoTxn]
      /\ job[w] # NoJob
      /\ \/ job' = [job EXCEPT ![w] = NoJob]
         \/ job' = [job EXCEPT ![w].phase = "erred"]
         \/ job' = [job EXCEPT ![w].phase = "refused"]
  <2>1. CASE Crash(w)
    BY <2>1 DEF Crash
  <2>2. CASE ExecutionFails(w) \/ PublicationRefused(w) \/ FinishRejected(w)
    <3>1. txn[w] = NoTxn /\ txn' = txn
      BY <2>2 DEF ExecutionFails, PublicationRefused, FinishRejected
    <3>2. txn' = [txn EXCEPT ![w] = NoTxn]
      BY <3>1 DEF Types
    <3> QED BY <2>2, <3>2 DEF ExecutionFails, PublicationRefused, FinishRejected
  <2> QED BY <2>1, <2>2
<1>2. Types'
  <2>1. job[w] \in Claims
    BY <1>1, JobIsClaim
  <2>2. /\ [job[w] EXCEPT !.phase = "erred"] \in Claims
        /\ [job[w] EXCEPT !.phase = "refused"] \in Claims
    BY <2>1 DEF Claims, Phase
  <2>3. job' \in [Worker -> {NoJob} \cup Claims]
    BY <1>1, <2>2 DEF Types
  <2> QED BY <1>1, <2>3 DEF Types, itemVars
<1>3. \A v \in Worker : txn'[v] # NoTxn => v # w /\ txn'[v] = txn[v] /\ job'[v] = job[v]
  BY <1>1 DEF Types
<1>4. TxnsCurrent'
  <2> SUFFICES ASSUME NEW v \in Worker, txn'[v] # NoTxn
               PROVE  TxnCurrent(v)'
    BY DEF TxnsCurrent
  <2> QED BY <1>1, <1>3 DEF TxnsCurrent, TxnCurrent, HoldsLease, itemVars
<1>5. LocksExclusive'
  BY <1>3 DEF LocksExclusive
<1>6. LeaseColumns' /\ UpstreamsDone' /\ OnePublication'
  BY <1>1 DEF LeaseColumns, UpstreamsDone, OnePublication, itemVars
<1> QED BY <1>2, <1>4, <1>5, <1>6

-----------------------------------------------------------------------------
(* Finish *)

\* A run gets one of the verdicts the model knows.
LEMMA VerdictType ==
  ASSUME NEW i \in Item, NEW outcome, NEW blocked, NEW r \in Run
  PROVE  RunVerdicts(i, outcome, blocked, r) \subseteq Verdict
BY DEF RunVerdicts, Verdict, RunTerminal

\* A finish decides one verdict per run among those its statements allow.
LEMMA BeginFinishVerdict ==
  ASSUME Inv, NEW w \in Worker, NEW outcome \in {"completed", "failed"},
         BeginFinish(w, outcome)
  PROVE  LET i == job[w].item
             blocked == IF outcome = "completed" THEN {}
                        ELSE {j \in Affected(i) : itemStatus[j] = "queued"}
         IN  \E verdict \in [Run -> Verdict] :
               /\ \A r \in Run : verdict[r] \in RunVerdicts(i, outcome, blocked, r)
               /\ txn' = [txn EXCEPT ![w] =
                    [outcome |-> outcome, blocked |-> blocked, verdict |-> verdict]]
<1> DEFINE i == job[w].item
           blocked == IF outcome = "completed" THEN {}
                      ELSE {j \in Affected(i) : itemStatus[j] = "queued"}
           verdicts == UNION {RunVerdicts(i, outcome, blocked, r) : r \in Run}
<1>1. i \in Item
  BY JobIsClaim DEF BeginFinish, HoldsLease, Inv
<1> HIDE DEF i, blocked
<1>2. ASSUME NEW x \in verdicts PROVE x \in Verdict
  <2>1. PICK r \in Run : x \in RunVerdicts(i, outcome, blocked, r)
    OBVIOUS
  <2> QED BY <1>1, <2>1, VerdictType
<1>3. PICK verdict \in [Run -> verdicts] :
        /\ \A r \in Run : verdict[r] \in RunVerdicts(i, outcome, blocked, r)
        /\ txn' = [txn EXCEPT ![w] =
             [outcome |-> outcome, blocked |-> blocked, verdict |-> verdict]]
  BY DEF BeginFinish, i, blocked
<1>4. verdict \in [Run -> Verdict]
  BY <1>2, <1>3
<1> QED BY <1>3, <1>4 DEF i, blocked

\* The statements of a finish lock rows no other finish has locked.
LEMMA BeginFinishInv ==
  ASSUME Inv, NEW w \in Worker, NEW outcome \in {"completed", "failed"},
         BeginFinish(w, outcome)
  PROVE  Inv'
<1> USE DEF Inv
<1> DEFINE i == job[w].item
           blocked == IF outcome = "completed" THEN {}
                      ELSE {j \in Affected(i) : itemStatus[j] = "queued"}
<1>1. /\ UNCHANGED <<runStatus, released, itemVars, job, sweep>>
      /\ txn[w] = NoTxn /\ HoldsLease(w) /\ ~Locked(i)
      /\ \A j \in blocked : ~Locked(j)
  BY DEF BeginFinish
<1>2. PICK verdict \in [Run -> Verdict] :
        txn' = [txn EXCEPT ![w] =
          [outcome |-> outcome, blocked |-> blocked, verdict |-> verdict]]
  BY BeginFinishVerdict
<1>3. blocked \subseteq Item /\ \A j \in blocked : itemStatus[j] = "queued"
  BY DEF Affected
<1>4. Types'
  <2>1. [outcome |-> outcome, blocked |-> blocked, verdict |-> verdict] \in Finishes
    BY <1>3 DEF Finishes
  <2> HIDE DEF blocked
  <2>2. txn' \in [Worker -> {NoTxn} \cup Finishes]
    BY <1>2, <2>1 DEF Types
  <2> QED BY <1>1, <2>2 DEF Types, itemVars
<1>5. txn'[w].blocked = blocked /\ \A v \in Worker \ {w} : txn'[v] = txn[v]
  BY <1>2 DEF Types
<1> HIDE DEF blocked
<1>6. TxnsCurrent'
  BY <1>1, <1>3, <1>5 DEF TxnsCurrent, TxnCurrent, HoldsLease, itemVars
<1>7. LocksExclusive'
  <2> SUFFICES ASSUME NEW v \in Worker, NEW u \in Worker, v # u,
                      txn'[v] # NoTxn, txn'[u] # NoTxn
               PROVE  job'[v].item # job'[u].item /\ txn'[v].blocked \cap txn'[u].blocked = {}
    BY DEF LocksExclusive
  <2>1. \A x \in Worker : x # w /\ txn[x] # NoTxn =>
          job[x].item # i /\ txn[x].blocked \cap blocked = {}
    BY <1>1, TxnLocks
  <2> QED BY <1>1, <1>5, <2>1 DEF LocksExclusive
<1>8. LeaseColumns' /\ UpstreamsDone' /\ OnePublication'
  BY <1>1 DEF LeaseColumns, UpstreamsDone, OnePublication, itemVars
<1> QED BY <1>4, <1>6, <1>7, <1>8

\* What a commit does to the items: its own ends, the blocked ones were queued,
\* all others stay.
LEMMA CommitItems ==
  ASSUME Inv, NEW w \in Worker, CommitFinish(w)
  PROVE  /\ job[w].item \in Item /\ itemStatus[job[w].item] = "running"
         /\ itemStatus'[job[w].item] = txn[w].outcome
         /\ txn[w].outcome \in {"completed", "failed"}
         /\ \A j \in Item \ {job[w].item} :
              \/ itemStatus'[j] = itemStatus[j] /\ j \notin txn[w].blocked
              \/ /\ j \in txn[w].blocked /\ itemStatus[j] = "queued"
                 /\ itemStatus'[j] = "blocked_upstream_failed"
<1>1. txn[w] # NoTxn /\ itemStatus' = [j \in Item |->
        AfterFinish(job[w].item, txn[w].outcome, txn[w].blocked, j)]
  BY DEF CommitFinish
<1>2. TxnCurrent(w)
  BY <1>1 DEF Inv, TxnsCurrent
<1>3. /\ job[w].item \in Item /\ itemStatus[job[w].item] = "running"
      /\ txn[w].outcome \in {"completed", "failed"}
  BY <1>1, TxnItem, TxnIsFinish DEF Inv
<1> QED BY <1>1, <1>2, <1>3 DEF AfterFinish, TxnCurrent

LEMMA CommitFinishInv ==
  ASSUME Inv, NEW w \in Worker, CommitFinish(w)
  PROVE  Inv'
<1> USE DEF Inv
<1> DEFINE i == job[w].item
           t == txn[w]
<1>1. /\ UNCHANGED <<released, fence, cancelReq, sweep>>
      /\ t # NoTxn
      /\ owner' = [owner EXCEPT ![i] = NoOwner]
      /\ lease' = [lease EXCEPT ![i] = 0]
      /\ output' = [output EXCEPT ![i] =
           IF t.outcome = "completed" /\ i \in Fenced THEN job[w].fence ELSE @]
      /\ runStatus' = [r \in Run |->
           IF t.verdict[r] # "none" /\ Closable(r) THEN t.verdict[r] ELSE runStatus[r]]
      /\ job' = [job EXCEPT ![w] = NoJob]
      /\ txn' = [txn EXCEPT ![w] = NoTxn]
  BY DEF CommitFinish
<1>2. /\ i \in Item /\ itemStatus[i] = "running" /\ itemStatus'[i] = t.outcome
      /\ t.outcome \in {"completed", "failed"}
      /\ \A j \in Item \ {i} :
           \/ itemStatus'[j] = itemStatus[j] /\ j \notin t.blocked
           \/ /\ j \in t.blocked /\ itemStatus[j] = "queued"
              /\ itemStatus'[j] = "blocked_upstream_failed"
  BY CommitItems
<1>3. job[w].fence \in 1..MaxFence /\ fence[i] = job[w].fence /\ t.verdict \in [Run -> Verdict]
  BY <1>1, TxnItem, JobIsClaim, TxnIsFinish DEF TxnsCurrent, TxnCurrent, HoldsLease
<1> HIDE DEF t, i
<1>4. Types'
  <2>1. itemStatus' \in [Item -> ItemState]
    <3>1. itemStatus' = [j \in Item |-> itemStatus'[j]]
      BY DEF CommitFinish
    <3> QED BY <1>2, <3>1 DEF Types, ItemState, Done, Dead, Broken
  <2>2. runStatus' \in [Run -> RunState]
    BY <1>1, <1>3 DEF Types, Verdict, RunState
  <2>3. owner' \in [Item -> Owner] /\ lease' \in [Item -> 0..LeaseTicks]
    <3>1. NoOwner \in Owner /\ 0 \in 0..LeaseTicks
      BY BoundAssumption DEF Owner
    <3> QED BY <1>1, <3>1 DEF Types
  <2>4. output' \in [Item -> 0..MaxFence]
    BY <1>1, <1>3, BoundAssumption DEF Types
  <2>5. job' \in [Worker -> {NoJob} \cup Claims] /\ txn' \in [Worker -> {NoTxn} \cup Finishes]
    BY <1>1 DEF Types
  <2> QED BY <1>1, <2>1, <2>2, <2>3, <2>4, <2>5 DEF Types
<1>5. LeaseColumns'
  BY <1>1, <1>2 DEF LeaseColumns, Types
<1>6. \A v \in Worker : txn'[v] # NoTxn => v # w /\ txn'[v] = txn[v] /\ job'[v] = job[v]
  BY <1>1 DEF Types
<1>7. TxnsCurrent'
  <2> SUFFICES ASSUME NEW v \in Worker, txn'[v] # NoTxn
               PROVE  TxnCurrent(v)'
    BY DEF TxnsCurrent
  <2>1. v # w /\ txn'[v] = txn[v] /\ txn[v] # NoTxn /\ job'[v] = job[v] /\ TxnCurrent(v)
    BY <1>6 DEF TxnsCurrent
  <2>2. job[v].item \in Item /\ itemStatus[job[v].item] = "running" /\ txn[v].blocked \subseteq Item
    BY <2>1, TxnItem, TxnIsFinish
  <2>3. job[v].item # i /\ txn[v].blocked \cap t.blocked = {}
    BY <1>1, <2>1 DEF LocksExclusive, t, i
  <2>4. itemStatus'[job[v].item] = "running"
    BY <1>2, <2>2, <2>3
  <2>5. HoldsLease(v)'
    BY <1>1, <2>1, <2>2, <2>3, <2>4 DEF TxnCurrent, HoldsLease, Types
  <2>6. \A j \in txn'[v].blocked : itemStatus'[j] = "queued"
    BY <1>2, <2>1, <2>2, <2>3 DEF TxnCurrent
  <2> QED BY <2>5, <2>6 DEF TxnCurrent
<1>8. LocksExclusive'
  BY <1>6 DEF LocksExclusive
<1>9. UpstreamsDone'
  BY <1>2, NeedsAssumption DEF UpstreamsDone, Done
<1>10. OnePublication'
  BY <1>1, <1>2, <1>3, KindAssumption DEF OnePublication, Types, Done
<1> QED BY <1>4, <1>5, <1>7, <1>8, <1>9, <1>10

-----------------------------------------------------------------------------
(* Release *)

LEMMA ReleaseInv ==
  ASSUME Inv, NEW r \in Run, Release(r)
  PROVE  Inv'
<1> USE DEF Inv
<1>1. CASE BeginRelease(r) \/ AbortRelease(r)
  <2>1. UNCHANGED <<runStatus, released, itemVars, job, txn>>
    BY <1>1 DEF BeginRelease, AbortRelease
  <2>2. sweep' \in [Run -> SUBSET Run]
    BY <1>1 DEF BeginRelease, AbortRelease, Seen, Types
  <2> QED BY <2>1, <2>2 DEF Types, LeaseColumns, TxnsCurrent, TxnCurrent, HoldsLease,
                            LocksExclusive, UpstreamsDone, OnePublication, itemVars
<1>2. CASE CommitRelease(r)
  <2>1. UNCHANGED <<owner, lease, fence, output, job, txn>>
    BY <1>2 DEF CommitRelease
  <2>2. \A i \in Item :
          \/ itemStatus'[i] = itemStatus[i]
          \/ itemStatus[i] = "queued" /\ itemStatus'[i] = "cancelled" /\ ~Locked(i)
    BY <1>2 DEF CommitRelease
  <2>3. Types'
    <3>1. itemStatus' \in [Item -> ItemState]
      BY <1>2 DEF CommitRelease, Types, ItemState, Dead
    <3>2. runStatus' \in [Run -> RunState]
      BY <1>2 DEF CommitRelease, RunAfterRelease, Types, RunState, RunTerminal
    <3>3. released' \in [Run -> BOOLEAN] /\ cancelReq' \in [Item -> BOOLEAN]
      BY <1>2 DEF CommitRelease, Types
    <3>4. sweep' \in [Run -> SUBSET Run]
      BY <1>2 DEF CommitRelease, Types
    <3> QED BY <2>1, <3>1, <3>2, <3>3, <3>4 DEF Types
  <2>4. LeaseColumns'
    BY <2>1, <2>2 DEF LeaseColumns
  <2>5. TxnsCurrent'
    <3> SUFFICES ASSUME NEW v \in Worker, txn[v] # NoTxn
                 PROVE  TxnCurrent(v)'
      BY <2>1 DEF TxnsCurrent
    <3>1. TxnCurrent(v) /\ job[v].item \in Item /\ txn[v].blocked \subseteq Item
      BY TxnItem, TxnIsFinish DEF TxnsCurrent
    <3> QED BY <2>1, <2>2, <3>1, TxnLocks DEF TxnCurrent, HoldsLease
  <2>6. LocksExclusive' /\ UpstreamsDone' /\ OnePublication'
    BY <2>1, <2>2, NeedsAssumption, KindAssumption DEF LocksExclusive, UpstreamsDone, OnePublication, Done
  <2> QED BY <2>3, <2>4, <2>5, <2>6
<1> QED BY <1>1, <1>2 DEF Release

-----------------------------------------------------------------------------
(* The theorems *)

LEMMA NextInv == Inv /\ [Next]_vars => Inv'
<1> SUFFICES ASSUME Inv, [Next]_vars PROVE Inv'
  OBVIOUS
<1>1. CASE \E r \in Run : Plan(r) \/ Release(r)
  BY <1>1, PlanInv, ReleaseInv
<1>2. CASE \E w \in Worker : ClaimSome(w)
  BY <1>2, ClaimInv DEF ClaimSome
<1>3. CASE \E w \in Worker : ExecutionFails(w) \/ PublicationRefused(w)
                              \/ FinishRejected(w) \/ Crash(w)
  BY <1>3, WorkerInv
<1>4. CASE \E w \in Worker : Finish(w)
  BY <1>4, BeginFinishInv DEF Finish
<1>5. CASE \E w \in Worker : CommitFinish(w)
  BY <1>5, CommitFinishInv
<1>6. CASE (\E w \in Worker : Renew(w)) \/ (\E i \in Item : ElapseLease(i))
  BY <1>6, LeaseInv
<1>7. CASE UNCHANGED vars
  BY <1>7 DEF Inv, Types, LeaseColumns, TxnsCurrent, TxnCurrent, HoldsLease,
              LocksExclusive, UpstreamsDone, OnePublication, vars
<1> QED BY <1>1, <1>2, <1>3, <1>4, <1>5, <1>6, <1>7 DEF Next

\* The scheduler never leaves its inductive invariant.
THEOREM Invariance == Spec => []Inv
BY InitInv, NextInv, PTL DEF Spec

\* Whatever the runs, items and workers: every column keeps its type, and the
\* CHECK on the lease columns of v022_graph_work_item is never run into.
THEOREM TypeCorrect == Spec => []TypeOK
<1>1. Inv => TypeOK
  BY DEF Inv, TypeOK
<1> QED BY <1>1, Invariance, PTL

\* No item runs or is done over an upstream that is not, for any dependency
\* relation: claims wait, and no plan, failure or release takes a result back.
THEOREM UpstreamsFirst == Spec => []UpstreamsDone
<1>1. Inv => UpstreamsDone
  BY DEF Inv
<1> QED BY <1>1, Invariance, PTL

\* A fenced item is done exactly when it has an output, and the output is that
\* of its latest claim: a stale worker never publishes.
THEOREM PublishedOnce == Spec => []OnePublication
<1>1. Inv => OnePublication
  BY DEF Inv
<1> QED BY <1>1, Invariance, PTL

-----------------------------------------------------------------------------
(* Steps *)

\* How a step changes the status of an item: nine of the actions leave all of
\* them alone.
LEMMA StatusSteps ==
  ASSUME Inv, Next, NEW i \in Item, itemStatus'[i] # itemStatus[i]
  PROVE  \/ \E r \in Run : Plan(r)
         \/ \E w \in Worker, r \in Run, j \in Item : Claim(w, r, j)
         \/ \E w \in Worker : CommitFinish(w)
         \/ \E r \in Run : CommitRelease(r)
BY DEF Next, Release, BeginRelease, AbortRelease, ClaimSome, Renew, ExecutionFails,
       PublicationRefused, Finish, BeginFinish, FinishRejected, Crash, ElapseLease, itemVars

LEMMA ResultStep ==
  ASSUME Inv, [Next]_vars, NEW i \in Item, itemStatus[i] \in Done
  PROVE  itemStatus'[i] \in Done /\ output'[i] = output[i]
<1>1. CASE \E r \in Run : Plan(r)
  BY <1>1 DEF Plan, PlanProcessing, PlanSuite, Replanned, Done, Dead, Broken
<1>2. CASE \E w \in Worker, r \in Run, j \in Item : Claim(w, r, j)
  BY <1>2 DEF Claim, Claimable, Done, Inv, Types
<1>3. CASE \E w \in Worker : CommitFinish(w)
  <2>1. PICK w \in Worker : CommitFinish(w)
    BY <1>3
  <2>2. job[w].item # i /\ itemStatus'[i] = itemStatus[i]
    BY <2>1, CommitItems DEF Done
  <2>3. \E x : output' = [output EXCEPT ![job[w].item] = x]
    BY <2>1 DEF CommitFinish
  <2> QED BY <2>2, <2>3 DEF Inv, Types
<1>4. CASE \E r \in Run : CommitRelease(r)
  BY <1>4 DEF CommitRelease, Done
<1>5. CASE UNCHANGED itemVars
  BY <1>5 DEF itemVars
<1> QED BY <1>1, <1>2, <1>3, <1>4, <1>5
        DEF Next, Release, BeginRelease, AbortRelease, ClaimSome, Renew, ExecutionFails,
            PublicationRefused, Finish, BeginFinish, FinishRejected, Crash, ElapseLease,
            itemVars, vars

\* A result is never lost and its published output never replaced, whatever
\* is planned, claimed, failed or released afterwards.
THEOREM ResultsNeverLost == Spec => ResultsStay
<1>1. Inv /\ [Next]_vars =>
        [\A i \in Item : itemStatus[i] \in Done =>
           itemStatus'[i] \in Done /\ output'[i] = output[i]]_vars
  BY ResultStep
<1> QED BY <1>1, Invariance, PTL DEF Spec, ResultsStay

LEMMA EndStep ==
  ASSUME Inv, Next, NEW i \in Item, itemStatus[i] = "running", itemStatus'[i] # "running"
  PROVE  \E w \in Worker : /\ job[w] # NoJob /\ job'[w] = NoJob
                           /\ job[w].item = i /\ job[w].fence = fence[i] /\ lease[i] > 0
<1>1. CASE \E r \in Run : Plan(r)
  BY <1>1 DEF Plan, PlanProcessing, PlanSuite, Replanned, Done, Dead, Broken
<1>2. CASE \E w \in Worker, r \in Run, j \in Item : Claim(w, r, j)
  BY <1>2 DEF Claim, Inv, Types
<1>3. CASE \E w \in Worker : CommitFinish(w)
  <2>1. PICK w \in Worker : CommitFinish(w)
    BY <1>3
  <2>2. job[w].item = i
    BY <2>1, CommitItems
  <2>3. txn[w] # NoTxn /\ job' = [job EXCEPT ![w] = NoJob]
    BY <2>1 DEF CommitFinish
  <2>4. HoldsLease(w)
    BY <2>3 DEF Inv, TxnsCurrent, TxnCurrent
  <2> QED BY <2>2, <2>3, <2>4 DEF HoldsLease, Inv, Types
<1>4. CASE \E r \in Run : CommitRelease(r)
  BY <1>4 DEF CommitRelease
<1> QED BY <1>1, <1>2, <1>3, <1>4, StatusSteps

\* Only the latest claim of an item ends it, and only within its lease: no
\* number of crashes and late returns lets a superseded worker decide, even
\* where all of them go by the same key.
THEOREM StaleClaimsChangeNothing == Spec => OnlyLatestClaimEnds
<1>1. Inv /\ [Next]_vars =>
        [\A i \in Item : itemStatus[i] = "running" /\ itemStatus'[i] # "running" =>
           \E w \in Worker : /\ job[w] # NoJob /\ job'[w] = NoJob
                             /\ job[w].item = i /\ job[w].fence = fence[i] /\ lease[i] > 0]_vars
  BY EndStep
<1> QED BY <1>1, Invariance, PTL DEF Spec, OnlyLatestClaimEnds

LEMMA TerminalStep ==
  ASSUME Inv, [Next]_vars, NEW r \in Run, runStatus[r] \in RunTerminal
  PROVE  runStatus'[r] = runStatus[r]
<1>1. runStatus[r] \notin RunActive \cup {"absent"}
  BY DEF RunTerminal, RunActive
<1>2. CASE \E q \in Run : Plan(q)
  BY <1>1, <1>2 DEF Plan, PlanProcessing, PlanSuite, Inv, Types
<1>3. CASE \E w \in Worker, q \in Run, j \in Item : Claim(w, q, j)
  BY <1>1, <1>3 DEF Claim, Claimable, Serves, Inv, Types
<1>4. CASE \E w \in Worker : CommitFinish(w)
  BY <1>1, <1>4 DEF CommitFinish, Closable
<1>5. CASE \E q \in Run : CommitRelease(q)
  BY <1>1, <1>5 DEF CommitRelease, RunAfterRelease, Inv, Types
<1>6. CASE UNCHANGED runStatus
  BY <1>6
<1> QED BY <1>2, <1>3, <1>4, <1>5, <1>6
        DEF Next, Release, BeginRelease, AbortRelease, ClaimSome, Renew, ExecutionFails,
            PublicationRefused, Finish, BeginFinish, FinishRejected, Crash, ElapseLease, vars

\* A run that has ended keeps its end, whatever happens to the work it shared.
THEOREM TerminalRunsNeverChange == Spec => TerminalRunStays
<1>1. Inv /\ [Next]_vars =>
        [\A r \in Run : runStatus[r] \in RunTerminal => runStatus'[r] = runStatus[r]]_vars
  BY TerminalStep
<1> QED BY <1>1, Invariance, PTL DEF Spec, TerminalRunStays

-----------------------------------------------------------------------------
(* Completion *)

\* A run that an uncommitted finish of w completes is done but for its item.
VerdictsSound(w) ==
  \A r \in Run : txn[w].verdict[r] = "completed" =>
    /\ txn[w].outcome = "completed"
    /\ \A i \in Needs[r] \ {job[w].item} : itemStatus[i] \in Done

\* The invariant behind CompletedRunIsDone: between the decision of a finish
\* and its commit no result of the run is lost.
Completion ==
  /\ CompletedRunIsDone
  /\ \A w \in Worker : txn[w] # NoTxn => VerdictsSound(w)

LEMMA BeginVerdictsSound ==
  ASSUME Inv, NEW w \in Worker, NEW outcome \in {"completed", "failed"},
         BeginFinish(w, outcome)
  PROVE  VerdictsSound(w)'
<1> DEFINE i == job[w].item
           blocked == IF outcome = "completed" THEN {}
                      ELSE {j \in Affected(i) : itemStatus[j] = "queued"}
<1>1. PICK verdict \in [Run -> Verdict] :
        /\ \A r \in Run : verdict[r] \in RunVerdicts(i, outcome, blocked, r)
        /\ txn' = [txn EXCEPT ![w] =
             [outcome |-> outcome, blocked |-> blocked, verdict |-> verdict]]
  BY BeginFinishVerdict
<1>2. UNCHANGED <<itemVars, job>>
  BY DEF BeginFinish
<1>3. txn'[w].verdict = verdict /\ txn'[w].outcome = outcome
  BY <1>1 DEF Inv, Types
<1> HIDE DEF blocked, i
<1>4. SUFFICES ASSUME NEW r \in Run, verdict[r] = "completed"
               PROVE  /\ outcome = "completed"
                      /\ \A j \in Needs[r] \ {i} : itemStatus[j] \in Done
  BY <1>2, <1>3 DEF VerdictsSound, itemVars, i
<1>5. /\ i \in Needs[r]
      /\ DeadAfter(i, outcome, blocked, r) = {} /\ LeftAfter(i, outcome, blocked, r) = {}
  BY <1>1, <1>4 DEF RunVerdicts
<1>6. \A j \in Needs[r] : /\ AfterFinish(i, outcome, blocked, j) \in Done
                          /\ AfterFinish(i, outcome, blocked, j) \notin Dead
  BY <1>5 DEF DeadAfter, LeftAfter
<1>7. outcome = "completed"
  BY <1>5, <1>6 DEF AfterFinish, Dead, Broken
<1> QED BY <1>6, <1>7 DEF AfterFinish, Done

\* An open transaction of w was opened by this step or is as before.
LEMMA TxnStep ==
  ASSUME Inv, [Next]_vars, NEW w \in Worker, txn'[w] # NoTxn
  PROVE  \/ txn'[w] = txn[w] /\ job'[w].item = job[w].item
         \/ \E outcome \in {"completed", "failed"} : BeginFinish(w, outcome)
<1>1. CASE \E v \in Worker : Finish(v)
  <2>1. PICK v \in Worker, outcome \in {"completed", "failed"} : BeginFinish(v, outcome)
    BY <1>1 DEF Finish
  <2>2. job' = job /\ \E t : txn' = [txn EXCEPT ![v] = t]
    BY <2>1, BeginFinishVerdict DEF BeginFinish
  <2> QED BY <2>1, <2>2 DEF Inv, Types
<1>2. CASE \E v \in Worker : CommitFinish(v)
  BY <1>2 DEF CommitFinish, Inv, Types
<1>3. CASE \E v \in Worker : Crash(v)
  BY <1>3 DEF Crash, Inv, Types
<1>4. CASE \E v \in Worker : ExecutionFails(v) \/ PublicationRefused(v) \/ FinishRejected(v)
  BY <1>4 DEF ExecutionFails, PublicationRefused, FinishRejected, Inv, Types
<1>5. CASE \E v \in Worker : ClaimSome(v)
  <2>1. PICK v \in Worker, r \in Run, i \in Item : Claim(v, r, i)
    BY <1>5 DEF ClaimSome
  <2>2. txn' = txn /\ job[v] = NoJob
    BY <2>1 DEF Claim
  <2>3. job[w] # NoJob
    BY <2>2 DEF Inv, TxnsCurrent, TxnCurrent, HoldsLease
  <2> QED BY <2>1, <2>2, <2>3 DEF Claim, Inv, Types
<1>6. CASE UNCHANGED <<job, txn>>
  BY <1>6
<1> QED BY <1>1, <1>2, <1>3, <1>4, <1>5, <1>6
        DEF Next, Plan, PlanProcessing, PlanSuite, Release, BeginRelease, CommitRelease,
            AbortRelease, Renew, ElapseLease, vars

LEMMA CompletionStep ==
  ASSUME Inv, Completion, [Next]_vars
  PROVE  Completion'
<1>1. \A i \in Item : itemStatus[i] \in Done => itemStatus'[i] \in Done
  BY ResultStep
<1>2. \A r \in Run : Needs[r] \subseteq Item
  BY NeedsAssumption
<1>3. CompletedRunIsDone'
  <2> SUFFICES ASSUME NEW r \in Run, runStatus'[r] = "completed", runStatus[r] # "completed"
               PROVE  \A i \in Needs[r] : itemStatus'[i] \in Done
    BY <1>1, <1>2 DEF Completion, CompletedRunIsDone
  <2>1. CASE \E q \in Run : Plan(q)
    BY <2>1 DEF Plan, PlanProcessing, PlanSuite, RunAfterPlanning, Inv, Types
  <2>2. CASE \E w \in Worker, q \in Run, j \in Item : Claim(w, q, j)
    BY <2>2 DEF Claim, Inv, Types
  <2>3. CASE \E w \in Worker : CommitFinish(w)
    <3>1. PICK w \in Worker : CommitFinish(w)
      BY <2>3
    <3>2. txn[w] # NoTxn /\ txn[w].verdict[r] = "completed"
      BY <3>1 DEF CommitFinish
    <3>3. /\ txn[w].outcome = "completed"
          /\ \A i \in Needs[r] \ {job[w].item} : itemStatus[i] \in Done
      BY <3>2 DEF Completion, VerdictsSound
    <3>4. itemStatus'[job[w].item] \in Done
      BY <3>1, <3>3, CommitItems DEF Done
    <3> QED BY <1>1, <1>2, <3>3, <3>4
  <2>4. CASE \E q \in Run : CommitRelease(q)
    BY <2>4 DEF CommitRelease, RunAfterRelease, Inv, Types
  <2>5. CASE UNCHANGED runStatus
    BY <2>5
  <2> QED BY <2>1, <2>2, <2>3, <2>4, <2>5
          DEF Next, Release, BeginRelease, AbortRelease, ClaimSome, Renew, ExecutionFails,
              PublicationRefused, Finish, BeginFinish, FinishRejected, Crash, ElapseLease, vars
<1>4. ASSUME NEW w \in Worker, txn'[w] # NoTxn
      PROVE  VerdictsSound(w)'
  <2>1. CASE \E outcome \in {"completed", "failed"} : BeginFinish(w, outcome)
    BY <2>1, BeginVerdictsSound
  <2>2. CASE txn'[w] = txn[w] /\ job'[w].item = job[w].item
    <3>1. VerdictsSound(w)
      BY <1>4, <2>2 DEF Completion
    <3> QED BY <1>1, <1>2, <2>2, <3>1 DEF VerdictsSound
  <2> QED BY <1>4, <2>1, <2>2, TxnStep
<1> QED BY <1>3, <1>4 DEF Completion

\* A completed run has all its results, for any sharing of work between runs:
\* the count of what is left that a finish made before its commit stays right.
THEOREM CompletedMeansDone == Spec => []CompletedRunIsDone
<1>1. Init => Completion
  BY DEF Init, Completion, CompletedRunIsDone
<1>2. Inv /\ Completion /\ [Next]_vars => Completion'
  BY CompletionStep
<1>3. Completion => CompletedRunIsDone
  BY DEF Completion
<1> QED BY <1>1, <1>2, <1>3, Invariance, PTL DEF Spec

=============================================================================
