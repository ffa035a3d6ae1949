------------------------------ MODULE RoundGc ------------------------------
(***************************************************************************)
(* Retention: what becomes of the payload files of a Research Round after  *)
(* it is reset.  Collectors plan and evict; meanwhile workers publish      *)
(* results and evidence, suites of other rounds are planned over the same  *)
(* work, and users promote evidence to Products.                           *)
(*                                                                         *)
(* The database and the object directory share no transaction: a file is   *)
(* written before the manifest that points to it and removed after the     *)
(* check that nothing does.  Only collectors and promote-and-enroll take   *)
(* the retention guard, an advisory lock.                                  *)
(*                                                                         *)
(* A manifest depends on the output it holds, not the output on the        *)
(* manifest, and retention follows dependencies.  So having a result does  *)
(* not lead to its own file: the results computed from it do, when they    *)
(* cite the manifest, and its evidence does.                               *)
(*                                                                         *)
(* Bounds: a round has one suite, a result one object; a dead item is not  *)
(* queued again (GraphDag models the scheduler itself).  What is computed  *)
(* before a suite is planned, the node outputs, is left out.  The session  *)
(* that holds the guard lives as long as the process that uses it.         *)
(*                                                                         *)
(* An operator whose comment begins with Fault is the operator below it    *)
(* with a plausible bug; it is used only to see a property fail.           *)
(***************************************************************************)
EXTENDS Integers, Sequences, FiniteSets

CONSTANTS
  Round,      \* Research Rounds
  Item,       \* Work Items; each publishes one result
  Object,     \* payload objects: contents, hence files
  Worker,     \* processes that execute Work Items
  Collector,  \* round-gc processes
  Daemon,     \* the collector started with --forever
  Needs,      \* Needs[r]: the items the suite of r consumes
  Requires,   \* Requires[i]: every item i is computed from, transitively
  Cites,      \* Cites[i]: those of them whose manifests the output of i leads to
  ObjectOf,   \* ObjectOf[i]: the object of the result of i
  Evidence,   \* items whose results evidence is published of
  NULL,
  MaxCrashes  \* bound: processes that die or come late and evictions that fail

ASSUME RoundAssumption ==
  /\ Needs \in [Round -> SUBSET Item] /\ Requires \in [Item -> SUBSET Item]
  /\ \A r \in Round, i \in Item : i \in Needs[r] => Requires[i] \subseteq Needs[r]
  /\ \A i \in Item : \A j \in Requires[i] : Requires[j] \subseteq Requires[i] /\ i \notin Requires[j]
  /\ Cites \in [Item -> SUBSET Item]
  /\ \A i \in Item : Cites[i] \subseteq Requires[i] /\ \A j \in Requires[i] : Cites[j] \subseteq Cites[i]
  /\ ObjectOf \in [Item -> Object] /\ Evidence \subseteq Item
  /\ Daemon \in Collector /\ NULL \notin Item /\ IsFiniteSet(Item) /\ MaxCrashes \in Nat

VARIABLES
  round,      \* v022_research_round.status
  closed,     \* the closed rounds in the order of closed_at
  run,        \* the suite's Graph Run
  released,   \* its consumers carry released_at
  item,       \* v022_graph_work_item.status
  cancelReq,  \* items with cancel_requested_at
  evident,    \* results with a v022_result_evidence_snapshot
  late,       \* history: those whose evidence came when the round was not active
  job,        \* what each worker process holds
  file,       \* the objects in the payload directory
  loose,      \* files written since their object was last registered
  enrolled,   \* results promoted under the guard
  candidate,  \* results promoted by the candidate endpoint
  promoting,  \* the result being promoted under the guard
  plan,       \* the rows of v022_research_round_gc_plan, by identity
  tombstone,  \* the plan a round's tombstone names
  collector,  \* what each collector process holds
  crashes

researchVars == <<round, closed, run, released, item, cancelReq>>
evidenceVars == <<evident, late>>
productVars == <<enrolled, candidate, promoting>>
gcVars == <<plan, tombstone, collector>>
vars == <<researchVars, evidenceVars, job, file, loose, productVars, gcVars, crashes>>

RunState == {"none", "building", "active", "completed", "failed", "cancelled"}
ItemState == {"absent", "queued", "running", "done", "dead"}
Open == {"queued", "running"}

\* plan_id: uuid5 of the round, the number of manifests and the objects.
PlanId == [round : Round, manifests : 0..Cardinality(Item), objects : SUBSET Object]
ASSUME PlanIdAssumption == NULL \notin PlanId

PlanState == {"planned", "running", "completed", "failed"}

NoJob == [at |-> "idle"]
Jobs == [at : {"executing", "written"}, round : Round, item : Item, lost : BOOLEAN]
Idle == [at |-> "idle"]
Sweeps == [at : {"planned"}, plan : PlanId]
          \cup [at : {"evicting"}, plan : PlanId, left : SUBSET Object]

Init ==
  /\ round = [r \in Round |-> "absent"] /\ closed = <<>>
  /\ run = [r \in Round |-> "none"] /\ released = [r \in Round |-> FALSE]
  /\ item = [i \in Item |-> "absent"] /\ cancelReq = {}
  /\ evident = {} /\ late = {}
  /\ job = [w \in Worker |-> NoJob]
  /\ file = {} /\ loose = {}
  /\ enrolled = {} /\ candidate = {} /\ promoting = NULL
  /\ plan = <<>> /\ tombstone = [r \in Round |-> NULL]
  /\ collector = [g \in Collector |-> Idle]
  /\ crashes = 0

-----------------------------------------------------------------------------
(* Reachability: the views of migration 133 *)

\* Evidence depends on the manifest of its result and on the output itself.
Reached(i) == {i} \cup Cites[i]

\* ops.v022_research_round_artifact with its closure: the results whose
\* manifests the outputs and the evidence lead to, of the work that the suite's
\* bound Graph Run consumes, released or not.
RoundResults(r) ==
  IF run[r] \in {"none", "building"} THEN {}
  ELSE (Needs[r] \cap evident) \cup UNION {Cites[i] : i \in {j \in Needs[r] : item[j] = "done"}}

ObjectsOf(S) == {ObjectOf[i] : i \in S}

\* product.v022_product_strong_artifact with its closure.
ProductResults == UNION {Reached(i) : i \in enrolled \cup candidate}

\* data.v022_strong_payload_manifest
StrongResults == ProductResults \cup UNION {RoundResults(r) : r \in {q \in Round : round[q] = "active"}}
Strong(o) == o \in ObjectsOf(StrongResults)

\* _count_nonterminal_graph_work
Nonterminal(r) ==
  run[r] \notin {"none", "building"} /\ \E i \in Needs[r] : item[i] \in Open

-----------------------------------------------------------------------------
(* Rounds and their suites *)

\* A round is opened and its suite submitted.
OpenRound(r) ==
  /\ round[r] = "absent"
  /\ round' = [round EXCEPT ![r] = "active"]
  /\ UNCHANGED <<closed, run, released, item, cancelReq, evidenceVars, job, file, loose, productVars, gcVars, crashes>>

\* A worker locks the suite of an active round and builds its plan.
BuildSuite(r) ==
  /\ round[r] = "active" /\ run[r] = "none"
  /\ run' = [run EXCEPT ![r] = "building"]
  /\ UNCHANGED <<round, closed, released, item, cancelReq, evidenceVars, job, file, loose, productVars, gcVars, crashes>>

\* The Suite Runtime Plan is written whatever has become of the round.  Results
\* that exist are consumed as they are: nobody looks for their files.
PlanSuite(r) ==
  /\ run[r] = "building"
  /\ \A i \in Needs[r] : item[i] # "dead"
  /\ item' = [i \in Item |-> IF i \in Needs[r] /\ item[i] = "absent" THEN "queued" ELSE item[i]]
  /\ run' = [run EXCEPT ![r] =
       IF \A i \in Needs[r] : item[i] = "done" THEN "completed" ELSE "active"]
  /\ UNCHANGED <<round, closed, released, cancelReq, evidenceVars, job, file, loose, productVars, gcVars, crashes>>

\* The plan is refused, or its worker dies.
AbandonSuite(r) ==
  /\ run[r] = "building"
  /\ run' = [run EXCEPT ![r] = "none"]
  /\ UNCHANGED <<round, closed, released, item, cancelReq, evidenceVars, job, file, loose, productVars, gcVars, crashes>>

\* Work that loses its last unreleased consumer with r.
Orphaned(r) ==
  {i \in Needs[r] : \A q \in Round \ {r} :
     run[q] \notin {"none", "building"} /\ i \in Needs[q] => released[q]}

\* GraphDraftService.reset_current_research: runs that have ended are not
\* released, so what they leave queued stays queued.
Reset(r) ==
  /\ round[r] = "active"
  /\ round' = [round EXCEPT ![r] = "gc_pending"]
  /\ closed' = Append(closed, r)
  /\ IF run[r] = "active"
       THEN /\ released' = [released EXCEPT ![r] = TRUE]
            /\ run' = [run EXCEPT ![r] = "cancelled"]
            /\ cancelReq' = cancelReq \cup {i \in Orphaned(r) : item[i] \in Open}
            /\ item' = [i \in Item |->
                 IF i \in Orphaned(r) /\ item[i] = "queued" THEN "dead" ELSE item[i]]
       ELSE UNCHANGED <<released, run, cancelReq, item>>
  /\ UNCHANGED <<evidenceVars, job, file, loose, productVars, gcVars, crashes>>

-----------------------------------------------------------------------------
(* Workers *)

Current(w, i) == job[w] # NoJob /\ job[w].item = i /\ ~job[w].lost

\* Only suites of active rounds are served.
Claim(w, r, i) ==
  /\ job[w] = NoJob
  /\ round[r] = "active" /\ run[r] = "active" /\ i \in Needs[r] /\ i \notin cancelReq
  /\ \/ item[i] = "queued"
     \/ item[i] = "running" /\ \A v \in Worker : ~Current(v, i)
  /\ \A j \in Requires[i] : item[j] = "done"
  /\ item' = [item EXCEPT ![i] = "running"]
  /\ job' = [job EXCEPT ![w] = [at |-> "executing", round |-> r, item |-> i, lost |-> FALSE]]
  /\ UNCHANGED <<round, closed, run, released, cancelReq, evidenceVars, file, loose, productVars, gcVars, crashes>>

\* LocalPayloadObjectStore.publish: a file of that content is used as it is.
\* Neither a guard nor a transaction is open, and a worker that has lost its
\* lease does not know it yet.
WriteFile(w) ==
  /\ job[w] # NoJob /\ job[w].at = "executing"
  /\ file' = file \cup {ObjectOf[job[w].item]}
  /\ loose' = loose \cup {ObjectOf[job[w].item]}
  /\ job' = [job EXCEPT ![w].at = "written"]
  /\ UNCHANGED <<researchVars, evidenceVars, productVars, gcVars, crashes>>

MayPublish(w) ==
  LET i == job[w].item
  IN  Current(w, i) /\ i \notin cancelReq /\ ~released[job[w].round] /\ run[job[w].round] = "active"

\* Fault: a run ends with its first result.
RunsAfterFirst(done, broken) ==
  [r \in Round |->
     IF run[r] # "active" THEN run[r]
     ELSE IF Needs[r] \cap broken # {} THEN "failed"
     ELSE IF Needs[r] \cap done # {} THEN "completed" ELSE "active"]

RunsAfter(done, broken) ==
  [r \in Round |->
     IF run[r] # "active" THEN run[r]
     ELSE IF Needs[r] \cap broken # {} THEN "failed"
     ELSE IF Needs[r] \subseteq done THEN "completed" ELSE "active"]

\* The manifest is registered and the item finished, in one transaction.
Register(w) ==
  /\ job[w] # NoJob /\ job[w].at = "written" /\ MayPublish(w)
  /\ LET i == job[w].item
     IN  /\ item' = [item EXCEPT ![i] = "done"]
         /\ loose' = loose \ {ObjectOf[i]}
         /\ run' = RunsAfter({j \in Item : item'[j] = "done"}, {})
  /\ job' = [job EXCEPT ![w] = NoJob]
  /\ UNCHANGED <<round, closed, released, cancelReq, evidenceVars, file, productVars, gcVars, crashes>>

\* The execution fails or its publication is refused: the item and the queued
\* items below it are dead, the active runs that need them fail.
Fail(w) ==
  /\ job[w] # NoJob /\ Current(w, job[w].item)
  /\ LET i == job[w].item
         broken == {i} \cup {j \in Item : i \in Requires[j] /\ item[j] = "queued"}
     IN  /\ item' = [j \in Item |-> IF j \in broken THEN "dead" ELSE item[j]]
         /\ run' = RunsAfter({}, broken)
  /\ job' = [job EXCEPT ![w] = NoJob]
  /\ UNCHANGED <<round, closed, released, cancelReq, evidenceVars, file, loose, productVars, gcVars, crashes>>

\* The lease of a live worker expires; what it still records is refused.
LoseLease(w) ==
  /\ job[w] # NoJob /\ ~job[w].lost /\ crashes < MaxCrashes
  /\ job' = [job EXCEPT ![w].lost = TRUE]
  /\ crashes' = crashes + 1
  /\ UNCHANGED <<researchVars, evidenceVars, file, loose, productVars, gcVars>>

\* The worker is refused by its fence, or dies.
Drop(w) ==
  /\ job[w] # NoJob
  /\ IF job[w].lost THEN UNCHANGED crashes ELSE crashes < MaxCrashes /\ crashes' = crashes + 1
  /\ job' = [job EXCEPT ![w] = NoJob]
  /\ UNCHANGED <<researchVars, evidenceVars, file, loose, productVars, gcVars>>

\* SuiteResultEvidenceService.publish, one result at a time.  A worker that has
\* locked the suite goes on when its round is closed.
PublishEvidence(r) ==
  /\ run[r] = "completed"
  /\ \E i \in (Needs[r] \cap Evidence) \ evident :
       /\ evident' = evident \cup {i}
       /\ \/ round[r] = "active" /\ UNCHANGED <<late, crashes>>
          \/ /\ round[r] # "active" /\ crashes < MaxCrashes
             /\ late' = late \cup {i} /\ crashes' = crashes + 1
  /\ UNCHANGED <<researchVars, job, file, loose, productVars, gcVars>>

-----------------------------------------------------------------------------
(* Promotion *)

\* Fault: collectors exclude one another, promotions do not take the guard.
GuardFreeOfSweeps == \A g \in Collector : collector[g].at # "evicting"

\* v022_retention_guard: one session holds the advisory lock.
GuardFree ==
  promoting = NULL /\ \A g \in Collector : collector[g].at # "evicting"

\* ProductPromotionService.promote_and_enroll looks at the evidence, not at the
\* round it was found in nor at its files.
BeginPromotion(i) ==
  /\ i \in evident /\ GuardFree
  /\ promoting' = i
  /\ UNCHANGED <<researchVars, evidenceVars, job, file, loose, enrolled, candidate, gcVars, crashes>>

CommitPromotion ==
  /\ promoting # NULL
  /\ enrolled' = enrolled \cup {promoting} /\ promoting' = NULL
  /\ UNCHANGED <<researchVars, evidenceVars, job, file, loose, candidate, gcVars, crashes>>

\* Refused, or the process dies: its session ends and the guard with it.
AbortPromotion ==
  /\ promoting # NULL
  /\ promoting' = NULL
  /\ UNCHANGED <<researchVars, evidenceVars, job, file, loose, enrolled, candidate, gcVars, crashes>>

\* ProductCandidateService.promote, called by an endpoint of its own: no guard.
PromoteCandidate(i) ==
  /\ i \in evident \ candidate
  /\ candidate' = candidate \cup {i}
  /\ UNCHANGED <<researchVars, evidenceVars, job, file, loose, enrolled, promoting, gcVars, crashes>>

-----------------------------------------------------------------------------
(* Collection *)

SetCollector(g, held) == collector' = [collector EXCEPT ![g] = held]

\* Fault: an object any other round can reach is left alone.
GarbageShared(r) ==
  {o \in ObjectsOf(RoundResults(r)) :
     ~Strong(o) /\ \A q \in Round \ {r} : o \notin ObjectsOf(RoundResults(q))}

Garbage(r) == {o \in ObjectsOf(RoundResults(r)) : ~Strong(o)}

PlanOf(r) ==
  [round |-> r, manifests |-> Cardinality(RoundResults(r) \ StrongResults),
   objects |-> Garbage(r)]

\* ResearchRoundGCService.plan: not under the guard.  The same finding has the
\* same identity, and its plan is used again.
PlanRound(g, r) ==
  /\ collector[g] = Idle
  /\ round[r] \in {"gc_pending", "gc_complete"} /\ ~Nonterminal(r)
  /\ LET p == PlanOf(r)
     IN  /\ plan' = IF p \in DOMAIN plan THEN plan
                    ELSE [q \in DOMAIN plan \cup {p} |-> IF q = p THEN "planned" ELSE plan[q]]
         /\ SetCollector(g, [at |-> "planned", plan |-> p])
  /\ UNCHANGED <<researchVars, evidenceVars, job, file, loose, productVars, tombstone, crashes>>

Pending(r) == round[r] = "gc_pending"

\* _next_round: the oldest pending round.  While its work is not terminal the
\* daemon waits for it, whatever other rounds are pending.
Oldest(r) ==
  \E k \in 1..Len(closed) : closed[k] = r /\ Pending(r) /\ \A l \in 1..(k - 1) : ~Pending(closed[l])

PlanNext == \E r \in Round : Oldest(r) /\ PlanRound(Daemon, r)
PlanRequested(g) == g # Daemon /\ \E r \in Round : PlanRound(g, r)

\* Fault: a plan that was interrupted is not taken up again.
ExecutableOnce(p) == plan[p] = "planned"

Executable(p) == plan[p] # "completed"

\* execute, up to its first commit.  A completed plan is answered from its
\* tombstone; an object that has become strong raises, which ends the process,
\* and the next plan is made without it.
BeginSweep(g) ==
  /\ collector[g].at = "planned" /\ GuardFree
  /\ LET p == collector[g].plan
     IN  IF Executable(p) /\ \A o \in p.objects : ~Strong(o)
           THEN /\ plan' = [plan EXCEPT ![p] = "running"]
                /\ SetCollector(g, [at |-> "evicting", plan |-> p, left |-> p.objects])
           ELSE SetCollector(g, Idle) /\ UNCHANGED plan
  /\ UNCHANGED <<researchVars, evidenceVars, job, file, loose, productVars, tombstone, crashes>>

\* LocalPayloadObjectStore.evict: a file that is gone already is no error.
Evict(g) ==
  /\ collector[g].at = "evicting"
  /\ \E o \in collector[g].left :
       /\ file' = file \ {o} /\ loose' = loose \ {o}
       /\ collector' = [collector EXCEPT ![g].left = @ \ {o}]
  /\ UNCHANGED <<researchVars, evidenceVars, job, productVars, plan, tombstone, crashes>>

\* The file cannot be read or removed: the plan has failed, the process ends.
EvictFails(g) ==
  /\ collector[g].at = "evicting" /\ collector[g].left # {} /\ crashes < MaxCrashes
  /\ plan' = [plan EXCEPT ![collector[g].plan] = "failed"]
  /\ SetCollector(g, Idle)
  /\ crashes' = crashes + 1
  /\ UNCHANGED <<researchVars, evidenceVars, job, file, loose, productVars, tombstone>>

\* Fault: a later plan takes the tombstone over.
TombstoneLatest(p) == p

\* ON CONFLICT (research_round_id) DO NOTHING
TombstoneAfter(p) == IF tombstone[p.round] = NULL THEN p ELSE tombstone[p.round]

FinishSweep(g) ==
  /\ collector[g].at = "evicting" /\ collector[g].left = {}
  /\ LET p == collector[g].plan
     IN  /\ plan' = [plan EXCEPT ![p] = "completed"]
         /\ tombstone' = [tombstone EXCEPT ![p.round] = TombstoneAfter(p)]
         /\ round' = [round EXCEPT ![p.round] = "gc_complete"]
  /\ SetCollector(g, Idle)
  /\ UNCHANGED <<closed, run, released, item, cancelReq, evidenceVars, job, file, loose, productVars, crashes>>

\* The guard goes with the session, the plan stays as it is.
CollectorDies(g) ==
  /\ collector[g] # Idle /\ crashes < MaxCrashes
  /\ SetCollector(g, Idle)
  /\ crashes' = crashes + 1
  /\ UNCHANGED <<researchVars, evidenceVars, job, file, loose, productVars, plan, tombstone>>

-----------------------------------------------------------------------------
Execute(g) == BeginSweep(g) \/ Evict(g) \/ FinishSweep(g)
Perform(w) == WriteFile(w) \/ Register(w) \/ (job[w] # NoJob /\ ~MayPublish(w) /\ Fail(w))
                \/ (job[w] # NoJob /\ job[w].lost /\ Drop(w))
ClaimSome(w) == \E r \in Round, i \in Item : Claim(w, r, i)

Next ==
  \/ \E r \in Round : OpenRound(r) \/ BuildSuite(r) \/ PlanSuite(r) \/ AbandonSuite(r) \/ Reset(r)
                      \/ PublishEvidence(r)
  \/ \E w \in Worker : ClaimSome(w) \/ WriteFile(w) \/ Register(w) \/ Fail(w) \/ LoseLease(w) \/ Drop(w)
  \/ \E i \in Item : BeginPromotion(i) \/ PromoteCandidate(i)
  \/ CommitPromotion \/ AbortPromotion
  \/ PlanNext
  \/ \E g \in Collector : PlanRequested(g) \/ Execute(g) \/ EvictFails(g) \/ CollectorDies(g)

Spec == Init /\ [][Next]_vars

\* Processes are kept running and finish what they have begun; the advisory
\* lock is granted in the order of the requests, so no waiter starves.
Fairness ==
  /\ WF_vars(PlanNext) /\ \A g \in Collector : SF_vars(Execute(g))
  /\ WF_vars(CommitPromotion \/ AbortPromotion)
  /\ \A w \in Worker : WF_vars(Perform(w)) /\ SF_vars(ClaimSome(w))
  /\ \A r \in Round : WF_vars(PlanSuite(r) \/ AbandonSuite(r))

FairSpec == Spec /\ Fairness


-----------------------------------------------------------------------------
(* Properties *)

ResearchTypes ==
  /\ round \in [Round -> {"absent", "active", "gc_pending", "gc_complete"}]
  /\ closed \in Seq(Round) /\ run \in [Round -> RunState] /\ released \in [Round -> BOOLEAN]
  /\ item \in [Item -> ItemState] /\ cancelReq \subseteq Item
  /\ evident \subseteq Evidence /\ late \subseteq evident

FileTypes ==
  /\ job \in [Worker -> Jobs \cup {NoJob}]
  /\ loose \subseteq file /\ file \subseteq Object

ProductTypes ==
  enrolled \subseteq Evidence /\ candidate \subseteq Evidence /\ promoting \in Evidence \cup {NULL}

CollectionTypes ==
  /\ DOMAIN plan \subseteq PlanId /\ plan \in [DOMAIN plan -> PlanState]
  /\ tombstone \in [Round -> DOMAIN plan \cup {NULL}]
  /\ collector \in [Collector -> Sweeps \cup {Idle}]

\* A round is gc_complete exactly when it has a tombstone, and the tombstone
\* names a completed plan of that round.
TombstonesStand ==
  \A r \in Round :
    /\ round[r] = "gc_complete" <=> tombstone[r] # NULL
    /\ tombstone[r] # NULL => tombstone[r].round = r /\ plan[tombstone[r]] = "completed"

\* Shape of the state, and what the rows of rounds, plans and tombstones owe
\* each other.
GcTypeOK == ResearchTypes /\ FileTypes /\ ProductTypes /\ CollectionTypes /\ TombstonesStand

\* An object that a Product enrolled by promote_and_enroll can reach is not
\* evicted: the reachability found under the guard stands until the last file
\* of the plan is gone (retention_lock.py, research_round_gc.py).
EnrolledObjectsSurvive ==
  [][\A o \in file \ file' : \A i \in enrolled' \cup enrolled : o \notin ObjectsOf(Reached(i))]_vars

\* What collection has recorded stays: a closed round is not opened again, a
\* completed plan is not taken up again by a repeated or concurrent execute, and
\* the tombstone remains the one of the execution that closed the round.
CompletionStays ==
  [][/\ \A r \in Round :
          /\ round[r] \in {"gc_pending", "gc_complete"} => round'[r] \in {round[r], "gc_complete"}
          /\ tombstone[r] # NULL => tombstone'[r] = tombstone[r]
     /\ \A p \in DOMAIN plan : p \in DOMAIN plan' /\ (plan[p] = "completed" => plan'[p] = "completed")]_vars

\* What some round's closure leads to.
Found == UNION {RoundResults(r) : r \in Round}

\* An object that a result no closure leads to, or led to in time, also has.
Astray(o) == \E i \in Item : item[i] = "done" /\ ObjectOf[i] = o /\ i \notin Found \ late

\* Nothing that a round leads to is left behind: when its file is in nobody's
\* retention, a closed round that is not collected yet answers for it, although
\* it may have been in another round's retention when that round was planned.
\* Apart stand the files that collection does not look for: of results that
\* nothing cites and that have no evidence, or have it only since their round
\* was closed, and what a worker wrote after it had lost its lease.
NothingLeftBehind ==
  \A i \in Found : ObjectOf[i] \in file \ loose /\ ~Astray(ObjectOf[i]) =>
    \/ Strong(ObjectOf[i])
    \/ \E r \in Round : Pending(r) /\ ObjectOf[i] \in ObjectsOf(RoundResults(r))

\* Work that keeps a closed round waiting and that nobody will end: no worker
\* holds it, and it is cancelled or no suite of an active round consumes it.
\* Reset leaves such work behind, since it releases no run that has failed and
\* no suite that is still being planned, and cancels what dead workers held.
Deserted(r) ==
  Nonterminal(r) /\ \E i \in Needs[r] :
    /\ item[i] \in Open /\ \A w \in Worker : ~Current(w, i)
    /\ i \in cancelReq \/ \A q \in Round : i \in Needs[q] => round[q] # "active" \/ run[q] # "active"

\* The daemon looks at the oldest pending round only.
HeldUp(r) ==
  \E k, l \in 1..Len(closed) :
    l <= k /\ closed[k] = r /\ Pending(closed[l]) /\ Deserted(closed[l])

\* Every closed round is collected in the end, whatever crashes and failed
\* evictions interrupt it, unless it or an older one waits for deserted work.
RoundsAreCollected == \A r \in Round : []<>(Pending(r) => HeldUp(r))

\* retention_lock.py says that no object becomes reachable from a Product while
\* its files are being evicted, hence none that a Product can reach is evicted,
\* whichever way the result became a Product's.
StrongObjectsSurvive ==
  [][\A o \in file \ file' : o \notin ObjectsOf(ProductResults)]_vars

=============================================================================
