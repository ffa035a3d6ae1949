--------------------------- MODULE RoundGcProofs ---------------------------
(***************************************************************************)
(* What holds of RoundGc for all rounds, items, objects and processes.     *)
(*                                                                         *)
(* An eviction relies on a reachability that was computed before it: the   *)
(* guard keeps promotions out until the last file is gone (GuardHeld), so  *)
(* what is left to evict stays out of reach of every enrolled result       *)
(* (SweepsSpare).  A collector that evicts owns its plan (SweepsRun): what  *)
(* ends a plan never meets one that has been completed.                     *)
(***************************************************************************)
EXTENDS RoundGc, FiniteSetTheorems, TLAPS

Evicting(g) == collector[g].at = "evicting"

GuardHeld ==
  \A g \in Collector : Evicting(g) =>
    promoting = NULL /\ \A h \in Collector : h # g => ~Evicting(h)

SweepsRun ==
  \A g \in Collector : collector[g] # Idle =>
    collector[g].plan \in DOMAIN plan /\ (Evicting(g) => plan[collector[g].plan] = "running")

SweepsSpare ==
  \A g \in Collector : Evicting(g) =>
    \A o \in collector[g].left, i \in enrolled : o \notin ObjectsOf(Reached(i))

Inv == GcTypeOK /\ GuardHeld /\ SweepsRun /\ SweepsSpare

-----------------------------------------------------------------------------
(* Lemmas *)

\* What a collector holds, by what it is doing.
LEMMA HeldBySweep ==
  ASSUME CollectionTypes, NEW g \in Collector
  PROVE  /\ collector[g] # Idle => collector[g].plan \in PlanId
         /\ Evicting(g) => collector[g] # Idle /\ collector[g].left \subseteq Object
         /\ Evicting(g) => collector[g] = [at |-> "evicting", plan |-> collector[g].plan,
                                           left |-> collector[g].left]
         /\ collector[g].at = "planned" => collector[g] # Idle
BY DEF CollectionTypes, Sweeps, Idle, Evicting, PlanId

\* Results reached from an item are items.
LEMMA ReachedItems ==
  ASSUME NEW i \in Item
  PROVE  Reached(i) \subseteq Item
BY RoundAssumption DEF Reached

\* Views contain results of items.
LEMMA ResultsAreItems ==
  ASSUME NEW r \in Round
  PROVE  RoundResults(r) \subseteq Item
BY RoundAssumption, ReachedItems DEF RoundResults

\* The finding of a collector is a plan identity.
LEMMA PlanOfType ==
  ASSUME NEW r \in Round
  PROVE  PlanOf(r) \in PlanId /\ PlanOf(r).round = r
<1> DEFINE M == RoundResults(r) \ StrongResults
<1>1. M \subseteq Item
  BY ResultsAreItems
<1>2. Cardinality(M) \in Nat /\ Cardinality(M) <= Cardinality(Item) /\ Cardinality(Item) \in Nat
  BY <1>1, FS_Subset, FS_CardinalityType, RoundAssumption
<1>3. Garbage(r) \subseteq Object
  BY ResultsAreItems, RoundAssumption DEF Garbage, ObjectsOf
<1> QED
  BY <1>2, <1>3 DEF PlanOf, PlanId

\* What a Product enrolled by promote_and_enroll can reach is strong.
LEMMA EnrolledIsStrong ==
  ASSUME NEW o, ~Strong(o), NEW i \in enrolled
  PROVE  o \notin ObjectsOf(Reached(i))
BY DEF Strong, StrongResults, ProductResults, ObjectsOf

-----------------------------------------------------------------------------
(* The invariant *)

LEMMA InitInv == Init => Inv
BY DEF Init, Inv, GcTypeOK, ResearchTypes, FileTypes, ProductTypes, CollectionTypes,
       TombstonesStand, GuardHeld, SweepsRun, SweepsSpare, Evicting, RunState, ItemState,
       Idle, NoJob

\* A step that leaves the collection and the products alone keeps what is said
\* about them.
LEMMA CollectionUndisturbed ==
  ASSUME Inv, UNCHANGED <<enrolled, promoting, gcVars>>
  PROVE  CollectionTypes' /\ GuardHeld' /\ SweepsRun' /\ SweepsSpare'
<1> USE DEF Inv, GcTypeOK
<1>1. CollectionTypes'
  BY DEF CollectionTypes, gcVars
<1>2. GuardHeld' /\ SweepsRun'
  BY DEF GuardHeld, SweepsRun, Evicting, gcVars
<1>3. SweepsSpare'
  BY DEF SweepsSpare, Evicting, gcVars, ObjectsOf, Reached
<1> QED
  BY <1>1, <1>2, <1>3

\* No round is reopened and only a sweep completes one, so tombstones stand.
LEMMA TombstonesUndisturbed ==
  ASSUME Inv, UNCHANGED <<plan, tombstone>>, round' \in [Round -> {"absent", "active", "gc_pending", "gc_complete"}],
         \A r \in Round : round'[r] = "gc_complete" <=> round[r] = "gc_complete"
  PROVE  TombstonesStand'
BY DEF Inv, GcTypeOK, TombstonesStand

\* Rounds, suites and resets.
LEMMA RoundSteps ==
  ASSUME Inv, NEW r \in Round,
         OpenRound(r) \/ BuildSuite(r) \/ PlanSuite(r) \/ AbandonSuite(r) \/ Reset(r)
  PROVE  Inv'
<1> USE DEF Inv, GcTypeOK, researchVars, evidenceVars, productVars, gcVars
<1>1. UNCHANGED <<evident, late, job, file, loose, enrolled, candidate, promoting, plan, tombstone, collector>>
  BY DEF OpenRound, BuildSuite, PlanSuite, AbandonSuite, Reset
<1>2. FileTypes' /\ ProductTypes'
  BY <1>1 DEF FileTypes, ProductTypes
<1>3. CollectionTypes' /\ GuardHeld' /\ SweepsRun' /\ SweepsSpare'
  BY <1>1, CollectionUndisturbed
<1>4. ResearchTypes'
  <2>1. CASE OpenRound(r)
    BY <2>1 DEF OpenRound, ResearchTypes
  <2>2. CASE BuildSuite(r)
    BY <2>2 DEF BuildSuite, ResearchTypes, RunState
  <2>3. CASE PlanSuite(r)
    BY <2>3 DEF PlanSuite, ResearchTypes, RunState, ItemState
  <2>4. CASE AbandonSuite(r)
    BY <2>4 DEF AbandonSuite, ResearchTypes, RunState
  <2>5. CASE Reset(r)
    <3>1. closed' \in Seq(Round) /\ round' \in [Round -> {"absent", "active", "gc_pending", "gc_complete"}]
      BY <2>5 DEF Reset, ResearchTypes
    <3>2. Orphaned(r) \subseteq Item
      BY RoundAssumption DEF Orphaned
    <3>3. /\ run' \in [Round -> RunState] /\ released' \in [Round -> BOOLEAN]
          /\ item' \in [Item -> ItemState] /\ cancelReq' \subseteq Item
      BY <2>5, <3>2 DEF Reset, ResearchTypes, RunState, ItemState
    <3> QED
      BY <1>1, <3>1, <3>3 DEF ResearchTypes
  <2> QED
    BY <2>1, <2>2, <2>3, <2>4, <2>5
<1>5. TombstonesStand'
  <2>1. \A q \in Round : round'[q] = "gc_complete" <=> round[q] = "gc_complete"
    BY DEF OpenRound, BuildSuite, PlanSuite, AbandonSuite, Reset, ResearchTypes
  <2> QED
    BY <1>1, <1>4, <2>1, TombstonesUndisturbed DEF ResearchTypes
<1> QED
  BY <1>2, <1>3, <1>4, <1>5

\* A job is a record of Jobs, whatever becomes of its lease.
LEMMA JobType ==
  ASSUME FileTypes, NEW w \in Worker, job[w] # NoJob
  PROVE  /\ job[w] \in Jobs /\ job[w].item \in Item
         /\ [job[w] EXCEPT !.at = "written"] \in Jobs
         /\ [job[w] EXCEPT !.lost = TRUE] \in Jobs
BY DEF FileTypes, Jobs

\* Workers.
LEMMA WorkerSteps ==
  ASSUME Inv, NEW w \in Worker,
         \/ ClaimSome(w) \/ WriteFile(w) \/ Register(w) \/ Fail(w) \/ LoseLease(w) \/ Drop(w)
  PROVE  Inv'
<1> USE DEF Inv, GcTypeOK, researchVars, evidenceVars, productVars, gcVars
<1>1. UNCHANGED <<round, closed, released, cancelReq, evident, late, enrolled, candidate, promoting, plan, tombstone, collector>>
  BY DEF ClaimSome, Claim, WriteFile, Register, Fail, LoseLease, Drop
<1>2. ProductTypes'
  BY <1>1 DEF ProductTypes
<1>3. CollectionTypes' /\ GuardHeld' /\ SweepsRun' /\ SweepsSpare'
  BY <1>1, CollectionUndisturbed
<1>4. TombstonesStand'
  BY <1>1 DEF TombstonesStand
<1>5. ResearchTypes' /\ FileTypes'
  <2>1. CASE ClaimSome(w)
    <3>1. PICK r \in Round, i \in Item : Claim(w, r, i)
      BY <2>1 DEF ClaimSome
    <3>2. [at |-> "executing", round |-> r, item |-> i, lost |-> FALSE] \in Jobs
      BY DEF Jobs
    <3> QED
      BY <3>1, <3>2 DEF Claim, ResearchTypes, FileTypes, ItemState
  <2>2. CASE WriteFile(w)
    <3>1. job[w] # NoJob /\ job[w].item \in Item
      BY <2>2, JobType DEF WriteFile
    <3>2. ObjectOf[job[w].item] \in Object
      BY <3>1, RoundAssumption
    <3>3. job' \in [Worker -> Jobs \cup {NoJob}]
      BY <2>2, <3>1, JobType DEF WriteFile, FileTypes
    <3>4. loose' \subseteq file' /\ file' \subseteq Object
      BY <2>2, <3>2 DEF WriteFile, FileTypes
    <3> QED
      BY <2>2, <3>3, <3>4 DEF WriteFile, ResearchTypes, FileTypes
  <2>3. CASE Register(w)
    <3>1. job[w] # NoJob /\ job[w].item \in Item
      BY <2>3, JobType DEF Register
    <3>2. run' \in [Round -> RunState]
      BY <2>3 DEF Register, RunsAfter, RunState, ResearchTypes
    <3>3. item' \in [Item -> ItemState]
      BY <2>3, <3>1 DEF Register, ItemState, ResearchTypes
    <3> QED
      BY <2>3, <3>1, <3>2, <3>3, <1>1 DEF Register, ResearchTypes, FileTypes
  <2>4. CASE Fail(w)
    <3>1. run' \in [Round -> RunState]
      BY <2>4 DEF Fail, RunsAfter, RunState, ResearchTypes
    <3>2. item' \in [Item -> ItemState]
      BY <2>4 DEF Fail, ItemState, ResearchTypes
    <3> QED
      BY <2>4, <3>1, <3>2, <1>1 DEF Fail, ResearchTypes, FileTypes
  <2>5. CASE LoseLease(w)
    BY <2>5, JobType DEF LoseLease, ResearchTypes, FileTypes
  <2>6. CASE Drop(w)
    BY <2>6 DEF Drop, ResearchTypes, FileTypes
  <2> QED
    BY <2>1, <2>2, <2>3, <2>4, <2>5, <2>6
<1> QED
  BY <1>2, <1>3, <1>4, <1>5

\* Evidence is published of results that may have some.
LEMMA EvidenceStep ==
  ASSUME Inv, NEW r \in Round, PublishEvidence(r)
  PROVE  Inv'
<1> USE DEF Inv, GcTypeOK
<1>1. UNCHANGED <<researchVars, job, file, loose, productVars, gcVars>>
  BY DEF PublishEvidence
<1>2. evident' \subseteq Evidence /\ late' \subseteq evident'
  BY DEF PublishEvidence, ResearchTypes
<1>3. ResearchTypes' /\ FileTypes' /\ ProductTypes' /\ TombstonesStand'
  BY <1>1, <1>2 DEF ResearchTypes, FileTypes, ProductTypes, TombstonesStand, researchVars, productVars, gcVars
<1>4. CollectionTypes' /\ GuardHeld' /\ SweepsRun' /\ SweepsSpare'
  BY <1>1, CollectionUndisturbed DEF productVars
<1> QED
  BY <1>3, <1>4

\* Promotions.
LEMMA PromotionSteps ==
  ASSUME Inv,
         \/ \E i \in Item : BeginPromotion(i) \/ PromoteCandidate(i)
         \/ CommitPromotion \/ AbortPromotion
  PROVE  Inv'
<1> USE DEF Inv, GcTypeOK, researchVars, evidenceVars, productVars, gcVars
<1>1. UNCHANGED <<round, closed, run, released, item, cancelReq, evident, late, job, file, loose, plan, tombstone, collector>>
  BY DEF BeginPromotion, PromoteCandidate, CommitPromotion, AbortPromotion
<1>2. ResearchTypes' /\ FileTypes' /\ CollectionTypes' /\ TombstonesStand' /\ SweepsRun'
  BY <1>1 DEF ResearchTypes, FileTypes, CollectionTypes, TombstonesStand, SweepsRun, Evicting
<1>3. ProductTypes'
  BY DEF ProductTypes, ResearchTypes, BeginPromotion, PromoteCandidate, CommitPromotion, AbortPromotion
<1>4. GuardHeld'
  BY <1>1 DEF GuardHeld, GuardFree, Evicting,
              BeginPromotion, PromoteCandidate, CommitPromotion, AbortPromotion
<1>5. SweepsSpare'
  <2>1. ASSUME NEW g \in Collector, Evicting(g)
        PROVE  UNCHANGED enrolled
    BY <2>1 DEF GuardHeld, BeginPromotion, PromoteCandidate, CommitPromotion, AbortPromotion
  <2> QED
    BY <1>1, <2>1 DEF SweepsSpare, Evicting, ObjectsOf, Reached
<1> QED
  BY <1>2, <1>3, <1>4, <1>5

\* What stays when a collector changes only plans, tombstones and what it holds.
LEMMA OthersUndisturbed ==
  ASSUME Inv, UNCHANGED <<researchVars, evidenceVars, job, file, loose, productVars>>
  PROVE  ResearchTypes' /\ FileTypes' /\ ProductTypes'
BY DEF Inv, GcTypeOK, ResearchTypes, FileTypes, ProductTypes, researchVars, evidenceVars, productVars

\* A plan is written, or found again.
LEMMA PlanStep ==
  ASSUME Inv, NEW g \in Collector, NEW r \in Round, PlanRound(g, r)
  PROVE  Inv'
<1> DEFINE p == PlanOf(r)
<1> USE DEF Inv, GcTypeOK
<1>1. ResearchTypes' /\ FileTypes' /\ ProductTypes'
  BY OthersUndisturbed DEF PlanRound
<1>2. /\ p \in PlanId
      /\ DOMAIN plan' = DOMAIN plan \cup {p}
      /\ \A q \in DOMAIN plan : plan'[q] = plan[q]
      /\ plan' \in [DOMAIN plan' -> PlanState]
  BY PlanOfType DEF PlanRound, CollectionTypes, PlanState
<1>3. /\ collector' = [collector EXCEPT ![g] = [at |-> "planned", plan |-> p]]
      /\ [at |-> "planned", plan |-> p] \in Sweeps
      /\ [at |-> "planned", plan |-> p] # Idle
      /\ [at |-> "planned", plan |-> p].at # "evicting"
  BY <1>2 DEF PlanRound, SetCollector, Sweeps, Idle
<1>4. CollectionTypes'
  <2>1. tombstone' \in [Round -> DOMAIN plan' \cup {NULL}]
    BY <1>2 DEF CollectionTypes, PlanRound
  <2>2. collector' \in [Collector -> Sweeps \cup {Idle}]
    BY <1>3 DEF CollectionTypes
  <2> QED
    BY <1>2, <2>1, <2>2 DEF CollectionTypes
<1>5. TombstonesStand'
  <2>1. \A q \in Round : tombstone[q] # NULL => tombstone[q] \in DOMAIN plan
    BY DEF CollectionTypes
  <2> QED
    BY <1>2, <2>1 DEF TombstonesStand, PlanRound, researchVars
<1>6. \A h \in Collector : Evicting(h)' => h # g /\ Evicting(h) /\ collector'[h] = collector[h]
  BY <1>3 DEF Evicting, CollectionTypes
<1>7. GuardHeld'
  BY <1>6 DEF GuardHeld, PlanRound, productVars
<1>8. SweepsRun'
  BY <1>2, <1>3, <1>6 DEF SweepsRun, CollectionTypes, Evicting
<1>9. SweepsSpare'
  BY <1>6 DEF SweepsSpare, PlanRound, productVars, ObjectsOf, Reached
<1> QED
  BY <1>1, <1>4, <1>5, <1>7, <1>8, <1>9

\* A collector that lets go of its plan, which is as it was or has failed.
LEMMA LetGo ==
  ASSUME Inv, NEW g \in Collector,
         UNCHANGED <<researchVars, evidenceVars, job, file, loose, productVars, tombstone>>,
         collector' = [collector EXCEPT ![g] = Idle],
         \/ UNCHANGED plan
         \/ Evicting(g) /\ plan' = [plan EXCEPT ![collector[g].plan] = "failed"]
  PROVE  Inv'
<1> USE DEF Inv, GcTypeOK
<1>1. ResearchTypes' /\ FileTypes' /\ ProductTypes'
  BY OthersUndisturbed
<1>2. DOMAIN plan' = DOMAIN plan /\ plan' \in [DOMAIN plan -> PlanState]
  BY DEF CollectionTypes, PlanState
<1>3. \A q \in DOMAIN plan :
        plan[q] = "completed" \/ (\E h \in Collector : h # g /\ Evicting(h) /\ collector[h].plan = q)
          => plan'[q] = plan[q]
  <2>1. CASE UNCHANGED plan
    BY <2>1
  <2>2. CASE Evicting(g) /\ plan' = [plan EXCEPT ![collector[g].plan] = "failed"]
    <3>1. plan[collector[g].plan] = "running" /\ \A h \in Collector : h # g => ~Evicting(h)
      BY <2>2, HeldBySweep DEF SweepsRun, GuardHeld
    <3> QED
      BY <2>2, <3>1 DEF CollectionTypes
  <2> QED
    BY <2>1, <2>2
<1>4. CollectionTypes'
  BY <1>2 DEF CollectionTypes
<1>5. TombstonesStand'
  <2>1. \A q \in Round : tombstone[q] # NULL => tombstone[q] \in DOMAIN plan
    BY DEF CollectionTypes
  <2> QED
    BY <1>3, <2>1 DEF TombstonesStand, researchVars
<1>6. \A h \in Collector : collector'[h] # Idle => h # g /\ collector'[h] = collector[h]
  BY DEF CollectionTypes
<1>7. \A h \in Collector : Evicting(h)' => h # g /\ Evicting(h) /\ collector'[h] = collector[h]
  BY DEF Evicting, CollectionTypes, Idle
<1>8. GuardHeld'
  BY <1>7 DEF GuardHeld, productVars
<1>9. SweepsRun'
  BY <1>2, <1>3, <1>6, <1>7 DEF SweepsRun, Evicting
<1>10. SweepsSpare'
  BY <1>7 DEF SweepsSpare, productVars, ObjectsOf, Reached
<1> QED
  BY <1>1, <1>4, <1>5, <1>8, <1>9, <1>10

\* An execution takes the guard and finds its objects out of reach.
LEMMA BeginSweepStep ==
  ASSUME Inv, NEW g \in Collector, BeginSweep(g)
  PROVE  Inv'
<1> DEFINE p == collector[g].plan
           held == [at |-> "evicting", plan |-> p, left |-> p.objects]
<1> USE DEF Inv, GcTypeOK
<1>1. p \in DOMAIN plan /\ p \in PlanId
  BY HeldBySweep DEF BeginSweep, SweepsRun
<1>2. CASE ~(Executable(p) /\ \A o \in p.objects : ~Strong(o))
  BY <1>2, LetGo DEF BeginSweep, SetCollector
<1>3. CASE Executable(p) /\ \A o \in p.objects : ~Strong(o)
  <2>1. /\ plan' = [plan EXCEPT ![p] = "running"] /\ plan[p] # "completed"
        /\ collector' = [collector EXCEPT ![g] = held]
        /\ UNCHANGED <<researchVars, evidenceVars, job, file, loose, productVars, tombstone>>
    BY <1>3 DEF BeginSweep, SetCollector, Executable
  <2>2. held \in Sweeps /\ held # Idle /\ held.at = "evicting"
    BY <1>1 DEF Sweeps, PlanId, Idle
  <2>3. promoting = NULL /\ \A h \in Collector : ~Evicting(h)
    BY DEF BeginSweep, GuardFree, Evicting
  <2>4. ResearchTypes' /\ FileTypes' /\ ProductTypes'
    BY <2>1, OthersUndisturbed
  <2>5. CollectionTypes'
    BY <2>1, <2>2 DEF CollectionTypes, PlanState
  <2>6. TombstonesStand'
    BY <2>1 DEF TombstonesStand, CollectionTypes, researchVars
  <2>7. /\ collector'[g] = held
        /\ \A h \in Collector : h # g => collector'[h] = collector[h] /\ ~Evicting(h)'
    BY <2>1, <2>3 DEF CollectionTypes, Evicting
  <2>8. GuardHeld'
    BY <2>1, <2>3, <2>7 DEF GuardHeld, productVars
  <2>9. SweepsRun'
    BY <1>1, <2>1, <2>2, <2>7 DEF SweepsRun, CollectionTypes, Evicting
  <2>10. SweepsSpare'
    <3>1. \A o \in held.left, i \in enrolled : o \notin ObjectsOf(Reached(i))
      BY <1>3, EnrolledIsStrong
    <3> QED
      BY <2>1, <2>7, <3>1 DEF SweepsSpare, productVars, ObjectsOf, Reached
  <2> QED
    BY <2>4, <2>5, <2>6, <2>8, <2>9, <2>10
<1> QED
  BY <1>2, <1>3

\* One file is removed.
LEMMA EvictStep ==
  ASSUME Inv, NEW g \in Collector, Evict(g)
  PROVE  Inv'
<1> USE DEF Inv, GcTypeOK
<1>1. PICK o \in collector[g].left :
        /\ file' = file \ {o} /\ loose' = loose \ {o}
        /\ collector' = [collector EXCEPT ![g].left = @ \ {o}]
  BY DEF Evict
<1> DEFINE held == [at |-> "evicting", plan |-> collector[g].plan, left |-> collector[g].left \ {o}]
<1>2. Evicting(g) /\ collector[g] # Idle /\ collector[g].plan \in PlanId /\ collector[g].left \subseteq Object
  BY HeldBySweep DEF Evict, Evicting
<1>3. collector' = [collector EXCEPT ![g] = held] /\ held \in Sweeps /\ held # Idle
  <2>1. collector[g] = [at |-> "evicting", plan |-> collector[g].plan, left |-> collector[g].left]
    BY <1>2, HeldBySweep
  <2>2. [collector[g] EXCEPT !.left = collector[g].left \ {o}] = held
    BY <2>1
  <2>3. collector' = [collector EXCEPT ![g] = held]
    BY <1>1, <2>2
  <2> QED
    BY <1>2, <2>3 DEF Sweeps, Idle
<1>4. UNCHANGED <<researchVars, evidenceVars, job, productVars, plan, tombstone>>
  BY DEF Evict
<1>5. ResearchTypes' /\ ProductTypes' /\ TombstonesStand'
  BY <1>4 DEF ResearchTypes, ProductTypes, TombstonesStand, researchVars, evidenceVars, productVars
<1>6. FileTypes'
  BY <1>1, <1>4 DEF FileTypes
<1>7. CollectionTypes'
  BY <1>3, <1>4 DEF CollectionTypes
<1>8. /\ collector'[g] = held
      /\ \A h \in Collector : h # g => collector'[h] = collector[h] /\ ~Evicting(h)'
  BY <1>2, <1>3 DEF CollectionTypes, GuardHeld, Evicting
<1>9. GuardHeld' /\ SweepsRun' /\ SweepsSpare'
  BY <1>2, <1>4, <1>8 DEF GuardHeld, SweepsRun, SweepsSpare, Evicting, productVars, ObjectsOf, Reached
<1> QED
  BY <1>5, <1>6, <1>7, <1>9

\* The plan is completed, its round is gc_complete and has a tombstone.
LEMMA FinishSweepStep ==
  ASSUME Inv, NEW g \in Collector, FinishSweep(g)
  PROVE  Inv'
<1> DEFINE p == collector[g].plan
           r == p.round
<1> USE DEF Inv, GcTypeOK
<1>1. Evicting(g) /\ p \in DOMAIN plan /\ p \in PlanId /\ r \in Round /\ p # NULL
  BY HeldBySweep, PlanIdAssumption DEF FinishSweep, Evicting, SweepsRun, PlanId
<1>2. /\ plan' = [plan EXCEPT ![p] = "completed"]
      /\ tombstone' = [tombstone EXCEPT ![r] = TombstoneAfter(p)]
      /\ round' = [round EXCEPT ![r] = "gc_complete"]
      /\ collector' = [collector EXCEPT ![g] = Idle]
      /\ UNCHANGED <<closed, run, released, item, cancelReq, evidenceVars, job, file, loose, productVars>>
  BY DEF FinishSweep, SetCollector
<1>3. ResearchTypes' /\ FileTypes' /\ ProductTypes'
  BY <1>2 DEF ResearchTypes, FileTypes, ProductTypes, evidenceVars, productVars
<1>4. TombstoneAfter(p) \in DOMAIN plan /\ TombstoneAfter(p) # NULL /\ TombstoneAfter(p).round = r
  BY <1>1 DEF TombstoneAfter, TombstonesStand, CollectionTypes
<1>5. CollectionTypes'
  BY <1>2, <1>4 DEF CollectionTypes, PlanState
<1>6. TombstonesStand'
  <2>1. \A q \in DOMAIN plan : plan[q] = "completed" \/ q = p => plan'[q] = "completed"
    BY <1>2 DEF CollectionTypes
  <2>2. plan'[TombstoneAfter(p)] = "completed"
    BY <1>1, <2>1 DEF TombstoneAfter, TombstonesStand, CollectionTypes
  <2>3. \A q \in Round : q # r => round'[q] = round[q] /\ tombstone'[q] = tombstone[q]
    BY <1>1, <1>2 DEF ResearchTypes, CollectionTypes
  <2>4. round'[r] = "gc_complete" /\ tombstone'[r] = TombstoneAfter(p)
    BY <1>1, <1>2 DEF ResearchTypes, CollectionTypes
  <2>5. \A q \in Round : tombstone[q] # NULL => tombstone[q] \in DOMAIN plan
    BY DEF CollectionTypes
  <2> QED
    BY <1>4, <2>1, <2>2, <2>3, <2>4, <2>5 DEF TombstonesStand
<1>7. \A h \in Collector : ~Evicting(h)' /\ (collector'[h] # Idle => h # g /\ collector'[h] = collector[h])
  BY <1>1, <1>2 DEF CollectionTypes, GuardHeld, Evicting, Idle
<1>8. GuardHeld' /\ SweepsRun' /\ SweepsSpare'
  BY <1>2, <1>7 DEF GuardHeld, SweepsRun, SweepsSpare, CollectionTypes
<1> QED
  BY <1>3, <1>5, <1>6, <1>8

LEMMA CollectorSteps ==
  ASSUME Inv, NEW g \in Collector,
         \/ Execute(g) \/ EvictFails(g) \/ CollectorDies(g)
  PROVE  Inv'
<1>1. CASE Execute(g)
  BY <1>1, BeginSweepStep, EvictStep, FinishSweepStep DEF Execute
<1>2. CASE EvictFails(g)
  BY <1>2, LetGo DEF EvictFails, SetCollector, Evicting
<1>3. CASE CollectorDies(g)
  BY <1>3, LetGo DEF CollectorDies, SetCollector
<1> QED
  BY <1>1, <1>2, <1>3

LEMMA NextInv == Inv /\ [Next]_vars => Inv'
<1> SUFFICES ASSUME Inv, [Next]_vars PROVE Inv'
  OBVIOUS
<1>1. CASE UNCHANGED vars
  BY <1>1 DEF vars, researchVars, evidenceVars, productVars, gcVars, Inv, GcTypeOK, ResearchTypes, FileTypes, ProductTypes,
              CollectionTypes, TombstonesStand, GuardHeld, SweepsRun, SweepsSpare, Evicting,
              ObjectsOf, Reached
<1>2. ASSUME NEW r \in Round,
             OpenRound(r) \/ BuildSuite(r) \/ PlanSuite(r) \/ AbandonSuite(r) \/ Reset(r)
      PROVE  Inv'
  BY <1>2, RoundSteps
<1>3. ASSUME NEW w \in Worker,
             ClaimSome(w) \/ WriteFile(w) \/ Register(w) \/ Fail(w) \/ LoseLease(w) \/ Drop(w)
      PROVE  Inv'
  BY <1>3, WorkerSteps
<1>4. CASE \/ \E i \in Item : BeginPromotion(i) \/ PromoteCandidate(i)
           \/ CommitPromotion \/ AbortPromotion
  BY <1>4, PromotionSteps
<1>5. CASE PlanNext
  BY <1>5, PlanStep, RoundAssumption DEF PlanNext
<1>6. ASSUME NEW g \in Collector,
             PlanRequested(g) \/ Execute(g) \/ EvictFails(g) \/ CollectorDies(g)
      PROVE  Inv'
  BY <1>6, PlanStep, CollectorSteps DEF PlanRequested
<1>7. ASSUME NEW r \in Round, PublishEvidence(r)
      PROVE  Inv'
  BY <1>7, EvidenceStep
<1> QED
  BY <1>1, <1>2, <1>3, <1>4, <1>5, <1>6, <1>7 DEF Next

\* The inductive invariant holds in every reachable state.
THEOREM GcInvariance == Spec => []Inv
BY InitInv, NextInv, PTL DEF Spec

-----------------------------------------------------------------------------
(* The properties *)

\* Types hold, and rounds, plans and tombstones agree, for any number of
\* rounds, collectors and workers.
THEOREM GcTypeCorrect == Spec => []GcTypeOK
<1>1. Inv => GcTypeOK
  BY DEF Inv
<1> QED
  BY <1>1, GcInvariance, PTL

\* No eviction removes an object that an enrolled Product can reach: what the
\* collector found under the guard still stands when the last file goes.
THEOREM EnrolledObjectsAreKept == Spec => EnrolledObjectsSurvive
<1>1. ASSUME Inv, Inv', [Next]_vars, NEW o \in file \ file', NEW i \in enrolled' \cup enrolled
      PROVE  o \notin ObjectsOf(Reached(i))
  <2>1. PICK g \in Collector : Evict(g)
    BY <1>1 DEF Next, vars, researchVars, productVars, gcVars, OpenRound, BuildSuite, PlanSuite,
                AbandonSuite, Reset, PublishEvidence, ClaimSome, Claim, WriteFile, Register, Fail, LoseLease, Drop,
                BeginPromotion, PromoteCandidate, CommitPromotion, AbortPromotion, PlanNext,
                PlanRequested, PlanRound, Execute, BeginSweep, FinishSweep, EvictFails, CollectorDies
  <2>2. Evicting(g) /\ o \in collector[g].left /\ UNCHANGED enrolled
    BY <1>1, <2>1 DEF Evict, Evicting, productVars
  <2> QED
    BY <1>1, <2>2 DEF Inv, SweepsSpare
<1>2. Inv /\ Inv' /\ [Next]_vars =>
        [\A o \in file \ file' : \A i \in enrolled' \cup enrolled : o \notin ObjectsOf(Reached(i))]_vars
  BY <1>1
<1> QED
  BY <1>2, GcInvariance, PTL DEF Spec, EnrolledObjectsSurvive

Recorded ==
  /\ \A r \in Round :
       /\ round[r] \in {"gc_pending", "gc_complete"} => round'[r] \in {round[r], "gc_complete"}
       /\ tombstone[r] # NULL => tombstone'[r] = tombstone[r]
  /\ \A p \in DOMAIN plan : p \in DOMAIN plan' /\ (plan[p] = "completed" => plan'[p] = "completed")

\* A step outside the collection opens and resets rounds, and touches no plan.
LEMMA RoundsRecorded ==
  ASSUME Inv, UNCHANGED <<plan, tombstone>>,
         UNCHANGED round \/ \E r \in Round : OpenRound(r) \/ Reset(r)
  PROVE  Recorded
BY DEF Inv, GcTypeOK, ResearchTypes, OpenRound, Reset, Recorded

\* A collector's step ends no completed plan and replaces no tombstone.
LEMMA CollectionRecorded ==
  ASSUME Inv, NEW g \in Collector,
         \/ \E r \in Round : PlanRound(g, r)
         \/ Execute(g) \/ EvictFails(g) \/ CollectorDies(g)
  PROVE  Recorded
<1> USE DEF Inv, GcTypeOK, researchVars, evidenceVars
<1>1. CASE \E r \in Round : PlanRound(g, r)
  BY <1>1 DEF PlanRound, Recorded, CollectionTypes
<1>2. CASE BeginSweep(g)
  BY <1>2 DEF BeginSweep, Executable, Recorded, CollectionTypes
<1>3. CASE Evict(g)
  BY <1>3 DEF Evict, Recorded
<1>4. CASE FinishSweep(g)
  <2> DEFINE p == collector[g].plan
  <2>1. p \in PlanId /\ p.round \in Round
    BY <1>4, HeldBySweep DEF FinishSweep, Evicting, PlanId
  <2>2. \A r \in Round : tombstone[r] # NULL => tombstone'[r] = tombstone[r]
    BY <1>4, <2>1 DEF FinishSweep, TombstoneAfter, CollectionTypes
  <2>3. \A r \in Round : round'[r] \in {round[r], "gc_complete"}
    BY <1>4, <2>1 DEF FinishSweep, ResearchTypes
  <2>4. \A q \in DOMAIN plan : q \in DOMAIN plan' /\ (plan[q] = "completed" => plan'[q] = "completed")
    BY <1>4 DEF FinishSweep, CollectionTypes
  <2> QED
    BY <2>2, <2>3, <2>4 DEF Recorded
<1>5. CASE EvictFails(g)
  <2>1. plan[collector[g].plan] = "running" /\ plan' = [plan EXCEPT ![collector[g].plan] = "failed"]
    BY <1>5, HeldBySweep DEF EvictFails, Evicting, SweepsRun
  <2> QED
    BY <1>5, <2>1 DEF EvictFails, Recorded, CollectionTypes
<1>6. CASE CollectorDies(g)
  BY <1>6 DEF CollectorDies, Recorded
<1> QED
  BY <1>1, <1>2, <1>3, <1>4, <1>5, <1>6 DEF Execute

\* The same of any step.
LEMMA RecordedStep ==
  ASSUME Inv, [Next]_vars
  PROVE  Recorded \/ UNCHANGED vars
<1>1. CASE UNCHANGED <<plan, tombstone>> /\ (UNCHANGED round \/ \E r \in Round : OpenRound(r) \/ Reset(r))
  BY <1>1, RoundsRecorded
<1>2. ASSUME NEW r \in Round,
             OpenRound(r) \/ BuildSuite(r) \/ PlanSuite(r) \/ AbandonSuite(r) \/ Reset(r)
      PROVE  UNCHANGED <<plan, tombstone>> /\ (UNCHANGED round \/ \E q \in Round : OpenRound(q) \/ Reset(q))
  BY <1>2 DEF OpenRound, BuildSuite, PlanSuite, AbandonSuite, Reset, gcVars
<1>3. ASSUME NEW w \in Worker,
             ClaimSome(w) \/ WriteFile(w) \/ Register(w) \/ Fail(w) \/ LoseLease(w) \/ Drop(w)
      PROVE  UNCHANGED <<plan, tombstone, round>>
  BY <1>3 DEF ClaimSome, Claim, WriteFile, Register, Fail, LoseLease, Drop, gcVars, researchVars
<1>4. CASE \/ \E i \in Item : BeginPromotion(i) \/ PromoteCandidate(i)
           \/ CommitPromotion \/ AbortPromotion
  BY <1>1, <1>4 DEF BeginPromotion, PromoteCandidate, CommitPromotion, AbortPromotion, gcVars, researchVars
<1>5. ASSUME NEW g \in Collector,
             \/ \E r \in Round : PlanRound(g, r)
             \/ Execute(g) \/ EvictFails(g) \/ CollectorDies(g)
      PROVE  Recorded
  BY <1>5, CollectionRecorded
<1>6. PlanNext => \E r \in Round : PlanRound(Daemon, r)
  BY DEF PlanNext
<1>7. \A g \in Collector : PlanRequested(g) => \E r \in Round : PlanRound(g, r)
  BY DEF PlanRequested
<1>8. \A r \in Round : PublishEvidence(r) => UNCHANGED <<plan, tombstone, round>>
  BY DEF PublishEvidence, gcVars, researchVars
<1> QED
  BY <1>1, <1>2, <1>3, <1>4, <1>5, <1>6, <1>7, <1>8, RoundAssumption DEF Next

\* A completed plan, a tombstone and the end of a round are final, however many
\* collectors plan and execute at once and wherever they die.
THEOREM CompletionIsFinal == Spec => CompletionStays
<1>1. Inv /\ [Next]_vars => [Recorded]_vars
  BY RecordedStep
<1> QED
  BY <1>1, GcInvariance, PTL DEF Spec, CompletionStays, Recorded

=============================================================================
