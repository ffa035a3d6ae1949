----------------------- MODULE RoundGcRetentionProofs -----------------------
(***************************************************************************)
(* That the collection of RoundGc leaves no file behind of the results     *)
(* that its rounds lead to, for all rounds, items, objects and processes.  *)
(*                                                                         *)
(* A collector plans a round, and completes it later, by what it has found *)
(* before: what was strong at that moment it leaves to whoever retains it. *)
(* So the last of several rounds that share a file must find it no longer  *)
(* strong.  It does, because a file is left only to a round that is still  *)
(* active, hence closed, and planned, after the one that leaves it.        *)
(* AnsweredBy is what that comes to in each state: a closed round that     *)
(* nobody can complete without removing the file.                          *)
(***************************************************************************)
EXTENDS RoundGcProofs, RoundGcContract

Planned(r) == run[r] \notin {"none", "building"}

\* Worker w executes an item under a lease.
Holds(w) == job[w] # NoJob /\ ~job[w].lost

\* A worker's claim was made through a planned run, which is not active any more
\* when its round is not; the item of a lease runs, and one worker has it.
JobsSound ==
  /\ \A w \in Worker : job[w] # NoJob =>
       /\ job[w].item \in Needs[job[w].round] /\ Planned(job[w].round)
       /\ run[job[w].round] = "active" => round[job[w].round] = "active"
  /\ \A w \in Worker : Holds(w) =>
       /\ item[job[w].item] = "running"
       /\ \A v \in Worker \ {w} : Holds(v) => job[v].item # job[w].item

\* Only closed rounds are planned.
PlansClosed ==
  \A g \in Collector : collector[g] # Idle =>
    round[collector[g].plan.round] \in {"gc_pending", "gc_complete"}

\* What collector g will remove before it completes its round.
Removes(g) == IF Evicting(g) THEN collector[g].left ELSE collector[g].plan.objects

\* A closed round that no collector completes without removing o.
AnsweredBy(q, o) ==
  /\ Pending(q) /\ o \in ObjectsOf(RoundResults(q))
  /\ \A g \in Collector : collector[g] # Idle /\ collector[g].plan.round = q => o \in Removes(g)

Kept(o) == Strong(o) \/ \E q \in Round : AnsweredBy(q, o)

AllKept == \A i \in Found : ObjectOf[i] \in file \ loose /\ ~Astray(ObjectOf[i]) => Kept(ObjectOf[i])

results == {i \in Item : item[i] = "done"}

\* What is begun is computed from results; results were planned for some round;
\* a completed run has all of its own, and evidence is of results.
WorkSound ==
  /\ \A i \in Item : item[i] \in {"running", "done"} => Requires[i] \subseteq results
  /\ \A i \in results : \E r \in Round : Planned(r) /\ i \in Needs[r]
  /\ \A r \in Round : run[r] = "completed" => Needs[r] \subseteq results
  /\ evident \subseteq results

RetentionInv == JobsSound /\ PlansClosed /\ WorkSound /\ AllKept

-----------------------------------------------------------------------------
(* Lemmas *)

\* The item and the round of a claim.
LEMMA JobParts ==
  ASSUME Inv, NEW w \in Worker, job[w] # NoJob
  PROVE  job[w].item \in Item /\ job[w].round \in Round /\ job[w].lost \in BOOLEAN
BY DEF Inv, GcTypeOK, FileTypes, Jobs

\* The round of a plan that is held.
LEMMA PlanRoundType ==
  ASSUME Inv, NEW g \in Collector, collector[g] # Idle
  PROVE  collector[g].plan.round \in Round /\ collector[g].plan.objects \subseteq Object
BY HeldBySweep DEF Inv, GcTypeOK, PlanId

\* Done items stay done, planned runs planned and evidence published, and products
\* keep what they have.
LEMMA ResearchGrows ==
  ASSUME Inv, JobsSound, [Next]_vars
  PROVE  /\ \A i \in Item : item[i] = "done" => item'[i] = "done"
         /\ \A r \in Round : Planned(r) => Planned(r)'
         /\ enrolled \subseteq enrolled' /\ candidate \subseteq candidate' /\ evident \subseteq evident'
<1> USE DEF researchVars, evidenceVars, productVars, gcVars, Inv, GcTypeOK
<1>1. CASE UNCHANGED <<item, run, enrolled, candidate, evident>>
  BY <1>1 DEF Planned
<1>2. ASSUME NEW r \in Round,
             OpenRound(r) \/ BuildSuite(r) \/ PlanSuite(r) \/ AbandonSuite(r) \/ Reset(r)
      PROVE  /\ \A i \in Item : item[i] = "done" => item'[i] = "done"
             /\ \A q \in Round : Planned(q) => Planned(q)'
             /\ UNCHANGED <<enrolled, candidate, evident>>
  BY <1>2 DEF OpenRound, BuildSuite, PlanSuite, AbandonSuite, Reset, Planned, ResearchTypes
<1>3. ASSUME NEW w \in Worker, ClaimSome(w)
      PROVE  /\ \A i \in Item : item[i] = "done" => item'[i] = "done"
             /\ \A q \in Round : Planned(q) => Planned(q)'
             /\ UNCHANGED <<enrolled, candidate, evident>>
  BY <1>3 DEF ClaimSome, Claim, Planned, ResearchTypes
<1>4. ASSUME NEW w \in Worker, Register(w)
      PROVE  /\ \A i \in Item : item[i] = "done" => item'[i] = "done"
             /\ \A q \in Round : Planned(q) => Planned(q)'
             /\ UNCHANGED <<enrolled, candidate, evident>>
  BY <1>4 DEF Register, RunsAfter, Planned, ResearchTypes
<1>5. ASSUME NEW w \in Worker, Fail(w)
      PROVE  /\ \A i \in Item : item[i] = "done" => item'[i] = "done"
             /\ \A q \in Round : Planned(q) => Planned(q)'
             /\ UNCHANGED <<enrolled, candidate, evident>>
  <2>1. item[job[w].item] = "running"
    BY <1>5 DEF Fail, Current, JobsSound, Holds
  <2> QED
    BY <1>5, <2>1 DEF Fail, RunsAfter, Planned, ResearchTypes
<1>6. CASE \/ \E i \in Item : BeginPromotion(i) \/ PromoteCandidate(i)
           \/ CommitPromotion \/ AbortPromotion
  BY <1>6 DEF BeginPromotion, PromoteCandidate, CommitPromotion, AbortPromotion, Planned
<1>7. ASSUME NEW w \in Worker, WriteFile(w) \/ LoseLease(w) \/ Drop(w)
      PROVE  UNCHANGED <<item, run, enrolled, candidate, evident>>
  BY <1>7 DEF WriteFile, LoseLease, Drop
<1>8. ASSUME NEW g \in Collector,
             \/ \E r \in Round : PlanRound(g, r)
             \/ Execute(g) \/ EvictFails(g) \/ CollectorDies(g)
      PROVE  UNCHANGED <<item, run, enrolled, candidate, evident>>
  BY <1>8 DEF PlanRound, Execute, BeginSweep, Evict, FinishSweep, EvictFails, CollectorDies
<1>9. CASE UNCHANGED vars
  BY <1>9 DEF vars, Planned
<1>10. (PlanNext => \E r \in Round : PlanRound(Daemon, r)) /\ Daemon \in Collector
  BY RoundAssumption DEF PlanNext
<1>11. \A g \in Collector : PlanRequested(g) => \E r \in Round : PlanRound(g, r)
  BY DEF PlanRequested
<1>12. ASSUME NEW r \in Round, PublishEvidence(r)
       PROVE  UNCHANGED <<item, run, enrolled, candidate>> /\ evident \subseteq evident'
  BY <1>12 DEF PublishEvidence
<1>13. (\E r \in Round : PublishEvidence(r)) =>
         /\ \A i \in Item : item[i] = "done" => item'[i] = "done"
         /\ \A r \in Round : Planned(r) => Planned(r)'
         /\ enrolled \subseteq enrolled' /\ candidate \subseteq candidate' /\ evident \subseteq evident'
  BY <1>12 DEF Planned
<1> QED
  BY <1>1, <1>2, <1>3, <1>4, <1>5, <1>6, <1>7, <1>8, <1>9, <1>10, <1>11, <1>13 DEF Next

\* Hence the views only grow.
LEMMA ResultsGrow ==
  ASSUME Inv, JobsSound, [Next]_vars, NEW r \in Round
  PROVE  RoundResults(r) \subseteq RoundResults(r)'
<1>1. CASE Planned(r)
  <2>1. Planned(r)' /\ \A j \in Needs[r] : item[j] = "done" => item'[j] = "done"
    BY <1>1, ResearchGrows, RoundAssumption
  <2> QED
    BY <1>1, <2>1, ResearchGrows DEF RoundResults, Planned
<1>2. CASE ~Planned(r)
  BY <1>2 DEF RoundResults, Planned
<1> QED
  BY <1>1, <1>2

LEMMA ProductsGrow ==
  ASSUME Inv, JobsSound, [Next]_vars
  PROVE  ProductResults \subseteq ProductResults'
BY ResearchGrows DEF ProductResults, Reached

\* An object is strong by a Product or by an active round.
StrongBy(o) ==
  \/ \E i \in ProductResults : o = ObjectOf[i]
  \/ \E r \in Round : round[r] = "active" /\ \E i \in RoundResults(r) : o = ObjectOf[i]

\* What is strong stays strong, while the rounds that are active stay active.
LEMMA StrongGrows ==
  ASSUME Inv, JobsSound, [Next]_vars, NEW o, Strong(o),
         \A r \in Round : round[r] = "active" => round'[r] = "active"
  PROVE  Strong(o)'
<1>1. StrongBy(o)
  BY DEF Strong, StrongResults, ObjectsOf, StrongBy
<1>2. StrongBy(o)'
  BY <1>1, ResultsGrow, ProductsGrow DEF StrongBy
<1> QED
  BY <1>2 DEF Strong, StrongResults, ObjectsOf, StrongBy

\* A round that answers for an object goes on to while it is pending and whoever
\* would complete it removes the object first.
LEMMA AnswerStays ==
  ASSUME Inv, JobsSound, [Next]_vars, NEW o, NEW q \in Round, AnsweredBy(q, o),
         round'[q] = "gc_pending",
         \A g \in Collector : collector'[g] # Idle /\ collector'[g].plan.round = q => o \in Removes(g)'
  PROVE  AnsweredBy(q, o)'
BY ResultsGrow DEF AnsweredBy, Pending, ObjectsOf

\* A step of no collector that closes no round keeps what is kept.
LEMMA KeptStays ==
  ASSUME Inv, JobsSound, [Next]_vars, NEW o, Kept(o), UNCHANGED collector,
         \A r \in Round : round[r] \in {"active", "gc_pending"} => round'[r] = round[r]
  PROVE  Kept(o)'
<1>1. CASE Strong(o)
  BY <1>1, StrongGrows DEF Kept
<1>2. ASSUME NEW q \in Round, AnsweredBy(q, o)
      PROVE  AnsweredBy(q, o)'
  BY <1>2, AnswerStays DEF AnsweredBy, Pending, Removes, Evicting
<1> QED
  BY <1>1, <1>2 DEF Kept

\* The steps that touch no work are those of collectors, promotions and evidence.
LEMMA WorkUntouched ==
  ASSUME Inv, [Next]_vars,
         \A r \in Round :
           ~(OpenRound(r) \/ BuildSuite(r) \/ PlanSuite(r) \/ AbandonSuite(r) \/ Reset(r)),
         \A w \in Worker : ~(ClaimSome(w) \/ Register(w) \/ Fail(w))
  PROVE  /\ UNCHANGED <<run, item>>
         /\ UNCHANGED <<evident, late>> \/ \E r \in Round : PublishEvidence(r)
<1> USE DEF researchVars, evidenceVars
<1>1. ASSUME NEW w \in Worker, WriteFile(w) \/ LoseLease(w) \/ Drop(w)
      PROVE  UNCHANGED <<run, item, evident, late>>
  BY <1>1 DEF WriteFile, LoseLease, Drop
<1>2. ASSUME NEW g \in Collector,
             \/ \E r \in Round : PlanRound(g, r)
             \/ Execute(g) \/ EvictFails(g) \/ CollectorDies(g)
      PROVE  UNCHANGED <<run, item, evident, late>>
  BY <1>2 DEF PlanRound, Execute, BeginSweep, Evict, FinishSweep, EvictFails, CollectorDies
<1>3. CASE \/ \E i \in Item : BeginPromotion(i) \/ PromoteCandidate(i)
           \/ CommitPromotion \/ AbortPromotion
  BY <1>3 DEF BeginPromotion, PromoteCandidate, CommitPromotion, AbortPromotion
<1>4. ASSUME NEW r \in Round, PublishEvidence(r)
      PROVE  UNCHANGED <<run, item>>
  BY <1>4 DEF PublishEvidence
<1>5. CASE UNCHANGED vars
  BY <1>5 DEF vars
<1> QED
  BY <1>1, <1>2, <1>3, <1>4, <1>5, RoundAssumption DEF Next, PlanNext, PlanRequested

-----------------------------------------------------------------------------
(* Claims *)

\* Rounds, suites and resets end no lease.
LEMMA JobsRounds ==
  ASSUME Inv, RetentionInv, NEW r \in Round,
         OpenRound(r) \/ BuildSuite(r) \/ PlanSuite(r) \/ AbandonSuite(r) \/ Reset(r)
  PROVE  JobsSound'
<1> USE DEF Inv, GcTypeOK, RetentionInv
<1>1. UNCHANGED job
  BY DEF OpenRound, BuildSuite, PlanSuite, AbandonSuite, Reset
<1>2. ASSUME NEW w \in Worker, job[w] # NoJob
      PROVE  /\ Planned(job[w].round)'
             /\ run'[job[w].round] = "active" => round'[job[w].round] = "active"
             /\ Holds(w) => item'[job[w].item] = "running"
  <2>1. /\ job[w].item \in Item /\ job[w].round \in Round
        /\ Planned(job[w].round)
        /\ run[job[w].round] = "active" => round[job[w].round] = "active"
        /\ Holds(w) => item[job[w].item] = "running"
    BY <1>2, JobParts DEF JobsSound
  <2>2. CASE OpenRound(r)
    BY <2>1, <2>2 DEF OpenRound, Planned, ResearchTypes
  <2>3. CASE BuildSuite(r) \/ AbandonSuite(r)
    BY <2>1, <2>3 DEF BuildSuite, AbandonSuite, Planned, ResearchTypes
  <2>4. CASE PlanSuite(r)
    BY <2>1, <2>4 DEF PlanSuite, Planned, ResearchTypes
  <2>5. CASE Reset(r)
    BY <2>1, <2>5 DEF Reset, Planned, ResearchTypes
  <2> QED
    BY <2>1, <2>2, <2>3, <2>4, <2>5
<1> QED
  BY <1>1, <1>2 DEF JobsSound, Holds

\* A claim is made through an active round, of an item nobody has under lease; an
\* end of a run never makes one active.
LEMMA JobsWorkers ==
  ASSUME Inv, RetentionInv, NEW w \in Worker,
         \/ ClaimSome(w) \/ WriteFile(w) \/ Register(w) \/ Fail(w) \/ LoseLease(w) \/ Drop(w)
  PROVE  JobsSound'
<1> USE DEF Inv, GcTypeOK, RetentionInv, researchVars
<1>1. /\ UNCHANGED round
      /\ \A r \in Round : run'[r] = "active" => run[r] = "active"
      /\ \A r \in Round : Planned(r) => Planned(r)'
  BY DEF ClaimSome, Claim, WriteFile, Register, Fail, LoseLease, Drop, RunsAfter, Planned, ResearchTypes
<1>2. CASE ClaimSome(w)
  <2>1. PICK r \in Round, i \in Item : Claim(w, r, i)
    BY <1>2 DEF ClaimSome
  <2>2. job' = [job EXCEPT ![w] = [at |-> "executing", round |-> r, item |-> i, lost |-> FALSE]]
    BY <2>1 DEF Claim
  <2>3. /\ i \in Needs[r] /\ round[r] = "active" /\ run[r] = "active"
        /\ item' = [item EXCEPT ![i] = "running"]
    BY <2>1 DEF Claim
  <2>4. \A v \in Worker : Holds(v) => job[v].item # i
    BY <2>1 DEF Claim, Current, Holds, JobsSound
  <2>5. ASSUME NEW v \in Worker, job'[v] # NoJob
        PROVE  /\ job'[v].item \in Needs[job'[v].round] /\ Planned(job[v].round)'
               /\ run'[job'[v].round] = "active" => round'[job'[v].round] = "active"
    <3>1. CASE v = w
      BY <1>1, <2>2, <2>3, <3>1 DEF Planned, FileTypes
    <3>2. CASE v # w
      <4>1. job'[v] = job[v]
        BY <2>2, <3>2 DEF FileTypes
      <4> QED
        BY <1>1, <2>5, <4>1, JobParts DEF JobsSound
    <3> QED
      BY <3>1, <3>2
  <2>6. ASSUME NEW v \in Worker, Holds(v)'
        PROVE  /\ item'[job'[v].item] = "running"
               /\ \A u \in Worker \ {v} : Holds(u)' => job'[u].item # job'[v].item
    <3>1. \A u \in Worker : u # w => job'[u] = job[u] /\ (Holds(u)' <=> Holds(u))
      BY <2>2 DEF FileTypes, Holds
    <3>2. job'[w].item = i
      BY <2>2 DEF FileTypes
    <3>3. \A u \in Worker \ {w} : Holds(u) => /\ job[u].item \in Item
                                              /\ item[job[u].item] = "running"
      BY JobParts DEF Holds, JobsSound
    <3> QED
      BY <2>3, <2>4, <2>6, <3>1, <3>2, <3>3 DEF JobsSound, ResearchTypes
  <2> QED
    BY <2>5, <2>6 DEF JobsSound
<1>3. CASE WriteFile(w) \/ LoseLease(w) \/ Drop(w)
  <2>1. /\ UNCHANGED <<item, run>>
        /\ \A v \in Worker : job'[v] # NoJob =>
             /\ job[v] # NoJob /\ job'[v].item = job[v].item /\ job'[v].round = job[v].round
             /\ Holds(v)' => Holds(v)
    <3>1. CASE WriteFile(w)
      BY <3>1, JobType DEF WriteFile, FileTypes, Holds, Jobs
    <3>2. CASE LoseLease(w)
      BY <3>2, JobType DEF LoseLease, FileTypes, Holds, Jobs
    <3>3. CASE Drop(w)
      BY <3>3 DEF Drop, FileTypes, Holds
    <3> QED
      BY <1>3, <3>1, <3>2, <3>3
  <2>2. \A v \in Worker : Holds(v)' => job'[v] # NoJob
    BY DEF Holds
  <2> QED
    BY <1>1, <2>1, <2>2 DEF JobsSound, Planned
<1>4. CASE Register(w) \/ Fail(w)
  <2>1. job' = [job EXCEPT ![w] = NoJob] /\ Holds(w)
    BY <1>4 DEF Register, Fail, MayPublish, Current, Holds
  <2>2. \A v \in Worker : job'[v] # NoJob => v # w /\ job'[v] = job[v] /\ (Holds(v)' <=> Holds(v))
    BY <2>1 DEF FileTypes, Holds
  <2>3. \A v \in Worker \ {w} : Holds(v) => job[v].item # job[w].item /\ job[v].item \in Item
    BY <2>1, JobParts DEF JobsSound, Holds
  <2>4. \A i \in Item : item[i] = "running" /\ i # job[w].item => item'[i] = "running"
    BY <1>4 DEF Register, Fail, ResearchTypes
  <2>5. \A v \in Worker : Holds(v)' => job'[v] # NoJob
    BY DEF Holds
  <2> QED
    BY <1>1, <2>2, <2>3, <2>4, <2>5, JobParts DEF JobsSound
<1> QED
  BY <1>2, <1>3, <1>4

LEMMA JobsStep ==
  ASSUME Inv, RetentionInv, [Next]_vars
  PROVE  JobsSound'
<1>1. CASE UNCHANGED <<round, run, item, job>>
  BY <1>1 DEF RetentionInv, JobsSound, Planned, Holds
<1>2. CASE \E g \in Collector : FinishSweep(g)
  <2>1. PICK g \in Collector : FinishSweep(g)
    BY <1>2
  <2>2. /\ UNCHANGED <<run, item, job>>
        /\ round' = [round EXCEPT ![collector[g].plan.round] = "gc_complete"]
    BY <2>1 DEF FinishSweep
  <2>3. collector[g] # Idle
    BY <2>1 DEF FinishSweep, Idle
  <2>4. round[collector[g].plan.round] # "active"
    BY <2>3 DEF RetentionInv, PlansClosed
  <2>5. \A r \in Round : round[r] = "active" => round'[r] = "active"
    BY <2>2, <2>4 DEF Inv, GcTypeOK, ResearchTypes
  <2> QED
    BY <2>2, <2>5, JobParts DEF RetentionInv, JobsSound, Planned, Holds
<1>3. ASSUME NEW g \in Collector,
             \/ \E r \in Round : PlanRound(g, r)
             \/ BeginSweep(g) \/ Evict(g) \/ EvictFails(g) \/ CollectorDies(g)
      PROVE  UNCHANGED <<round, run, item, job>>
  BY <1>3 DEF PlanRound, BeginSweep, Evict, EvictFails, CollectorDies, researchVars
<1>4. CASE \/ \E i \in Item : BeginPromotion(i) \/ PromoteCandidate(i)
           \/ CommitPromotion \/ AbortPromotion
  BY <1>1, <1>4 DEF BeginPromotion, PromoteCandidate, CommitPromotion, AbortPromotion, researchVars
<1>5. CASE UNCHANGED vars \/ \E r \in Round : PublishEvidence(r)
  BY <1>1, <1>5 DEF vars, researchVars, PublishEvidence
<1> QED
  BY <1>1, <1>2, <1>3, <1>4, <1>5, JobsRounds, JobsWorkers, RoundAssumption
  DEF Next, PlanNext, PlanRequested, Execute

-----------------------------------------------------------------------------
(* Work *)

\* Rounds, suites and resets begin no work; a suite that is planned over results
\* alone has completed.
LEMMA WorkRounds ==
  ASSUME Inv, RetentionInv, [Next]_vars, NEW r \in Round,
         OpenRound(r) \/ BuildSuite(r) \/ PlanSuite(r) \/ AbandonSuite(r) \/ Reset(r)
  PROVE  WorkSound'
<1> USE DEF Inv, GcTypeOK, ResearchTypes
<1>1. \A i \in Item : item'[i] # item[i] => {item[i], item'[i]} \subseteq {"absent", "queued", "dead"}
  BY DEF OpenRound, BuildSuite, PlanSuite, AbandonSuite, Reset
<1>2. \A i \in Item : item'[i] \in {"running", "done"} <=> item[i] \in {"running", "done"}
  BY <1>1
<1>3. results' = results
  BY <1>1 DEF results
<1>4. ASSUME NEW q \in Round, run'[q] = "completed"
      PROVE  Needs[q] \subseteq results
  <2>1. CASE run[q] = "completed"
    BY <2>1 DEF RetentionInv, WorkSound
  <2>2. CASE run[q] # "completed"
    BY <1>4, <2>2, RoundAssumption DEF OpenRound, BuildSuite, PlanSuite, AbandonSuite, Reset, results
  <2> QED
    BY <2>1, <2>2
<1>5. \A q \in Round : Planned(q) => Planned(q)'
  BY ResearchGrows DEF RetentionInv
<1>6. UNCHANGED evident
  BY DEF OpenRound, BuildSuite, PlanSuite, AbandonSuite, Reset, evidenceVars
<1> QED
  BY <1>2, <1>3, <1>4, <1>5, <1>6 DEF RetentionInv, WorkSound

\* A claim is made of work whose inputs exist; a run completes with its last result.
LEMMA WorkWorkers ==
  ASSUME Inv, RetentionInv, [Next]_vars, NEW w \in Worker,
         ClaimSome(w) \/ Register(w) \/ Fail(w)
  PROVE  WorkSound'
<1> USE DEF Inv, GcTypeOK, ResearchTypes
<1>1. /\ \A q \in Round : Planned(q) => Planned(q)'
      /\ \A i \in Item : item[i] = "done" => item'[i] = "done"
      /\ UNCHANGED evident
  BY ResearchGrows DEF RetentionInv, ClaimSome, Claim, Register, Fail, evidenceVars
<1>2. results \subseteq results'
  BY <1>1 DEF results
<1>3. CASE ClaimSome(w)
  <2>1. PICK r \in Round, i \in Item : Claim(w, r, i)
    BY <1>3 DEF ClaimSome
  <2>2. /\ item' = [item EXCEPT ![i] = "running"] /\ item[i] # "done" /\ UNCHANGED run
        /\ Requires[i] \subseteq results
    BY <2>1, RoundAssumption DEF Claim, results
  <2>3. results' = results
    BY <2>2 DEF results
  <2> QED
    BY <1>1, <2>2, <2>3 DEF RetentionInv, WorkSound
<1>4. CASE Register(w)
  <2>1. PICK k \in Item, r \in Round : k = job[w].item /\ r = job[w].round
    BY <1>4, JobParts DEF Register
  <2>2. /\ item[k] = "running" /\ item' = [item EXCEPT ![k] = "done"] /\ run' = RunsAfter(results', {})
        /\ Planned(r) /\ k \in Needs[r]
    BY <1>4, <2>1 DEF Register, MayPublish, Current, RetentionInv, JobsSound, Holds, results
  <2>3. results' = results \cup {k}
    BY <2>2 DEF results
  <2>4. \A q \in Round : run'[q] = "completed" => run[q] = "completed" \/ Needs[q] \subseteq results'
    BY <2>2 DEF RunsAfter
  <2>5. \A i \in Item : item'[i] \in {"running", "done"} => item[i] \in {"running", "done"}
    BY <2>2
  <2>6. \A i \in results' : \E q \in Round : Planned(q)' /\ i \in Needs[q]
    BY <1>1, <2>2, <2>3 DEF RetentionInv, WorkSound
  <2> QED
    BY <1>1, <1>2, <2>4, <2>5, <2>6 DEF RetentionInv, WorkSound
<1>5. CASE Fail(w)
  <2>1. \A i \in Item : item'[i] \in {"running", "done"} => item'[i] = item[i]
    BY <1>5 DEF Fail
  <2>2. \A q \in Round : run'[q] = "completed" => run[q] = "completed" \/ Needs[q] \subseteq results
    BY <1>5 DEF Fail, RunsAfter
  <2>3. results' = results
    BY <1>2, <2>1 DEF results
  <2> QED
    BY <1>1, <2>1, <2>2, <2>3 DEF RetentionInv, WorkSound
<1> QED
  BY <1>3, <1>4, <1>5

LEMMA WorkStep ==
  ASSUME Inv, RetentionInv, [Next]_vars
  PROVE  WorkSound'
<1>1. CASE UNCHANGED <<run, item, evident>>
  BY <1>1 DEF RetentionInv, WorkSound, results, Planned
<1>2. ASSUME UNCHANGED <<run, item>>, NEW r \in Round, PublishEvidence(r)
      PROVE  WorkSound'
  <2>1. evident' \subseteq evident \cup Needs[r] /\ run[r] = "completed"
    BY <1>2 DEF PublishEvidence
  <2> QED
    BY <1>2, <2>1 DEF RetentionInv, WorkSound, results, Planned
<1> QED
  BY <1>1, <1>2, WorkRounds, WorkWorkers, WorkUntouched

\* Whatever has evidence or is cited by a result is found: results were planned.
LEMMA FoundFrom ==
  ASSUME Inv, WorkSound
  PROVE  evident \subseteq Found /\ \A j \in results : Cites[j] \subseteq Found
<1>1. ASSUME NEW j \in results
      PROVE  Cites[j] \subseteq Found /\ (j \in evident => j \in Found)
  <2>1. PICK r \in Round : Planned(r) /\ j \in Needs[r]
    BY DEF WorkSound
  <2>2. Cites[j] \subseteq RoundResults(r) /\ (j \in evident => j \in RoundResults(r))
    BY <2>1 DEF RoundResults, Planned, results
  <2> QED
    BY <2>2 DEF Found
<1> QED
  BY <1>1 DEF WorkSound

\* Nothing else is found.
LEMMA FoundTo ==
  ASSUME NEW i \in Found
  PROVE  i \in evident \/ \E j \in results : i \in Cites[j]
BY RoundAssumption DEF Found, RoundResults, results

-----------------------------------------------------------------------------
(* Plans *)

\* A plan is held on to, or it has just been made of a closed round.
LEMMA PlanHeld ==
  ASSUME Inv, [Next]_vars, NEW g \in Collector, collector'[g] # Idle
  PROVE  \/ collector[g] # Idle /\ collector'[g].plan = collector[g].plan
         \/ \E r \in Round : PlanRound(g, r) /\ collector'[g].plan = PlanOf(r)
<1> USE DEF Inv, GcTypeOK, CollectionTypes
<1>1. CASE UNCHANGED collector
  BY <1>1
<1>2. ASSUME NEW h \in Collector, NEW r \in Round, PlanRound(h, r)
      PROVE  \/ collector[g] # Idle /\ collector'[g].plan = collector[g].plan
             \/ PlanRound(g, r) /\ collector'[g].plan = PlanOf(r)
  BY <1>2 DEF PlanRound, SetCollector
<1>3. ASSUME NEW h \in Collector, BeginSweep(h)
      PROVE  collector[g] # Idle /\ collector'[g].plan = collector[g].plan
  BY <1>3 DEF BeginSweep, SetCollector, Idle
<1>4. ASSUME NEW h \in Collector, Evict(h)
      PROVE  collector[g] # Idle /\ collector'[g].plan = collector[g].plan
  BY <1>4, HeldBySweep DEF Evict, Evicting
<1>5. ASSUME NEW h \in Collector, FinishSweep(h) \/ EvictFails(h) \/ CollectorDies(h)
      PROVE  collector[g] # Idle /\ collector'[g].plan = collector[g].plan
  BY <1>5 DEF FinishSweep, EvictFails, CollectorDies, SetCollector
<1>6. ASSUME NEW r \in Round,
             OpenRound(r) \/ BuildSuite(r) \/ PlanSuite(r) \/ AbandonSuite(r) \/ Reset(r)
      PROVE  UNCHANGED collector
  BY <1>6 DEF OpenRound, BuildSuite, PlanSuite, AbandonSuite, Reset, gcVars
<1>7. ASSUME NEW w \in Worker,
             ClaimSome(w) \/ WriteFile(w) \/ Register(w) \/ Fail(w) \/ LoseLease(w) \/ Drop(w)
      PROVE  UNCHANGED collector
  BY <1>7 DEF ClaimSome, Claim, WriteFile, Register, Fail, LoseLease, Drop, gcVars
<1>8. CASE \/ \E i \in Item : BeginPromotion(i) \/ PromoteCandidate(i)
           \/ CommitPromotion \/ AbortPromotion
  BY <1>1, <1>8 DEF BeginPromotion, PromoteCandidate, CommitPromotion, AbortPromotion, gcVars
<1>9. CASE UNCHANGED vars \/ \E r \in Round : PublishEvidence(r)
  BY <1>1, <1>9 DEF vars, gcVars, PublishEvidence
<1> QED
  BY <1>1, <1>2, <1>3, <1>4, <1>5, <1>6, <1>7, <1>8, <1>9, RoundAssumption
  DEF Next, PlanNext, PlanRequested, Execute

LEMMA PlansStep ==
  ASSUME Inv, RetentionInv, [Next]_vars
  PROVE  PlansClosed'
<1>1. \A r \in Round : round[r] \in {"gc_pending", "gc_complete"} => round'[r] \in {"gc_pending", "gc_complete"}
  BY RecordedStep DEF Recorded, vars, researchVars
<1> SUFFICES ASSUME NEW g \in Collector, collector'[g] # Idle
             PROVE  round'[collector'[g].plan.round] \in {"gc_pending", "gc_complete"}
  BY DEF PlansClosed
<1>2. CASE collector[g] # Idle /\ collector'[g].plan = collector[g].plan
  BY <1>1, <1>2, PlanRoundType DEF RetentionInv, PlansClosed
<1>3. ASSUME NEW r \in Round, PlanRound(g, r), collector'[g].plan = PlanOf(r)
      PROVE  round'[collector'[g].plan.round] \in {"gc_pending", "gc_complete"}
  BY <1>1, <1>3, PlanOfType DEF PlanRound
<1> QED
  BY <1>2, <1>3, PlanHeld

-----------------------------------------------------------------------------
(* Files *)

\* A reset hands what the round has retained to the round itself: it is closed
\* now, and nobody has planned it before.
LEMMA KeptAtReset ==
  ASSUME Inv, RetentionInv, [Next]_vars, NEW r \in Round, Reset(r), NEW o, Kept(o)
  PROVE  Kept(o)'
<1>1. /\ round[r] = "active" /\ round' = [round EXCEPT ![r] = "gc_pending"]
      /\ UNCHANGED collector
  BY DEF Reset, gcVars
<1>2. JobsSound /\ PlansClosed
  BY DEF RetentionInv
<1>3. round \in [Round -> {"absent", "active", "gc_pending", "gc_complete"}]
  BY DEF Inv, GcTypeOK, ResearchTypes
<1>4. CASE \E i \in ProductResults : o = ObjectOf[i]
  <2>1. StrongBy(o)'
    BY <1>2, <1>4, ProductsGrow DEF StrongBy
  <2> QED
    BY <2>1 DEF Kept, Strong, StrongResults, ObjectsOf, StrongBy
<1>5. ASSUME NEW q \in Round, round[q] = "active", NEW i \in RoundResults(q), o = ObjectOf[i]
      PROVE  Kept(o)'
  <2>1. i \in RoundResults(q)'
    BY <1>2, ResultsGrow
  <2>2. CASE q # r
    <3>1. StrongBy(o)'
      BY <1>1, <1>3, <1>5, <2>1, <2>2 DEF StrongBy
    <3> QED
      BY <3>1 DEF Kept, Strong, StrongResults, ObjectsOf, StrongBy
  <2>3. CASE q = r
    <3>1. \A g \in Collector : collector'[g] # Idle => collector'[g].plan.round # r
      BY <1>1, <1>2 DEF PlansClosed
    <3>2. AnsweredBy(r, o)'
      BY <1>1, <1>3, <1>5, <2>1, <2>3, <3>1 DEF AnsweredBy, Pending, ObjectsOf
    <3> QED
      BY <3>2 DEF Kept
  <2> QED
    BY <2>2, <2>3
<1>6. ASSUME NEW q \in Round, AnsweredBy(q, o)
      PROVE  AnsweredBy(q, o)'
  <2>1. round'[q] = "gc_pending"
    BY <1>1, <1>3, <1>6 DEF AnsweredBy, Pending
  <2> QED
    BY <1>1, <1>2, <1>6, <2>1, AnswerStays DEF AnsweredBy, Removes, Evicting
<1>7. Strong(o) => StrongBy(o)
  BY DEF Strong, StrongResults, ObjectsOf, StrongBy
<1> QED
  BY <1>4, <1>5, <1>6, <1>7 DEF Kept, StrongBy

\* Where nothing new is found, every file that was kept has to stay kept.
LEMMA AllKeptStays ==
  ASSUME Inv, RetentionInv, results' = results, UNCHANGED <<evident, late>>,
         file' \ loose' \subseteq file \ loose,
         \A o \in file' \ loose' : Kept(o) => Kept(o)'
  PROVE  AllKept'
<1>1. Found' \subseteq Found
  <2> SUFFICES ASSUME NEW i \in Found'
               PROVE  i \in Found
    OBVIOUS
  <2>1. i \in evident' \/ \E j \in results' : i \in Cites[j]
    BY RoundAssumption DEF Found, RoundResults, results
  <2> QED
    BY <2>1, FoundFrom DEF RetentionInv
<1>2. ASSUME NEW o, ~Astray(o)'
      PROVE  ~Astray(o)
  BY <1>1, <1>2 DEF Astray, results
<1> QED
  BY <1>1, <1>2 DEF RetentionInv, AllKept

\* Rounds and suites otherwise close nothing.
LEMMA KeptRounds ==
  ASSUME Inv, RetentionInv, [Next]_vars, NEW r \in Round,
         OpenRound(r) \/ BuildSuite(r) \/ PlanSuite(r) \/ AbandonSuite(r) \/ Reset(r)
  PROVE  AllKept'
<1>1. /\ UNCHANGED <<evident, late, file, loose, collector>>
      /\ \A i \in Item : item'[i] = "done" <=> item[i] = "done"
  BY DEF OpenRound, BuildSuite, PlanSuite, AbandonSuite, Reset, gcVars, evidenceVars,
         Inv, GcTypeOK, ResearchTypes
<1>2. ASSUME NEW o, Kept(o)
      PROVE  Kept(o)'
  <2>1. CASE Reset(r)
    BY <1>2, <2>1, KeptAtReset
  <2>2. CASE ~Reset(r)
    <3>1. \A q \in Round : round[q] \in {"active", "gc_pending"} => round'[q] = round[q]
      BY <2>2 DEF OpenRound, BuildSuite, PlanSuite, AbandonSuite, Inv, GcTypeOK, ResearchTypes
    <3> QED
      BY <1>1, <1>2, <3>1, KeptStays DEF RetentionInv
  <2> QED
    BY <2>1, <2>2
<1>3. results' = results
  BY <1>1 DEF results
<1> QED
  BY <1>1, <1>2, <1>3, AllKeptStays

\* A result is registered through a run that is active, hence for a round that
\* is: what it cites is strong.
LEMMA CitedIsStrong ==
  ASSUME Inv, RetentionInv, NEW w \in Worker, Register(w),
         NEW k, k = job[w].item, NEW i \in Cites[k]
  PROVE  Strong(ObjectOf[i])'
<1>1. PICK r \in Round : r = job[w].round
  BY JobParts DEF Register
<1>2. k \in Item /\ k \in Needs[r] /\ Planned(r) /\ run[r] = "active"
  BY <1>1, JobParts DEF Register, MayPublish, RetentionInv, JobsSound
<1>3. round'[r] = "active"
  BY <1>1, <1>2 DEF Register, RetentionInv, JobsSound
<1>4. item'[k] = "done" /\ Planned(r)'
  BY <1>1, <1>2 DEF Register, RunsAfter, Planned, Inv, GcTypeOK, ResearchTypes
<1>5. i \in RoundResults(r)'
  BY <1>2, <1>4 DEF RoundResults, Planned
<1> QED
  BY <1>3, <1>5 DEF Strong, StrongResults, ObjectsOf

\* A new result is itself led to by nothing, so its file is astray; what it cites
\* is strong.
LEMMA KeptAtRegister ==
  ASSUME Inv, RetentionInv, [Next]_vars, NEW w \in Worker, Register(w),
         \A o : Kept(o) => Kept(o)'
  PROVE  AllKept'
<1>1. PICK k \in Item : k = job[w].item
  BY JobParts DEF Register
<1>2. /\ item[k] = "running" /\ item' = [item EXCEPT ![k] = "done"]
      /\ UNCHANGED <<evident, late, file>> /\ loose' = loose \ {ObjectOf[k]}
  BY <1>1 DEF Register, MayPublish, Current, RetentionInv, JobsSound, Holds, evidenceVars
<1>3. results' = results \cup {k} /\ k \notin results
  BY <1>2 DEF results, Inv, GcTypeOK, ResearchTypes
<1>4. \A j \in results \cup {k} : Requires[j] \subseteq results
  BY <1>2, <1>3 DEF RetentionInv, WorkSound, results
<1>5. ASSUME NEW i \in Found'
      PROVE  i # k /\ (i \in Found \/ i \in Cites[k])
  <2>1. i \in evident \/ \E j \in results \cup {k} : i \in Cites[j]
    BY <1>2, <1>3, RoundAssumption DEF Found, RoundResults, results
  <2>2. i # k
    BY <1>3, <1>4, <2>1, RoundAssumption DEF RetentionInv, WorkSound, results
  <2> QED
    BY <2>1, <2>2, FoundFrom DEF RetentionInv
<1> SUFFICES ASSUME NEW i \in Found', ObjectOf[i] \in file' \ loose', ~Astray(ObjectOf[i])'
             PROVE  Kept(ObjectOf[i])'
  BY DEF AllKept
<1> DEFINE o == ObjectOf[i]
<1>6. o # ObjectOf[k]
  BY <1>2, <1>5 DEF Astray, Inv, GcTypeOK, ResearchTypes
<1>7. o \in file \ loose
  BY <1>2, <1>6
<1>8. \A m \in Cites[k] : Kept(ObjectOf[m])'
  BY <1>1, CitedIsStrong DEF Kept
<1>9. CASE Astray(o)
  <2>1. PICK m \in Item : item[m] = "done" /\ ObjectOf[m] = o /\ m \notin Found \ late
    BY <1>9 DEF Astray
  <2>2. m \in Found' \ late
    BY <1>2, <2>1 DEF Astray, Inv, GcTypeOK, ResearchTypes
  <2> QED
    BY <1>5, <1>8, <2>1, <2>2
<1>10. CASE ~Astray(o)
  BY <1>5, <1>7, <1>8, <1>10 DEF RetentionInv, AllKept
<1> QED
  BY <1>9, <1>10

\* Evidence that comes in time makes its result strong; the file of a result
\* whose evidence comes late is astray.
LEMMA KeptAtEvidence ==
  ASSUME Inv, RetentionInv, [Next]_vars, NEW r \in Round, PublishEvidence(r)
  PROVE  AllKept'
<1>1. PICK k \in Needs[r] \cap Evidence :
        /\ evident' = evident \cup {k}
        /\ \/ round[r] = "active" /\ UNCHANGED late
           \/ late' = late \cup {k}
  BY DEF PublishEvidence
<1>2. /\ UNCHANGED <<round, run, item, file, loose, collector>> /\ run[r] = "completed"
      /\ k \in Item /\ item[k] = "done"
  BY RoundAssumption DEF PublishEvidence, researchVars, gcVars, RetentionInv, WorkSound, results
<1>3. ASSUME NEW o, Kept(o)
      PROVE  Kept(o)'
  BY <1>2, <1>3, KeptStays DEF RetentionInv
<1>4. Found' \subseteq Found \cup {k}
  <2> SUFFICES ASSUME NEW i \in Found'
               PROVE  i \in Found \cup {k}
    OBVIOUS
  <2>1. i \in evident' \/ \E j \in results : i \in Cites[j]
    BY <1>2, RoundAssumption DEF Found, RoundResults, results
  <2> QED
    BY <1>1, <2>1, FoundFrom DEF RetentionInv
<1> SUFFICES ASSUME NEW i \in Found', ObjectOf[i] \in file \ loose, ~Astray(ObjectOf[i])'
             PROVE  Kept(ObjectOf[i])'
  BY <1>2 DEF AllKept
<1>5. CASE ObjectOf[i] = ObjectOf[k]
  <2>1. k \notin late'
    BY <1>2, <1>5 DEF Astray
  <2>2. round'[r] = "active"
    BY <1>1, <1>2, <2>1
  <2>3. k \in RoundResults(r)'
    BY <1>1, <1>2 DEF RoundResults
  <2> QED
    BY <1>5, <2>2, <2>3 DEF Kept, Strong, StrongResults, ObjectsOf
<1>6. CASE ObjectOf[i] # ObjectOf[k]
  <2>1. ~Astray(ObjectOf[i])
    BY <1>1, <1>2, <1>4, <1>6 DEF Astray
  <2> QED
    BY <1>3, <1>4, <1>6, <2>1 DEF RetentionInv, AllKept
<1> QED
  BY <1>5, <1>6

LEMMA KeptWorkers ==
  ASSUME Inv, RetentionInv, [Next]_vars, NEW w \in Worker,
         ClaimSome(w) \/ WriteFile(w) \/ Register(w) \/ Fail(w) \/ LoseLease(w) \/ Drop(w)
  PROVE  AllKept'
<1>1. UNCHANGED <<round, collector, evident, late>>
  BY DEF ClaimSome, Claim, WriteFile, Register, Fail, LoseLease, Drop, gcVars, researchVars, evidenceVars
<1>2. ASSUME NEW o, Kept(o)
      PROVE  Kept(o)'
  BY <1>1, <1>2, KeptStays DEF RetentionInv
<1>3. CASE ~Register(w)
  <2>1. \A i \in Item : item'[i] = "done" => item[i] = "done"
    BY <1>3 DEF ClaimSome, Claim, WriteFile, Fail, LoseLease, Drop, researchVars, Inv, GcTypeOK, ResearchTypes
  <2>2. file' \ loose' \subseteq file \ loose
    BY <1>3 DEF ClaimSome, Claim, WriteFile, Fail, LoseLease, Drop
  <2>3. results' = results
    BY <2>1, ResearchGrows DEF results, RetentionInv
  <2> QED
    BY <1>1, <1>2, <2>2, <2>3, AllKeptStays
<1> QED
  BY <1>2, <1>3, KeptAtRegister

\* A plan of a round takes in whatever is not strong of it; an execution removes
\* it, or ends without completing the round.
LEMMA KeptCollection ==
  ASSUME Inv, RetentionInv, [Next]_vars, NEW g \in Collector,
         \/ \E r \in Round : PlanRound(g, r)
         \/ BeginSweep(g) \/ Evict(g) \/ EvictFails(g) \/ CollectorDies(g)
  PROVE  AllKept'
<1> USE DEF Inv, GcTypeOK, CollectionTypes
<1>1. UNCHANGED <<round, item, evident, late>> /\ file' \ loose' \subseteq file \ loose
  BY DEF PlanRound, BeginSweep, Evict, EvictFails, CollectorDies, researchVars, evidenceVars
<1>2. SUFFICES ASSUME NEW o \in file' \ loose', Kept(o)
               PROVE  Kept(o)'
  BY <1>1, AllKeptStays DEF results
<1>3. CASE Strong(o)
  BY <1>1, <1>3, StrongGrows DEF Kept, RetentionInv
<1>4. ASSUME NEW q \in Round, AnsweredBy(q, o), ~Strong(o)
      PROVE  AnsweredBy(q, o)'
  <2> SUFFICES ASSUME NEW h \in Collector, collector'[h] # Idle, collector'[h].plan.round = q
               PROVE  o \in Removes(h)'
    BY <1>1, <1>4, AnswerStays DEF RetentionInv, AnsweredBy, Pending
  <2>1. CASE \E r \in Round : PlanRound(g, r)
    <3>1. PICK r \in Round : PlanRound(g, r)
      BY <2>1
    <3>2. collector' = [collector EXCEPT ![g] = [at |-> "planned", plan |-> PlanOf(r)]]
      BY <3>1 DEF PlanRound, SetCollector
    <3>3. CASE h = g
      <4>1. collector'[h].plan = PlanOf(r) /\ ~Evicting(h)'
        BY <3>2, <3>3 DEF Evicting
      <4>2. r = q /\ o \in Garbage(r)
        BY <1>4, <4>1 DEF PlanOf, AnsweredBy, Garbage
      <4> QED
        BY <4>1, <4>2 DEF Removes, PlanOf
    <3>4. CASE h # g
      BY <1>4, <3>2, <3>4 DEF AnsweredBy, Removes, Evicting
    <3> QED
      BY <3>3, <3>4
  <2>2. CASE BeginSweep(g)
    BY <1>4, <2>2, HeldBySweep DEF BeginSweep, SetCollector, AnsweredBy, Removes, Evicting
  <2>3. CASE Evict(g)
    <3>1. PICK e \in collector[g].left :
            /\ file' = file \ {e}
            /\ collector' = [collector EXCEPT ![g].left = @ \ {e}]
      BY <2>3 DEF Evict
    <3>2. collector[g] = [at |-> "evicting", plan |-> collector[g].plan, left |-> collector[g].left]
      BY <2>3, HeldBySweep DEF Evict, Evicting
    <3>3. collector[g] # Idle
      BY <2>3, HeldBySweep DEF Evict, Evicting
    <3> QED
      BY <1>2, <1>4, <3>1, <3>2, <3>3 DEF AnsweredBy, Removes, Evicting
  <2>4. CASE EvictFails(g) \/ CollectorDies(g)
    BY <1>4, <2>4 DEF EvictFails, CollectorDies, SetCollector, AnsweredBy, Removes, Evicting
  <2> QED
    BY <2>1, <2>2, <2>3, <2>4
<1> QED
  BY <1>2, <1>3, <1>4 DEF Kept

\* A round is completed with nothing left to remove, so it answers for nothing.
LEMMA KeptAtFinish ==
  ASSUME Inv, RetentionInv, [Next]_vars, NEW g \in Collector, FinishSweep(g)
  PROVE  AllKept'
<1> USE DEF Inv, GcTypeOK, CollectionTypes
<1>0. PICK r \in Round : r = collector[g].plan.round
  BY PlanRoundType DEF FinishSweep, Idle
<1>1. /\ UNCHANGED <<item, evident, late, file, loose>> /\ collector' = [collector EXCEPT ![g] = Idle]
      /\ round' = [round EXCEPT ![r] = "gc_complete"]
      /\ Evicting(g) /\ collector[g].left = {} /\ collector[g] # Idle
  BY <1>0, HeldBySweep DEF FinishSweep, SetCollector, Evicting, evidenceVars
<1>2. JobsSound /\ PlansClosed
  BY DEF RetentionInv
<1>3. round[r] # "active"
  BY <1>0, <1>1, <1>2 DEF PlansClosed
<1>4. ASSUME NEW o, Kept(o)
      PROVE  Kept(o)'
  <2>1. CASE Strong(o)
    <3>1. \A q \in Round : round[q] = "active" => round'[q] = "active"
      BY <1>1, <1>3 DEF ResearchTypes
    <3> QED
      BY <1>2, <2>1, <3>1, StrongGrows DEF Kept
  <2>2. ASSUME NEW q \in Round, AnsweredBy(q, o)
        PROVE  AnsweredBy(q, o)'
    <3>1. q # r
      BY <1>0, <1>1, <2>2 DEF AnsweredBy, Removes
    <3>2. round'[q] = "gc_pending"
      BY <1>1, <2>2, <3>1 DEF AnsweredBy, Pending, ResearchTypes
    <3>3. \A h \in Collector : collector'[h] # Idle /\ collector'[h].plan.round = q => o \in Removes(h)'
      BY <1>0, <1>1, <2>2, <3>1 DEF AnsweredBy, Removes, Evicting
    <3> QED
      BY <1>2, <2>2, <3>2, <3>3, AnswerStays
  <2> QED
    BY <1>4, <2>1, <2>2 DEF Kept
<1> QED
  BY <1>1, <1>4, AllKeptStays DEF results

LEMMA KeptStep ==
  ASSUME Inv, RetentionInv, [Next]_vars
  PROVE  AllKept'
<1>1. CASE UNCHANGED <<round, item, evident, late, file, loose, collector>>
  <2>1. ASSUME NEW o, Kept(o)
        PROVE  Kept(o)'
    BY <1>1, <2>1, KeptStays DEF RetentionInv
  <2> QED
    BY <1>1, <2>1, AllKeptStays DEF results
<1>2. CASE \/ \E i \in Item : BeginPromotion(i) \/ PromoteCandidate(i)
           \/ CommitPromotion \/ AbortPromotion
  BY <1>1, <1>2 DEF BeginPromotion, PromoteCandidate, CommitPromotion, AbortPromotion, researchVars, evidenceVars, gcVars
<1>3. CASE UNCHANGED vars
  BY <1>1, <1>3 DEF vars, researchVars, evidenceVars, gcVars
<1> QED
  BY <1>2, <1>3, KeptRounds, KeptWorkers, KeptCollection, KeptAtFinish, KeptAtEvidence, RoundAssumption
  DEF Next, PlanNext, PlanRequested, Execute

-----------------------------------------------------------------------------
(* The theorems *)

LEMMA RetentionInit == Init => RetentionInv
BY DEF Init, RetentionInv, JobsSound, Holds, PlansClosed, WorkSound, results, AllKept, Idle, NoJob

\* Whatever is planned, reset, published and promoted around the collectors, a
\* closed round that shares a file is planned late enough to remove it.
THEOREM RetentionInvariance == Spec => []RetentionInv
<1>1. Inv /\ RetentionInv /\ [Next]_vars => RetentionInv'
  BY JobsStep, PlansStep, WorkStep, KeptStep DEF RetentionInv
<1> QED
  BY <1>1, RetentionInit, GcInvariance, PTL DEF Spec

\* Of the results that a round leads to no file is left behind: it is strong, or
\* a closed round that is not collected yet answers for it.
THEOREM NothingIsLeftBehind == Spec => []NothingLeftBehind
<1>1. RetentionInv => NothingLeftBehind
  BY DEF RetentionInv, AllKept, Kept, AnsweredBy, NothingLeftBehind
<1> QED
  BY <1>1, RetentionInvariance, PTL

-----------------------------------------------------------------------------
(* The contract *)

states == [r \in Round |-> StateOf(r)]

\* A run is active only while some of its results are missing.
ServiceSound == \A r \in Round : run[r] = "active" => \E i \in Needs[r] : item[i] # "done"

\* A suite is planned at once, over what exists.
LEMMA PlanRequests ==
  ASSUME Inv, NEW r \in Round, PlanSuite(r)
  PROVE  Contract!Request(r)
<1> USE DEF Inv, GcTypeOK, ResearchTypes, RunState, ItemState
<1>1. run[r] = "building" /\ run' = [run EXCEPT ![r] =
        IF \A i \in Needs[r] : item[i] = "done" THEN "completed" ELSE "active"]
  BY DEF PlanSuite
<1>2. results' = results
  BY DEF PlanSuite, results
<1>3. (\A i \in Needs[r] : item[i] = "done") <=> Needs[r] \subseteq results
  BY RoundAssumption DEF results
<1>4. states' = [states EXCEPT ![r] = IF Needs[r] \subseteq results THEN "completed" ELSE "active"]
  BY <1>1, <1>3 DEF states, StateOf
<1>5. states[r] = "absent"
  BY <1>1 DEF states, StateOf
<1> QED
  BY <1>2, <1>4, <1>5 DEF Contract!Request, states, results

\* A reset cancels the run that is active.
LEMMA ResetCancels ==
  ASSUME Inv, NEW r \in Round, Reset(r)
  PROVE  Contract!Cancel(r) \/ UNCHANGED <<states, results>>
<1> USE DEF Inv, GcTypeOK, ResearchTypes, RunState, ItemState
<1>1. CASE run[r] = "active"
  <2>1. run' = [run EXCEPT ![r] = "cancelled"] /\ results' = results
    BY <1>1 DEF Reset, results
  <2>2. states' = [states EXCEPT ![r] = "cancelled"] /\ states[r] = "active"
    BY <1>1, <2>1 DEF states, StateOf
  <2> QED
    BY <2>1, <2>2 DEF Contract!Cancel, states, results
<1>2. CASE run[r] # "active"
  BY <1>2 DEF Reset, states, StateOf, results
<1> QED
  BY <1>1, <1>2

\* The states a run can get into after some work was done or broken.
LEMMA StatesAfter ==
  ASSUME Inv, NEW done, NEW broken, run' = RunsAfter(done, broken)
  PROVE  /\ states' \in [Round -> Contract!State]
         /\ \A r \in Round : run[r] # "active" => states'[r] = states[r]
         /\ \A r \in Round : run[r] = "active" =>
              states'[r] = IF Needs[r] \cap broken # {} THEN "failed"
                           ELSE IF Needs[r] \subseteq done THEN "completed" ELSE "active"
BY DEF Inv, GcTypeOK, ResearchTypes, RunState, RunsAfter, states, StateOf, Contract!State

\* Registering a result delivers it, with all the runs it was the last one of.
LEMMA RegisterDelivers ==
  ASSUME Inv, RetentionInv, ServiceSound, NEW w \in Worker, Register(w),
         NEW i \in Item, i = job[w].item
  PROVE  Contract!Deliver(i)
<1> USE DEF Inv, GcTypeOK, ResearchTypes
<1>1. item[i] = "running" /\ item' = [item EXCEPT ![i] = "done"]
  BY DEF Register, MayPublish, Current, RetentionInv, JobsSound, Holds
<1>2. results' = results \cup {i} /\ i \notin results
  BY <1>1 DEF results
<1>3. Requires[i] \subseteq results
  BY <1>1 DEF RetentionInv, WorkSound
<1>4. run' = RunsAfter(results', {})
  BY DEF Register, results
<1>5. ASSUME NEW r \in Round, states'[r] # states[r]
      PROVE  /\ run[r] = "active" /\ i \in Needs[r] /\ Needs[r] \subseteq results'
             /\ states'[r] = "completed"
  <2>1. run[r] = "active" /\ states[r] = "active"
    BY <1>4, <1>5, StatesAfter DEF states, StateOf
  <2>2. Needs[r] \subseteq results' /\ states'[r] = "completed"
    BY <1>4, <1>5, <2>1, StatesAfter
  <2>3. ~(Needs[r] \subseteq results)
    BY <2>1 DEF ServiceSound, results
  <2> QED
    BY <1>2, <2>1, <2>2, <2>3
<1>6. states' \in [Round -> Contract!State]
  BY <1>4, StatesAfter
<1>7. \A r \in Round : run[r] = "active" => r \in Contract!Active
  BY DEF Contract!Active, StateOf
<1> QED
  BY <1>2, <1>3, <1>5, <1>6, <1>7 DEF Contract!Deliver, states, results

\* A failure ends every active run that needs the item, and no other: what it
\* breaks besides the item is needed only together with it.
LEMMA FailFails ==
  ASSUME Inv, RetentionInv, ServiceSound, NEW w \in Worker, Fail(w),
         NEW i \in Item, i = job[w].item
  PROVE  Contract!Fail(i)
<1> USE DEF Inv, GcTypeOK, ResearchTypes
<1> DEFINE broken == {i} \cup {j \in Item : i \in Requires[j] /\ item[j] = "queued"}
<1>1. /\ item[i] = "running"
      /\ item' = [j \in Item |-> IF j \in broken THEN "dead" ELSE item[j]]
      /\ run' = RunsAfter({}, broken)
  BY DEF Fail, Current, RetentionInv, JobsSound, Holds
<1>2. results' = results /\ i \notin results
  BY <1>1 DEF results
<1>3. \A r \in Round : Needs[r] \cap broken # {} <=> i \in Needs[r]
  BY RoundAssumption
<1> HIDE DEF broken
<1>4. \A r \in Round : run[r] = "active" => Needs[r] # {}
  BY DEF ServiceSound
<1>5. \A r \in Round : states'[r] = IF run[r] = "active" /\ i \in Needs[r] THEN "failed" ELSE states[r]
  <2> SUFFICES ASSUME NEW r \in Round
               PROVE  states'[r] = IF run[r] = "active" /\ i \in Needs[r] THEN "failed" ELSE states[r]
    OBVIOUS
  <2>1. CASE run[r] = "active"
    BY <1>1, <1>3, <1>4, <2>1, StatesAfter DEF states, StateOf
  <2>2. CASE run[r] # "active"
    BY <1>1, <2>2, StatesAfter
  <2> QED
    BY <2>1, <2>2
<1>6. states' \in [Round -> Contract!State]
  BY <1>1, StatesAfter
<1>7. \A r \in Round : run[r] = "active" <=> r \in Contract!Active
  BY DEF Contract!Active, StateOf
<1> QED
  BY <1>2, <1>5, <1>6, <1>7 DEF Contract!Fail, states, results

\* The other steps change no run for its requester, and neither undo nor add a result.
LEMMA OthersInvisible ==
  ASSUME Inv, [Next]_vars,
         \A r \in Round : ~PlanSuite(r) /\ ~Reset(r),
         \A w \in Worker : ~Register(w) /\ ~Fail(w)
  PROVE  UNCHANGED <<states, results>>
<1> USE DEF Inv, GcTypeOK, ResearchTypes
<1>1. ASSUME NEW r \in Round, OpenRound(r) \/ BuildSuite(r) \/ AbandonSuite(r)
      PROVE  UNCHANGED <<states, results>>
  BY <1>1 DEF OpenRound, BuildSuite, AbandonSuite, states, StateOf, results
<1>2. ASSUME NEW w \in Worker, ClaimSome(w)
      PROVE  UNCHANGED <<states, results>>
  BY <1>2 DEF ClaimSome, Claim, states, StateOf, results
<1>3. CASE UNCHANGED <<run, item>>
  BY <1>3 DEF states, StateOf, results
<1> QED
  BY <1>1, <1>2, <1>3, WorkUntouched

\* Suites that are planned have something to wait for, or have completed.
LEMMA ServiceRounds ==
  ASSUME Inv, ServiceSound, NEW r \in Round,
         OpenRound(r) \/ BuildSuite(r) \/ PlanSuite(r) \/ AbandonSuite(r) \/ Reset(r)
  PROVE  ServiceSound'
<1> USE DEF Inv, GcTypeOK, ResearchTypes
<1>1. \A i \in Item : item'[i] = "done" <=> item[i] = "done"
  BY DEF OpenRound, BuildSuite, PlanSuite, AbandonSuite, Reset
<1>2. ASSUME NEW q \in Round, run'[q] = "active"
      PROVE  \E i \in Needs[q] : item[i] # "done"
  <2>1. CASE run[q] = "active"
    BY <2>1 DEF ServiceSound
  <2>2. CASE run[q] # "active"
    <3>1. PlanSuite(r) /\ q = r
      BY <1>2, <2>2 DEF OpenRound, BuildSuite, PlanSuite, AbandonSuite, Reset
    <3> QED
      BY <1>2, <3>1 DEF PlanSuite
  <2> QED
    BY <2>1, <2>2
<1> QED
  BY <1>1, <1>2, RoundAssumption DEF ServiceSound

\* The run whose last result appears completes.
LEMMA ServiceWorkers ==
  ASSUME Inv, RetentionInv, ServiceSound, NEW w \in Worker,
         ClaimSome(w) \/ Register(w) \/ Fail(w)
  PROVE  ServiceSound'
<1> USE DEF Inv, GcTypeOK, ResearchTypes
<1>1. CASE ClaimSome(w)
  BY <1>1, RoundAssumption DEF ClaimSome, Claim, ServiceSound
<1>2. CASE Register(w)
  <2>1. run' = RunsAfter(results', {})
    BY <1>2 DEF Register, results
  <2>2. \A r \in Round : run'[r] = "active" => ~(Needs[r] \subseteq results')
    BY <2>1 DEF RunsAfter
  <2> QED
    BY <2>2, RoundAssumption DEF ServiceSound, results
<1>3. CASE Fail(w)
  <2>1. \A j \in Item : item'[j] = "done" => item[j] = "done"
    BY <1>3 DEF Fail
  <2>2. \A r \in Round : run'[r] = "active" => run[r] = "active"
    BY <1>3 DEF Fail, RunsAfter
  <2> QED
    BY <2>1, <2>2, RoundAssumption DEF ServiceSound
<1> QED
  BY <1>1, <1>2, <1>3

LEMMA ServiceStep ==
  ASSUME Inv, RetentionInv, ServiceSound, [Next]_vars
  PROVE  ServiceSound'
<1>1. CASE UNCHANGED <<run, item>>
  BY <1>1 DEF ServiceSound
<1> QED
  BY <1>1, ServiceRounds, ServiceWorkers, WorkUntouched

LEMMA GcContractStep ==
  ASSUME Inv, RetentionInv, ServiceSound, [Next]_vars
  PROVE  [Contract!Next]_<<states, results>>
<1>1. ASSUME NEW w \in Worker, Register(w) \/ Fail(w)
      PROVE  Contract!Next
  <2>1. PICK i \in Item : i = job[w].item
    BY <1>1, JobParts DEF Register, Fail
  <2> QED
    BY <1>1, <2>1, RegisterDelivers, FailFails DEF Contract!Next
<1> QED
  BY <1>1, PlanRequests, ResetCancels, OthersInvisible DEF Contract!Next

\* Suites among collectors keep the contract that the scheduler keeps: nothing a
\* collector, a reset or a promotion does is seen by who requested a suite.
THEOREM CollectionKeepsContract == Spec => SuitesKeepContract
<1>1. Init => ServiceSound
  BY RoundAssumption DEF Init, ServiceSound
<1>2. Inv /\ RetentionInv /\ ServiceSound /\ [Next]_vars => ServiceSound'
  BY ServiceStep
<1>3. Inv /\ RetentionInv /\ ServiceSound /\ [Next]_vars =>
        [Contract!Next]_<<[r \in Round |-> StateOf(r)], {i \in Item : item[i] = "done"}>>
  BY GcContractStep DEF states, results
<1>4. Init => Contract!Init
  BY DEF Init, Contract!Init, StateOf
<1> QED
  BY <1>1, <1>2, <1>3, <1>4, GcInvariance, RetentionInvariance, PTL
  DEF Spec, SuitesKeepContract, Contract!Spec

=============================================================================
