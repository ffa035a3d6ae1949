------------------------- MODULE SuiteWorkerProofs -------------------------
(***************************************************************************)
(* The worker processes of SuiteWorker, for any number of them, of suites  *)
(* and of crashes: they use the scheduler only as GraphDag describes it,   *)
(* so that all that is proved of GraphDag holds of them.                   *)
(*                                                                         *)
(* A worker calls the scheduler for the suite it has locked.  That the     *)
(* suite is one, and that what the worker still holds belongs to it, is    *)
(* SuiteTypeOK; it is inductive next to the scheduler's own Inv.           *)
(***************************************************************************)
EXTENDS SuiteWorker, GraphDagContractProofs

-----------------------------------------------------------------------------
(* Steps of the scheduler *)

\* A worker that is not idle has locked a suite and is at one of its runs.
LEMMA ServesSuite ==
  ASSUME SuiteTypeOK, NEW w \in Worker, stage[w] # "idle"
  PROVE  /\ serving[w] \in SuiteRun /\ serving[w] \in Run
         /\ layer[w] \in DOMAIN Source[serving[w]] /\ Current(w) \in Run
<1>1. serving[w] \in SuiteRun /\ serving[w] # NoSuite
  BY SuiteAssumption, KindAssumption DEF SuiteTypeOK
<1>2. layer[w] \in DOMAIN Source[serving[w]]
  BY <1>1 DEF SuiteTypeOK
<1>3. Source[serving[w]] \in Seq(Run \ SuiteRun)
  BY <1>1, SuiteAssumption
<1>4. Current(w) \in Run
  BY <1>2, <1>3 DEF Current
<1> QED BY <1>1, <1>2, <1>4, KindAssumption

\* Whatever a worker does by itself, the scheduler sees one of its own steps.
LEMMA WorkIsNext ==
  ASSUME SuiteTypeOK, NEW w \in Worker, Work(w)
  PROVE  [Next]_vars
<1>1. CASE \/ LockNextSuite(w) \/ FindRaw(w) \/ PublishRaw(w) \/ ReplaySource(w)
           \/ SourceUnusable(w) \/ LoopRefused(w) \/ LoopDone(w) \/ PlanRefused(w)
           \/ LookAtRun(w) \/ PublishResults(w) \/ RankingRefused(w) \/ LeaveOut(w)
  BY <1>1 DEF LockNextSuite, FindRaw, PublishRaw, ReplaySource, SourceUnusable, LoopRefused,
              LoopDone, PlanRefused, LookAtRun, PublishResults, RankingRefused, LeaveOut
<1>2. CASE PlanSource(w)
  BY <1>2, ServesSuite DEF PlanSource, Next, Plan
<1>3. CASE PlanRuntime(w)
  BY <1>3, ServesSuite DEF PlanRuntime, Next, Plan
<1>4. CASE LoopClaim(w)
  <2>1. Current(w) \in Run
    BY <1>4, ServesSuite DEF LoopClaim
  <2>2. PICK i \in Item : Claim(w, Current(w), i)
    BY <1>4 DEF LoopClaim, First, Offers
  <2> QED BY <2>1, <2>2 DEF Next, ClaimSome
<1>5. CASE ServeClaim(w)
  <2>1. serving[w] \in Run
    BY <1>5, ServesSuite DEF ServeClaim
  <2>2. PICK i \in Item : Claim(w, serving[w], i)
    BY <1>5 DEF ServeClaim, First, Offers
  <2> QED BY <2>1, <2>2 DEF Next, ClaimSome
<1>6. CASE Execute(w)
  BY <1>6 DEF Execute, Next
<1>7. CASE Finished(w)
  BY <1>7 DEF Finished, Next
<1>8. CASE Rejected(w)
  BY <1>8 DEF Rejected, Next
<1>9. CASE Raise(w)
  BY <1>9 DEF Raise, Next
<1> QED BY <1>1, <1>2, <1>3, <1>4, <1>5, <1>6, <1>7, <1>8, <1>9 DEF Work

LEMMA StepIsNext ==
  ASSUME SuiteTypeOK, [NextSuites]_suiteVars
  PROVE  [Next]_vars
<1>1. CASE \E w \in Worker : Work(w)
  BY <1>1, WorkIsNext
<1>2. CASE \E w \in Worker : Misfortune(w) \/ BreakOff(w)
  BY <1>2 DEF Misfortune, BreakOff, Next
<1>3. CASE \E s \in SuiteRun : ResetRunning(s) \/ CommitReset(s) \/ RollBackReset(s)
  BY <1>3, KindAssumption DEF ResetRunning, CommitReset, RollBackReset, Next, Release
<1>4. CASE \E s \in SuiteRun : ResetIdle(s)
  BY <1>4 DEF ResetIdle
<1>5. CASE \E i \in Item : ClockTick(i)
  BY <1>5 DEF ClockTick, Next
<1>6. CASE UNCHANGED suiteVars
  BY <1>6 DEF suiteVars
<1> QED BY <1>1, <1>2, <1>3, <1>4, <1>5, <1>6 DEF NextSuites

-----------------------------------------------------------------------------
(* Locks, stages and claims *)

\* What is recorded of the suites, whoever works.
RecordsTyped ==
  /\ raw \in [Contexts -> Raw]
  /\ workedOff \subseteq Run /\ published \in [SuiteRun -> SUBSET Publication]
  /\ failing \in [SuiteRun -> BOOLEAN] /\ open \in [SuiteRun -> BOOLEAN]

\* What worker w may hold when it has come to stage st under the lock sv, at the
\* n-th processing run.
Fits(st, sv, n, j) ==
  j # NoJob => \/ st \in {"loop", "raise"} /\ j.run = Source[sv][n]
               \/ st = "work" /\ j.run = sv

\* It is enough to look at the worker that moves.
LEMMA OneMoves ==
  ASSUME Inv, SuiteTypeOK, NEW w \in Worker, NEW st \in Stage, NEW sv \in SuiteRun \cup {NoSuite},
         NEW n \in Nat, NEW j,
         stage' = [stage EXCEPT ![w] = st], serving' = [serving EXCEPT ![w] = sv],
         layer' = [layer EXCEPT ![w] = n], job' = [job EXCEPT ![w] = j],
         st = "idle" <=> sv = NoSuite, IF sv = NoSuite THEN n = 1 ELSE n \in DOMAIN Source[sv],
         Fits(st, sv, n, j), RecordsTyped'
  PROVE  SuiteTypeOK'
<1>1. /\ serving' \in [Worker -> SuiteRun \cup {NoSuite}] /\ stage' \in [Worker -> Stage]
      /\ layer' \in [Worker -> Nat]
  BY DEF SuiteTypeOK
<1>2. ASSUME NEW v \in Worker
      PROVE  /\ stage'[v] = "idle" <=> serving'[v] = NoSuite
             /\ IF serving'[v] = NoSuite THEN layer'[v] = 1 ELSE layer'[v] \in DOMAIN Source[serving'[v]]
             /\ job'[v] # NoJob =>
                  \/ stage'[v] \in {"loop", "raise"} /\ job'[v].run = Source[serving'[v]][layer'[v]]
                  \/ stage'[v] = "work" /\ job'[v].run = serving'[v]
  <2>1. CASE v = w
    <3>1. stage'[v] = st /\ serving'[v] = sv /\ layer'[v] = n /\ job'[v] = j
      BY <2>1 DEF SuiteTypeOK, Inv, Types
    <3> QED BY <3>1 DEF Fits
  <2>2. CASE v # w
    <3>1. stage'[v] = stage[v] /\ serving'[v] = serving[v] /\ layer'[v] = layer[v] /\ job'[v] = job[v]
      BY <2>2 DEF SuiteTypeOK, Inv, Types
    <3> QED BY <3>1 DEF SuiteTypeOK, Current
  <2> QED BY <2>1, <2>2
<1> QED BY <1>1, <1>2 DEF SuiteTypeOK, RecordsTyped, Current

\* No worker moves.
LEMMA NoneMoves ==
  ASSUME SuiteTypeOK, UNCHANGED <<serving, stage, layer, raw, workedOff, published, failing, job>>,
         open' \in [SuiteRun -> BOOLEAN]
  PROVE  SuiteTypeOK'
BY DEF SuiteTypeOK, Current

\* A worker changes its stage, and perhaps its run, under the lock it has.
LEMMA StageMoves ==
  ASSUME Inv, SuiteTypeOK, NEW w \in Worker, stage[w] # "idle", NEW st \in Stage \ {"idle"},
         To(w, st), UNCHANGED serving, NEW n \in DOMAIN Source[serving[w]],
         layer' = [layer EXCEPT ![w] = n],
         NEW j, job' = [job EXCEPT ![w] = j], Fits(st, serving[w], n, j), RecordsTyped'
  PROVE  SuiteTypeOK'
<1>1. serving[w] \in SuiteRun /\ serving[w] # NoSuite
  BY ServesSuite, SuiteAssumption, KindAssumption
<1>2. serving' = [serving EXCEPT ![w] = serving[w]] /\ stage' = [stage EXCEPT ![w] = st]
  BY DEF SuiteTypeOK, To
<1>3. n \in Nat
  <2>1. Source[serving[w]] \in Seq(Run \ SuiteRun)
    BY <1>1, SuiteAssumption
  <2> QED BY <2>1
<1> QED BY <1>1, <1>2, <1>3, OneMoves

\* The common case: it stays at its run and holds nothing new.
LEMMA WorkerProceeds ==
  ASSUME Inv, SuiteTypeOK, NEW w \in Worker, stage[w] # "idle", NEW st \in Stage \ {"idle"},
         Proceed(w, st), NEW j, job' = [job EXCEPT ![w] = j],
         Fits(st, serving[w], layer[w], j), RecordsTyped'
  PROVE  SuiteTypeOK'
<1>1. layer' = [layer EXCEPT ![w] = layer[w]]
  BY DEF Proceed, SuiteTypeOK
<1>2. layer[w] \in DOMAIN Source[serving[w]]
  BY ServesSuite
<1> QED BY <1>1, <1>2, StageMoves DEF Proceed

\* A worker that leaves holds nothing.
LEMMA WorkerLeaves ==
  ASSUME Inv, SuiteTypeOK, NEW w \in Worker, Leave(w), job' = [job EXCEPT ![w] = NoJob],
         RecordsTyped'
  PROVE  SuiteTypeOK'
<1>1. Fits("idle", NoSuite, 1, NoJob)
  BY DEF Fits
<1> QED BY <1>1, OneMoves DEF Leave, To, Stage

LEMMA RecordsKept ==
  ASSUME SuiteTypeOK, UNCHANGED suiteRecords
  PROVE  RecordsTyped'
BY DEF SuiteTypeOK, RecordsTyped, suiteRecords

\* The claim a worker is left with after a step of its executor.
LEMMA JobMarked ==
  ASSUME Inv, NEW w \in Worker, ExecutionFails(w) \/ PublicationRefused(w)
  PROVE  \E j : job' = [job EXCEPT ![w] = j] /\ j # NoJob /\ j.run = job[w].run
<1>1. job[w] \in Claims /\ job[w] # NoJob
  BY JobIsClaim DEF ExecutionFails, PublicationRefused, Inv
<1>2. PICK p \in Phase : job' = [job EXCEPT ![w] = [job[w] EXCEPT !.phase = p]]
  BY DEF ExecutionFails, PublicationRefused, Phase
<1>3. [job[w] EXCEPT !.phase = p] # NoJob /\ [job[w] EXCEPT !.phase = p].run = job[w].run
  BY <1>1, <1>2 DEF Claims, NoJob, Phase
<1> QED BY <1>2, <1>3

\* A step of the executor or of the finish leaves lock, stage and claim alone.
LEMMA StaysAtWork ==
  ASSUME Inv, SuiteTypeOK, NEW w \in Worker, stage[w] # "idle", UNCHANGED workerVars,
         PublicationRefused(w) \/ ExecutionFails(w) \/ Finish(w) \/ Renew(w)
  PROVE  SuiteTypeOK'
<1>1. CASE UNCHANGED job
  BY <1>1, NoneMoves DEF workerVars, SuiteTypeOK
<1>2. CASE PublicationRefused(w) \/ ExecutionFails(w)
  <2>1. PICK j : job' = [job EXCEPT ![w] = j] /\ j # NoJob /\ j.run = job[w].run
    BY <1>2, JobMarked
  <2>2. job[w] # NoJob
    BY <1>2 DEF PublicationRefused, ExecutionFails
  <2>3. Proceed(w, stage[w]) /\ stage[w] \in Stage \ {"idle"}
    BY DEF workerVars, SuiteTypeOK, Proceed, To
  <2>4. Fits(stage[w], serving[w], layer[w], j)
    BY <2>1, <2>2 DEF Fits, SuiteTypeOK, Current
  <2>5. RecordsTyped'
    BY RecordsKept DEF workerVars, suiteRecords
  <2> QED BY <2>1, <2>3, <2>4, <2>5, WorkerProceeds
<1> QED BY <1>1, <1>2 DEF Finish, BeginFinish, Renew

\* A claim is held under the run it was taken through.
LEMMA ClaimHolds ==
  ASSUME NEW w \in Worker, NEW r \in Run, NEW i \in Item, Claim(w, r, i)
  PROVE  \E j : job' = [job EXCEPT ![w] = j] /\ j.run = r
<1> DEFINE j == [phase |-> "executing", run |-> r, item |-> i, fence |-> fence[i] + 1]
<1>1. job' = [job EXCEPT ![w] = j]
  BY DEF Claim
<1>2. j.run = r
  OBVIOUS
<1> HIDE DEF j
<1> QED BY <1>1, <1>2

\* What the stages without a claim have in common: the worker holds nothing.
LEMMA HoldsNothing ==
  ASSUME Inv, SuiteTypeOK, NEW w \in Worker, stage[w] \notin {"loop", "raise", "work"}
  PROVE  job[w] = NoJob /\ job = [job EXCEPT ![w] = NoJob]
BY DEF SuiteTypeOK, Inv, Types

LEMMA LockTypes ==
  ASSUME Inv, SuiteTypeOK, NEW w \in Worker, LockNextSuite(w)
  PROVE  SuiteTypeOK'
<1>1. stage[w] = "idle" /\ job' = job /\ layer' = layer
  BY DEF LockNextSuite, vars
<1>2. PICK s \in Lockable : /\ serving' = [serving EXCEPT ![w] = s]
                            /\ failing' = [failing EXCEPT ![s] = FALSE]
                            /\ To(w, IF runStatus[s] = "absent" THEN "materialize" ELSE "claim")
  BY DEF LockNextSuite
<1>3. s \in SuiteRun /\ s # NoSuite
  BY KindAssumption, SuiteAssumption DEF Lockable
<1>4. job' = [job EXCEPT ![w] = NoJob]
  BY <1>1, HoldsNothing
<1>5. PICK st \in {"materialize", "claim"} : stage' = [stage EXCEPT ![w] = st]
  BY <1>2 DEF To
<1>6. Fits(st, s, 1, NoJob)
  BY DEF Fits
<1>7. layer' = [layer EXCEPT ![w] = 1]
  BY <1>1 DEF SuiteTypeOK
<1>8. 1 \in DOMAIN Source[s]
  BY <1>3, SuiteAssumption
<1>9. RecordsTyped'
  BY <1>2 DEF LockNextSuite, RecordsTyped, SuiteTypeOK
<1> QED BY <1>2, <1>3, <1>4, <1>5, <1>6, <1>7, <1>8, <1>9, OneMoves DEF Stage

\* Materialization, planning and what follows a completed run change the stage
\* only, and the records of the suite.
LEMMA PrepareTypes ==
  ASSUME Inv, SuiteTypeOK, NEW w \in Worker, NEW st \in Stage \ {"idle"}, Proceed(w, st),
         stage[w] # "idle", job[w] = NoJob, UNCHANGED job, RecordsTyped'
  PROVE  SuiteTypeOK'
<1>1. job' = [job EXCEPT ![w] = NoJob] /\ Fits(st, serving[w], layer[w], NoJob)
  BY DEF Inv, Types, Fits
<1> QED BY <1>1, WorkerProceeds

\* So does a refusal on the way, which ends the process.
LEMMA GiveUpTypes ==
  ASSUME Inv, SuiteTypeOK, NEW w \in Worker, Leave(w), job[w] = NoJob, UNCHANGED job, RecordsTyped'
  PROVE  SuiteTypeOK'
<1>1. job' = [job EXCEPT ![w] = NoJob]
  BY DEF Inv, Types
<1> QED BY <1>1, WorkerLeaves

LEMMA SourceTypes ==
  ASSUME Inv, SuiteTypeOK, NEW w \in Worker,
         \/ FindRaw(w) \/ PublishRaw(w) \/ PlanSource(w) \/ ReplaySource(w) \/ SourceUnusable(w)
  PROVE  SuiteTypeOK'
<1>1. /\ stage[w] \in {"materialize", "raw", "layer"} /\ job[w] = NoJob /\ UNCHANGED job
  BY HoldsNothing DEF FindRaw, PublishRaw, PlanSource, ReplaySource, SourceUnusable,
     PlanProcessing, vars
<1>2. RecordsTyped'
  <2>1. CASE PublishRaw(w)
    BY <2>1 DEF PublishRaw, RecordsTyped, SuiteTypeOK, Raw
  <2>2. CASE ~PublishRaw(w)
    BY <2>2, RecordsKept DEF FindRaw, PlanSource, ReplaySource, SourceUnusable
  <2> QED BY <2>1, <2>2
<1>3. CASE \E st \in {"raw", "layer", "loop", "plan"} : Proceed(w, st)
  BY <1>1, <1>2, <1>3, PrepareTypes DEF Stage
<1>4. CASE Leave(w)
  BY <1>1, <1>2, <1>4, GiveUpTypes
<1>5. (\E st \in {"raw", "layer", "loop", "plan"} : Proceed(w, st)) \/ Leave(w)
  <2>1. CASE FindRaw(w)
    <3>1. raw[Context[serving[w]]] \in Raw
      BY <1>1, ServesSuite DEF SuiteTypeOK, Contexts
    <3> QED BY <2>1, <3>1 DEF FindRaw, Raw
  <2>2. CASE ~FindRaw(w)
    BY <2>2 DEF PublishRaw, PlanSource, ReplaySource, SourceUnusable
  <2> QED BY <2>1, <2>2
<1> QED BY <1>3, <1>4, <1>5

LEMMA LoopTypes ==
  ASSUME Inv, SuiteTypeOK, NEW w \in Worker, LoopDone(w) \/ LoopRefused(w)
  PROVE  SuiteTypeOK'
<1>1. stage[w] = "loop" /\ job[w] = NoJob /\ UNCHANGED job
  BY DEF LoopDone, LoopRefused, vars
<1>2. CASE LoopRefused(w)
  BY <1>1, <1>2, GiveUpTypes, RecordsKept DEF LoopRefused
<1>3. CASE LoopDone(w)
  <2>1. serving[w] \in SuiteRun /\ Source[serving[w]] \in Seq(Run \ SuiteRun)
        /\ layer[w] \in DOMAIN Source[serving[w]] /\ Source[serving[w]] # <<>>
    BY <1>1, ServesSuite, SuiteAssumption
  <2>2. RecordsTyped'
    <3>1. Source[serving[w]][1] \in Run
      BY <2>1
    <3> QED BY <1>3, <3>1 DEF LoopDone, RecordsTyped, SuiteTypeOK
  <2>3. CASE Proceed(w, "plan")
    BY <1>1, <2>2, <2>3, PrepareTypes DEF Stage
  <2>4. CASE layer[w] # Len(Source[serving[w]])
    <3>1. /\ To(w, "layer") /\ UNCHANGED serving
          /\ layer' = [layer EXCEPT ![w] = layer[w] + 1]
      BY <1>3, <2>4 DEF LoopDone
    <3>2. layer[w] + 1 \in DOMAIN Source[serving[w]]
      BY <2>1, <2>4
    <3>3. job' = [job EXCEPT ![w] = NoJob] /\ Fits("layer", serving[w], layer[w] + 1, NoJob)
      BY <1>1 DEF Inv, Types, Fits
    <3> QED BY <1>1, <2>2, <3>1, <3>2, <3>3, StageMoves DEF Stage
  <2> QED BY <1>3, <2>3, <2>4 DEF LoopDone
<1> QED BY <1>2, <1>3

LEMMA PlanTypes ==
  ASSUME Inv, SuiteTypeOK, NEW w \in Worker, PlanRuntime(w) \/ PlanRefused(w)
  PROVE  SuiteTypeOK'
<1>1. stage[w] = "plan" /\ job[w] = NoJob /\ UNCHANGED job /\ RecordsTyped'
  BY HoldsNothing, RecordsKept DEF PlanRuntime, PlanRefused, PlanSuite, vars
<1>2. Proceed(w, "claim") \/ Leave(w)
  BY DEF PlanRuntime, PlanRefused
<1> QED BY <1>1, <1>2, PrepareTypes, GiveUpTypes DEF Stage

LEMMA ClaimTypes ==
  ASSUME Inv, SuiteTypeOK, NEW w \in Worker, LoopClaim(w) \/ ServeClaim(w)
  PROVE  SuiteTypeOK'
<1>1. /\ stage[w] # "idle" /\ serving[w] \in Run /\ Current(w) \in Run /\ RecordsTyped'
  BY ServesSuite, RecordsKept DEF LoopClaim, ServeClaim
<1>2. CASE LoopClaim(w)
  <2>1. PICK i \in Item : /\ Claim(w, Current(w), i)
                          /\ Proceed(w, IF i \in First(Undone(Current(w))) THEN "loop" ELSE "raise")
    BY <1>2 DEF LoopClaim, First, Offers
  <2>2. PICK j : job' = [job EXCEPT ![w] = j] /\ j.run = Current(w)
    BY <1>1, <2>1, ClaimHolds
  <2>3. PICK st \in {"loop", "raise"} : Proceed(w, st)
    BY <2>1
  <2>4. Fits(st, serving[w], layer[w], j)
    BY <2>2 DEF Fits, Current
  <2> QED BY <1>1, <2>2, <2>3, <2>4, WorkerProceeds DEF Stage
<1>3. CASE ServeClaim(w)
  <2>1. PICK i \in Item : Claim(w, serving[w], i)
    BY <1>3 DEF ServeClaim, First, Offers
  <2>2. PICK j : job' = [job EXCEPT ![w] = j] /\ j.run = serving[w]
    BY <1>1, <2>1, ClaimHolds
  <2>3. Proceed(w, "work")
    BY <1>3 DEF ServeClaim
  <2>4. Fits("work", serving[w], layer[w], j)
    BY <2>2 DEF Fits
  <2> QED BY <1>1, <2>2, <2>3, <2>4, WorkerProceeds DEF Stage
<1> QED BY <1>2, <1>3

\* The look at the run and the publications after it.
LEMMA ResultTypes ==
  ASSUME Inv, SuiteTypeOK, NEW w \in Worker,
         LookAtRun(w) \/ PublishResults(w) \/ RankingRefused(w) \/ LeaveOut(w)
  PROVE  SuiteTypeOK'
<1>1. stage[w] \in {"check", "claim"} \cup Publication /\ job[w] = NoJob /\ UNCHANGED job
  BY HoldsNothing DEF LookAtRun, PublishResults, RankingRefused, LeaveOut, Publication, vars
<1>2. RecordsTyped'
  <2>1. CASE LookAtRun(w) \/ RankingRefused(w)
    BY <2>1, RecordsKept DEF LookAtRun, RankingRefused
  <2>2. CASE PublishResults(w)
    BY <2>2 DEF PublishResults, RecordsTyped, SuiteTypeOK
  <2>3. CASE LeaveOut(w)
    BY <2>3 DEF LeaveOut, RecordsTyped, SuiteTypeOK
  <2> QED BY <2>1, <2>2, <2>3
<1>3. Leave(w) \/ \E st \in Publication : Proceed(w, st)
  BY DEF LookAtRun, PublishResults, RankingRefused, LeaveOut, NextService, Publication
<1> QED BY <1>1, <1>2, <1>3, PrepareTypes, GiveUpTypes DEF Stage, Publication

\* The end of a call, and of a process, gives up lock and claim together.
LEMMA LeaveTypes ==
  ASSUME Inv, SuiteTypeOK, NEW w \in Worker, Rejected(w) \/ Raise(w) \/ BreakOff(w)
  PROVE  SuiteTypeOK'
<1>1. Leave(w)
  BY DEF Rejected, Raise, BreakOff
<1>2. RecordsTyped'
  <2>1. CASE Rejected(w) \/ Raise(w)
    BY <2>1, RecordsKept DEF Rejected, Raise
  <2>2. CASE BreakOff(w)
    BY <2>2 DEF BreakOff, RecordsTyped, SuiteTypeOK
  <2> QED BY <2>1, <2>2
<1>3. job' = [job EXCEPT ![w] = NoJob]
  BY DEF Rejected, FinishRejected, Raise, BreakOff, Crash, vars, Inv, Types
<1> QED BY <1>1, <1>2, <1>3, WorkerLeaves

LEMMA FinishedTypes ==
  ASSUME Inv, SuiteTypeOK, NEW w \in Worker, Finished(w)
  PROVE  SuiteTypeOK'
<1>1. /\ job' = [job EXCEPT ![w] = NoJob] /\ stage[w] # "idle" /\ RecordsTyped'
  BY RecordsKept DEF Finished, CommitFinish
<1>2. CASE Leave(w)
  BY <1>1, <1>2, WorkerLeaves
<1>3. CASE ~Leave(w)
  <2>1. PICK st \in {"loop", "check"} : Proceed(w, st)
    BY <1>3 DEF Finished
  <2>2. Fits(st, serving[w], layer[w], NoJob)
    BY DEF Fits
  <2> QED BY <1>1, <2>1, <2>2, WorkerProceeds DEF Stage
<1> QED BY <1>2, <1>3

LEMMA ResetTypes ==
  ASSUME SuiteTypeOK, NEW s \in SuiteRun,
         ResetRunning(s) \/ CommitReset(s) \/ RollBackReset(s) \/ ResetIdle(s)
  PROVE  SuiteTypeOK'
<1>1. UNCHANGED <<serving, stage, layer, raw, workedOff, published, failing, job>>
  BY DEF ResetRunning, CommitReset, RollBackReset, ResetIdle, BeginRelease, CommitRelease,
         AbortRelease, workerVars, vars
<1>2. open' \in [SuiteRun -> BOOLEAN]
  BY DEF ResetRunning, CommitReset, RollBackReset, ResetIdle, workerVars, SuiteTypeOK
<1> QED BY <1>1, <1>2, NoneMoves

-----------------------------------------------------------------------------
(* The theorems *)

LEMMA SuiteInit == InitSuites => Init /\ SuiteTypeOK
BY SuiteAssumption DEF InitSuites, Init, SuiteTypeOK, Stage, Raw

LEMMA SuiteStep ==
  ASSUME Inv, SuiteTypeOK, [NextSuites]_suiteVars
  PROVE  SuiteTypeOK'
<1>1. CASE \E w \in Worker : Work(w)
  <2>1. PICK w \in Worker : Work(w)
    BY <1>1
  <2>2. CASE Execute(w)
    BY <2>2, StaysAtWork DEF Execute
  <2>3. CASE FindRaw(w) \/ PublishRaw(w) \/ PlanSource(w) \/ ReplaySource(w) \/ SourceUnusable(w)
    BY <2>3, SourceTypes
  <2>4. CASE LoopDone(w) \/ LoopRefused(w) \/ PlanRuntime(w) \/ PlanRefused(w)
    BY <2>4, LoopTypes, PlanTypes
  <2> QED BY <2>1, <2>2, <2>3, <2>4, LockTypes, ClaimTypes, ResultTypes, LeaveTypes, FinishedTypes
          DEF Work
<1>2. CASE \E w \in Worker : Misfortune(w)
  BY <1>2, StaysAtWork DEF Misfortune
<1>3. CASE \E w \in Worker : BreakOff(w)
  BY <1>3, LeaveTypes
<1>4. CASE \E s \in SuiteRun : ResetRunning(s) \/ CommitReset(s) \/ RollBackReset(s) \/ ResetIdle(s)
  BY <1>4, ResetTypes
<1>5. CASE (\E i \in Item : ClockTick(i)) \/ UNCHANGED suiteVars
  <2>1. UNCHANGED <<serving, stage, layer, raw, workedOff, published, failing, open, job>>
    BY <1>5 DEF ClockTick, ElapseLease, suiteVars, workerVars, vars
  <2> QED BY <2>1, NoneMoves DEF SuiteTypeOK
<1> QED BY <1>1, <1>2, <1>3, <1>4, <1>5 DEF NextSuites

LEMMA SuiteInvariance == SuiteSpec => [](Inv /\ SuiteTypeOK)
<1>1. InitSuites => Inv /\ SuiteTypeOK
  BY SuiteInit, InitInv
<1>2. Inv /\ SuiteTypeOK /\ [NextSuites]_suiteVars => (Inv /\ SuiteTypeOK)'
  BY StepIsNext, NextInv, SuiteStep
<1> QED BY <1>1, <1>2, PTL DEF SuiteSpec

\* The lock and the stage of a worker go together, and what it still holds is
\* work of the suite it has locked, through every crash, refusal and reset.
THEOREM WorkersServeTheirSuite == SuiteSpec => []SuiteTypeOK
BY SuiteInvariance, PTL

\* The workers, their crashes and the resets are a use of the scheduler: every
\* step is one of GraphDag or invisible to it.
THEOREM WorkersUseScheduler == SuiteSpec => ImplementsGraphDag
<1>1. SuiteTypeOK /\ [NextSuites]_suiteVars => [Next]_vars
  BY StepIsNext
<1>2. InitSuites => Init
  BY SuiteInit
<1> QED BY <1>1, <1>2, SuiteInvariance, PTL DEF SuiteSpec, ImplementsGraphDag, Spec

\* Hence a requester of suites sees nothing but the contract, whoever works.
THEOREM WorkersKeepContract == SuiteSpec => ImplementsContract
BY WorkersUseScheduler, SchedulerKeepsContract, PTL DEF ImplementsGraphDag

\* And RunStuck, which SuiteSettles excepts, names every way in which the run of
\* a suite can stand still: otherwise an item is in a live lease or may be claimed.
THEOREM WorkersGoOn == SuiteSpec => []ActiveRunGoesOn
BY WorkersUseScheduler, ActiveRunsGoOn, PTL DEF ImplementsGraphDag

=============================================================================
