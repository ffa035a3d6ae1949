# Verification of the research platform's concurrent core

TLA+ models of what several processes do to the same rows and files in `src/style_rotation`:
the scheduler of Graph Runs and its workers, the launch of suites from drafts, the collection
of closed Research Rounds, the decisions of Products, and the older persistent work queue.
All are checked with TLC on small instances and proved about with TLAPS for every instance;
for each there is an abstract specification of what its users may rely on, which it is shown
to implement. Paths below are relative to the repository's `src/`, `v022/` to
`src/style_rotation/v022/`; "migration 52" is `migrations/versions/20260810_52_v022_graph_dag.py`,
"migration 79" is `migrations/versions/20260812_79_v022_suite_runtime.py`.

## 1. The system

The platform turns a user's research graph into backtests. Nearly all of its state is in
PostgreSQL; the processes are stateless between transactions, so the hard part is what
several of them do to the same rows.

| Component | State | Operations | Hard behaviour | What makes it correct | Modelled |
|---|---|---|---|---|---|
| **Graph Run scheduler** `v022/dag.py`, migrations 52 and 79 | `v022_graph_run`, `v022_graph_work_item` (status, lease, fencing token, cancel request), `v022_graph_run_consumer` | plan, claim, renew, finish, release / cancel | items are shared by runs; leases expire; finish and release decide on rows they do not lock (READ COMMITTED) | work only over finished upstreams, one output per item, results never lost, terminal runs stay, failure reaches everything below it | `GraphDag` |
| **Publication fences** `suite_typed_work_runtime.py`, `aggregation_work_runtime.py` | the published output of an item | check of the claim and publication in one transaction with the finish | a worker that lost its lease publishes; the claim's own run ends first | the output is that of the latest claim | `GraphDag` |
| **Suite runtime worker** `suite_runtime_worker.py`, `runtime_telemetry.py` | advisory lock per suite, heartbeat thread; evidence, ranking and diagnostics of a completed suite | `run_once`: choose suite, materialize, plan, claim, execute, finish, publish the three one after the other | crashes, lost advisory locks, unhandled exceptions, publications that raise or leave their row out, oldest-first choice | uses the scheduler as specified; what keeps a suite from settling is known | `SuiteWorker` |
| **Suite runtime plan** `suite_runtime_commands.py`, `suite_runtime_planner.py` | the suite's run, its items and bindings | bind materialized and typed work, mark ready | dead shared work, a round closed meanwhile | a plan joins only work that can end | in `GraphDag`, `SuiteWorker` |
| **Representative processing loop** `representative_pipeline_runtime.py` | raw payloads of a context, one processing run per stage of a compiled graph | publish the raw payloads one by one; plan Stage 1 or replay it, node by node; then the later stages | another loop holds the node; the process dies between two payloads, two nodes or two stages, and only a whole Stage 1 is replayed | the runs come to their end | in `SuiteWorker`, seen from a session in `ProductDecision` |
| **Drafts and research rounds** `draft_service.py`, `workspace_*.py` | draft revisions, compiled graph, the active round, command ledger | create, edit (compare-and-swap), compile, clone, lock, reset | two tabs, replays, long compilations, a reset against a launch or a running plan | no lost update; what was launched stays as it was; research can go on | `LaunchBatch`, reset also in `SuiteWorker`, `RoundGc` |
| **Suite launch batches** `suite_launch_batch.py` | batch, child rows, events, suites under derived keys | register, clone, compile, bind, admit, submit, record, lock | a thread dies between any two stages; two threads under one key; edits of the clone | a batch can be resumed and runs the study it was asked to run | `LaunchBatch` |
| **Work queue** `ops/work_queue.py`, `ops/worker.py`, `domain/lifecycle.py` | `work_item` rows with lease and attempts | enqueue, claim, heartbeat, cancel, finish, retry, expire | lease without a fence, spent attempt budget | one active row and one answer per cell, cancellation wins, everything ends | `WorkQueue` |
| **Exports** `signal/export_jobs.py`, `asset_data_export.py` | file, result row, queue row | enqueue, run, complete | file written, transaction lost | a finished job has its file | planned |
| **Round garbage collection** `research_round_gc.py`, `retention_lock.py` | plan, objects, tombstones, payload files | plan, execute, resume | promotion meanwhile, crash in the middle, two collectors, late writers | a strong root is never evicted, completion is final, nothing a closure leads to is left behind | `RoundGc` |
| **Storage maintenance, backup** `storage/maintenance.py`, `object_backup.py`, `recovery_drill.py` | objects, copies | sweep, back up, drill | shares the retention lock | as above | after GC |
| **Lineage, idempotency** `lineage/service.py`, `ops/idempotency.py`, `payload_runtime.py` | artifacts, command rows | draft, depend, publish; begin, record | a command whose process died | published artifacts have published inputs | publication of a cell in `WorkQueue`, payload files in `RoundGc`, rest planned |
| **Products** `product_*.py`, `product/lifecycle_service.py` | enrollments, lifecycle events, input snapshots, decisions, monitoring snapshots | promote, enroll, prepare inputs, decide a session, report, suspend | several workers without leases, a cycle cut short, gates and suspensions, two clocks | one decision per session, in order, with its evidence, never rewritten | `ProductDecision`; promotion also in `RoundGc` |
| **v0.21 runtime** `experiment/*.py`, `ops/v021_execution.py` | queue cells | submit, execute | submission is not one transaction | every cell is answered once | submission in `WorkQueue` |
| **Shadow runs, release control** | comparison reports, switch | compare, switch | little | data checks | no |
| **Compiler, contracts** `graph.py`, `compiler_service.py`, `contracts.py` | none (pure) | validate, compile | none | accepts exactly the well-typed graphs | candidate |
| **Partitions, settlement, intervals** | none (pure) | arithmetic on dates and lots | boundaries | agree with their definitions | candidate |
| **Numeric research code, data acquisition, API, CLI, frontend** | frames, files, requests | floating point, I/O | none of their own | – | no |

How the modelled parts interact: a user submits a suite; a *suite worker* picks the oldest
suite of an open round, takes its advisory lock, and, if it has no run yet, publishes its
raw payloads one Artifact transaction each and materializes its processing nodes in the
*processing loop* (a Graph Run for each stage that has nodes, planned with
`GraphDagService.plan_run`), then writes the *Suite Runtime Plan* (another Graph Run,
whose processing items must be done and whose typed items may be shared with other
suites). From then on every call of `run_once` claims one typed item, executes it while
a heartbeat thread renews the lease, publishes the output and finishes the item in one
transaction, and, when the run has completed, publishes the suite's result evidence, its
place in the ranking and its element diagnostics, each in transactions of its own. Until
all three are there the suite remains a candidate. A *reset* closes the round and releases
its active runs.

Before that, a *launch batch* makes the suites: it clones the user's draft for the frequency the
draft does not have, compiles and admits both, publishes a suite for each and locks the drafts.
Everything it makes is bound to the draft's *Research Round*. After the reset that closes the
round a *collector* evicts the payload files that the round's outputs and evidence depend on and
nothing else reaches. What keeps a result is, besides other rounds, its promotion to a *Product*,
which takes the same advisory lock as the collector. A *product worker* then decides each session
of the Product's schedule from the data frozen for it, and reports the decisions so far.

The v0.21 runtime is separate from all this. A submission enqueues each cell of a suite as
a row of `ops.work_item` and links the cell to it; polling workers claim rows under a lease,
run a handler, and publish the cell's result as an immutable artifact in the transaction
that completes the row. A portfolio cell may be claimed only when its predictive cell has a
result. `PROJECT.json` lists the hazards at their lines, section 6 those that no property states.

## 2. Modules

| Module | What it is |
|---|---|
| `GraphDag` | the scheduler: the database functions and the workers' view of them |
| `GraphRunContract` | the abstract promise: runs, results, nothing else |
| `GraphDagContract` | the refinement mapping from `GraphDag` to `GraphRunContract` |
| `SuiteWorker` | EXTENDS `GraphDag`: the processes that drive it, and the reset |
| `GraphDagProofs` | theorems about `GraphDag` |
| `GraphDagContractProofs` | how failure travels in `GraphDag`, that its active runs go on, and that it implements the contract |
| `SuiteWorkerProofs` | that the workers use the scheduler as `GraphDag` describes it |
| `WorkQueue` | the work queue, the submissions that fill it and the workers that empty it |
| `CellWorkContract`, `WorkQueueContract` | what the queue promises to who submits and cancels cells, and the refinement mapping |
| `WorkQueueProofs` | theorems about `WorkQueue`, and that it implements that contract |
| `LaunchBatch` | drafts, Research Rounds and the launch batches that turn a revision into suites |
| `LaunchOrders`, `LaunchBatchOrders` | what a user who orders suites may rely on, and the refinement mapping |
| `LaunchBatchProofs` | theorems about `LaunchBatch`, and that it carries out the orders |
| `RoundGc` | closed rounds, their files, collectors, promotions and late workers |
| `RoundGcContract` | the refinement mapping from `RoundGc` to `GraphRunContract` |
| `RoundGcProofs` | theorems about `RoundGc`: the guard, the plans and the tombstones |
| `RoundGcRetentionProofs` | that a collection leaves nothing behind of what closures lead to, and that the suites of `RoundGc` keep the contract of the scheduler |
| `ProductDecision` | sessions of enrolled Products: inputs, decisions, monitoring, several workers |
| `DecisionLedger`, `ProductDecisionLedger` | the ledger the owner of a Product may rely on, and the refinement mapping |
| `ProductDecisionProofs` | theorems about `ProductDecision`, and that it keeps the ledger |
| `MCGraphDag`, `MCSuiteWorker`, `MCWorkQueue`, `MCLaunchBatch`, `MCRoundGc`, `MCProductDecision` | instances for TLC |

The modules compose by extension where one drives the other (`SuiteWorker` EXTENDS `GraphDag`)
and by abstraction elsewhere: `LaunchBatch` ends where a suite is published, `SuiteWorker`
begins there; `RoundGc` has the rounds, runs and workers of both in the detail a collector
can tell apart; `ProductDecision` starts from an enrollment. What ties `RoundGc` to `GraphDag`
is that both implement `GraphRunContract`, the suites of the one and the runs of the other.

### GraphDag

State: one function per column that matters (`runStatus`, `released`; `itemStatus`,
`owner`, `lease`, `fence`, `cancelReq`, `output`), what each worker has in memory (`job`),
and the two kinds of transactions that are not atomic for our purposes:

* `txn[w]` is a `v022_finish_graph_work` that has executed its statements and has not
  committed. It takes each consuming run's verdict from rows it has not locked, so another
  finish, claim or release may commit in between (`BeginFinish`, `CommitFinish`).
* `sweep[r]` is a `v022_release_graph_run` that has read which consumers are unreleased
  and has not yet written the orphaned items (`BeginRelease`, `CommitRelease`). The item
  update waits for row locks, but its `NOT EXISTS` subquery keeps the statement's snapshot,
  and a plan that only locks the row (`FOR UPDATE`) leaves no new row version that would
  make PostgreSQL evaluate it again.

All other functions are one action each. `Locked` and `RunLocked` are the row locks of the
open transactions; an action that needs a locked row waits.

| Action | Code |
|---|---|
| `PlanProcessing` | `GraphDagService.plan_run`, ending in `v022_mark_graph_ready` |
| `PlanSuite` | `_write_graph_work` and the same `v022_mark_graph_ready` |
| `Claim` | `v022_claim_graph_work` (migration 79), expired leases included |
| `Renew` | `GraphDagService.renew`, from the heartbeat thread |
| `ElapseLease` | `now()` passing |
| `ExecutionFails`, `PublicationRefused` | the two ways an execution raises; `MayComplete` is `_lock_active_claim` |
| `BeginFinish`, `CommitFinish` | `v022_finish_graph_work` inside the publication's transaction |
| `FinishRejected` | "stale or invalid graph work fencing token" |
| `Crash` | death of the process and rollback of its transaction |
| `BeginRelease`, `CommitRelease`, `AbortRelease` | `v022_release_graph_run`, `finalize_released_graph_run` |

Items are *fenced* when they are published by the typed or aggregation runtimes; processing
nodes finish under the checks of `v022_finish_graph_work` alone. All processing loops claim
under one key (`PipelineKey`, the executor version), and suite workers under `--worker-id`,
whose default is the same for all of them: the instances let the keys coincide, so that only
the fencing token tells workers apart. `Claim` lets any worker serve any run, because the
advisory lock that normally gives a suite to one worker belongs to a session that can be
lost while its worker goes on.

`plan_run` is modelled as the general operation that it is: `PipelineRequires` is a chain
such as the integration tests of the scheduler plan. The repository's own caller plans
processing nodes without dependencies among themselves; that shape is the one of the
`SuiteWorker` instances.

### GraphRunContract

What a requester may rely on: a run is requested, results appear bottom up and stay, a run
completes only over all its results, a result that cannot be computed ends every active
run that needs it, at once. There are no leases, workers, queues, retries or transactions
in it. A step may deliver a result without completing a run that has everything; this is
a concession to the finding `lost_completion`, and the only weak point of the contract.

### The other abstract specifications

* `CellWorkContract`: a cell has one open request at a time and one answer, its source answered
  first; an answer is never given after a cancellation was asked for; what has ended stays so,
  except that a failed request may be opened again. No workers, leases or attempts.
* `LaunchOrders`: an order is fixed when it is placed, every frequency gets one plan of the
  ordered study, no suite begins before all have one, and each begins once, as planned. A plan
  may be of another study only where a user has worked on the draft that was cloned for it
  (`Touch`), which is what the code allows. No drafts, keys or threads.
* `DecisionLedger`: one entry per session, in the order of the sessions, after its input and
  before its report, none written twice. No workers, clocks, runs or lifecycle.

Each `...Contract`, `...Orders` or `...Ledger` module only instantiates one of these with the
refinement mapping. The mappings are functions of the code's own rows: no history variables.

### SuiteWorker

Each worker is in one `stage` of `run_once`, holds the advisory lock of `serving[w]` and is at
the processing run `layer[w]` of its suite. In the database are, beside the scheduler's rows, how
many `raw` payloads of a calculation context are bound (no, some or all), the Stage 1 runs whose loop
has `workedOff` every node, what is `published` of a completed suite, and whether its Research
Round is `open`. `failing[s]` is no row: it says that the last call for `s` broke off or left a
publication out, and the next call for `s` takes it back.

| Action | Code |
|---|---|
| `LockNextSuite` | `_lock_next_suite`, `_latest_active_run`: the oldest candidate that is not locked |
| `FindRaw`, `PublishRaw` | `_existing_raw_payload_bundle`, which refuses a set that is not whole, and the publications, one Artifact transaction each |
| `PlanSource`, `ReplaySource`, `SourceUnusable` | the processing run of a stage is planned, or a whole Stage 1 replayed with the later stages taken to be there, or the replay or the plan raises |
| `LoopClaim`, `LoopRefused`, `LoopDone` | the loop over the nodes, and on to the next stage |
| `PlanRuntime`, `PlanRefused` | the Suite Runtime Plan and what it refuses |
| `ServeClaim`, `Execute`, `Finished`, `Rejected`, `LookAtRun` | one item of the suite's run, and a look at the run |
| `PublishResults`, `LeaveOut`, `RankingRefused` | `_finalize_completed_suite`: evidence, ranking, diagnostics; a result not accepted as a member of the ranking or a suppressed `ForwardReturnCalculationError` leaves the row out; the ranking of a closed round raises |
| `Raise`, `BreakOff` | an exception `run_once` does not handle, at any step, or the death of the process |
| `ResetRunning`, `CommitReset`, `RollBackReset`, `ResetIdle` | the reset of a round |

The scheduler's actions are taken under the guards and in the order of the worker's code; the
claim order (`Rank`) and the choice of suite (`Age`) are the code's `ORDER BY`. A suite is
identified with its run, since one executor version is modelled. Whether a publication can
succeed depends on market data and cohorts that the model does not have: it may succeed, be left
out or raise (`BreakOff`) each time.

### WorkQueue

State: `row[i]` is a row of `ops.work_item` (status, owner, lease, attempts, cancel request,
failure class), `link[c]` the row a cell is linked to (`research_suite_work_item`), `result[c]`
the row whose worker published the cell's result, `hand[w]` what a worker has in memory in
`run_once`, `form[u]` how far a user's submission has come. A row that is not written has
status `none`; `CellOf` fixes beforehand which cell a row would be for, which loses nothing
since rows are interchangeable until they are written.

| Action | Code |
|---|---|
| `Submit`, `Ask`, `Insert`, `Resolve`, `Link` | `_enqueue_cells`: for each cell `enqueue` (lookup, insert, resolution of a conflict: three statements of a READ COMMITTED transaction), then the link in a transaction of its own |
| `Abandon` | the request or its process ends in between |
| `Cancel` | `request_cancel` through a cell's link |
| `Poll` | `claim`: `_terminalize_expired` and the choice of a row |
| `Bind`, `HandlerReturns`, `CheckCancellation` | `run_once` up to the publication |
| `Publish` | `ResultMaterializer.complete`, `ArtifactService.publish` and its writer, one transaction |
| `Raises`, `FinishFailed`, `FinishCancelled`, `Retry` | the `except` branches of `run_once` with `finish` and `retry`, two transactions |
| `Heartbeat`, `Crash`, `Tick` | the `keep_lease` thread, death of a process, `now()` passing |

`FOR UPDATE SKIP LOCKED` lets a worker pass over a row that another transaction holds, so
`Poll` may take any claimable row, not only the first in the order of priority. Not in the
model because nothing depends on it: priorities, `available_at`, stages, events, and the
outcome `reused`, which no code writes to a row.

A handler is taken to be deterministic, since its inputs are frozen by the specification's
fingerprint; a cell therefore has one result artifact, and a second publication finds the
first. Worker identities are distinct, as in the scripts that start one process per id.

### LaunchBatch

State: a draft's `revision`s, each with its frequency, its study and its round, its `status` and
the graph `compiled` from its current revision; the `active` rounds; of a batch its row, its
`child` rows, which of them are `recorded`, the `suite` published under each submission key and
whether the batch is `complete`; the results of the two commands that a batch issues under
keys derived from its own (`retuned`, `built`); and what each thread does (`job`).

| Action | Code |
|---|---|
| `Create`, `Edit`, `Compile`, `CopyRevision`, `Reset` | `create`, `apply_event`, `compile`, `clone_revision`, `reset_current_research` of `draft_service.py` |
| `Launch`, `Resume` | `launch` with a new key, or with that of a batch that exists (`_ensure_batch`) |
| `CloneSource`, `Retune`, `BuildClone`, `Bind` | the clone for the other frequency, `set_frequency`, compile and the child row, each found again under its derived key |
| `Admit`, `PublishSuite`, `RecordSuite`, `LockChild` | the stages of `_run_stage` |
| `LockSource`, `Complete` | `lock_for_experiment` of the source, the last event |
| `Refuse`, `Die` | an exception that ends a thread as the code foresees, or any other end |

A user command that names a revision which is not current is refused without effect, so it is
no step. A study stands for everything a draft selects.

### RoundGc

State: rounds in the order in which they were closed, each with the run of its suite; items and
the `file`s of their objects; the results that are `evident`, and of these the ones whose evidence
came `late`, after their round was closed; what a worker holds (`job`), its lease `lost` or not;
results that were `enrolled` under the retention guard, or made a `candidate` without it; the plans
of collections, the `tombstone`s and what each `collector` process has still to evict.

Retention follows dependencies, and a payload manifest depends on the output it holds, not the
output on the manifest (`suite_typed_work_runtime.py:2459`). So an output does not lead to its own
file. `RoundResults(r)`, the results whose manifests the round leads to, is what the done items of
`r` *cite*, that is the manifests of other results among their dependencies (`Cites`), and the results
that evidence is published of, since evidence depends on the manifest itself
(`suite_result_evidence.py:197`). A Product reaches the result it was promoted for and what that
one cites (`Reached`).

| Action | Code |
|---|---|
| `OpenRound`, `BuildSuite`, `PlanSuite`, `AbandonSuite`, `Reset` | the life of a round, as far as a collector sees it |
| `ClaimSome`, `WriteFile`, `Register`, `Fail`, `LoseLease`, `Drop` | a work item: the file is written before the transaction that registers it (`payload_runtime.py`) |
| `PublishEvidence` | `SuiteResultEvidenceService.publish` of a completed suite, one result at a time, also after its round was closed |
| `BeginPromotion`, `CommitPromotion`, `AbortPromotion` | `promote_and_enroll` under the guard |
| `PromoteCandidate` | the candidate endpoint, which does not take it |
| `PlanNext`, `PlanRequested` | `plan` of the oldest closed round by the daemon, or of any by an operator |
| `BeginSweep`, `Evict`, `EvictFails`, `FinishSweep`, `CollectorDies` | `execute`: guard and checks, one file after the other, tombstone or failed plan |

The identity of a plan is a hash of what it found, so the same finding is the same plan and a
plan of a later finding stands beside it.

### ProductDecision

State: the clock `now`; `gate[n]`, when the data through session `n` were published; per product
its `first` eligible session, its lifecycle events and whether its Ensemble State is `frozen`;
per session the `snapshot` (the gate that is bound), how many of its `raw` payloads are bound
(no, some or all), the Stage-1 `run`, the `decision` and the `monitor`ing snapshot; what each worker
process does (`hand`).

| Action | Code |
|---|---|
| `Observe`, `Prepare` | `product_input_refresh.py`: list the pending sessions, publish an input snapshot for each; a refusal raises and ends the process |
| `Due` | the due query of `product_decision_worker.py`, with the clock of the cycle's beginning |
| `FindRaw`, `PublishRaw` | the raw payloads of the snapshot (`representative_pipeline_runtime.py:919-1100`): one Artifact transaction each, a set found partial is refused |
| `Plan`, `Work`, `Derive` | Stage 1 over the whole set, whose replay raises or returns no outputs, then the later stages |
| `Publish`, `Monitor` | the decision, or the missing decision of a data error, and its monitoring snapshot |
| `Raise`, `Die`, `Start`, `Join` | exceptions inside and outside the handler, death, restart, a second worker |
| `Enroll`, `FreezeState`, `ChangeLifecycle`, `OperatorPrepare`, `PublishGate`, `Tick` | promotion, operators, data, time |

## 3. Runs

Passing runs, each with what it asks (states are the distinct ones TLC finds; the type
invariants of all modules but `SuiteWorker` are proved (section 5) and need no run; the same
goes for `ResultsStay`, `OneActiveRow`, `CompiledIsCurrent` and `DecidedInOrder`, next to which
the runs check a refinement that says more):

| Run | Instance | Properties | States |
|---|---|---|---|
| `pipeline` | 2 processing runs over a chain of 3 nodes, 2 workers | `UpstreamsDone`, `NoQueuedBehindFailure`, `ActiveRunIsViable`, `ActiveRunGoesOn`, `OnlyLatestClaimEnds`, `ImplementsContract` | 105 067 |
| `suite` | 1 processing run, 2 suites sharing its node and a typed item, 2 workers | `CompletedRunIsDone`, `OnePublication`, `TerminalRunStays`, `BadEndHasCause`, `CancelSparesSeenWork` | 1 044 472 |
| `workers` | 2 workers, 2 suites over one set of raw payloads with a Stage 1 each and one with a Stage 2, which share a node and typed work; 1 round is reset, fairness | `SuiteTypeOK`, `ImplementsGraphDag`, `SuiteSettles` | 201 087 |
| `queue` | 1 cell with 2 rows, 2 workers, 2 users, 2 attempts | `OneAnswer`, `CancelledNeverPublishes`, `OnlyHolderEnds`, `EndsStay`, `ImplementsCellWork` | 717 245 |
| `queue_gate` | a predictive cell with 2 rows and a portfolio cell, 1 worker, 1 user, fairness | `PortfolioAfterSource`, `QueueSettles` | 289 283 |
| `launch` | 1 root, 1 copy, a batch for both frequencies, 2 threads, 2 studies, 4 writes, 1 death | `SuitesRunTheSource`, `OneRoundPerBatch`, `CompleteIsLaunched`, `ResearchGoesOn`, `LockedUntilReset`, `KeepsOrders` | 1 206 517 |
| `launch_resumes` | 2 batches, the second of which may launch the clone of the first, 1 thread, 1 death, fairness | `LaunchResumes` | 159 574 |
| `gc` | 2 rounds that share a result and cite it, one result above it with evidence and one of its content without, 1 worker, the daemon and an operator, 1 crash or late evidence, fairness | `NothingLeftBehind`, `EnrolledObjectsSurvive`, `CompletionStays`, `SuitesKeepContract`, `RoundsAreCollected` | 435 143 |
| `product` | 2 products (one supervised, one suspended and with a gap), 2 sessions, 2 workers, trouble 2, fairness | `MonitoringIsExact`, `DecisionHasEvidence`, `MissingIsExplained`, `ReportsFollow`, `KeepsLedger`, `LedgerIsFinal`, `SessionsSettle` | 591 970 |

`CompletedRunIsDone` and `ActiveRunIsViable` are what makes the split of `v022_finish_graph_work`
safe: what it decided before its commit is still right at the commit, for every verdict but one (a
run it leaves open may meanwhile have lost its last other item; that is `lost_completion`).
`CancelSparesSeenWork` is the part of "shared work is not cancelled" that does hold.
`ActiveRunGoesOn` says that nobody waits for everybody: whatever shared work was failed, requeued,
leased and released, an active run has a live lease or something the code lets the next claim take
(`MaxFence` is the model's bound, not the code's, and a row lock ends with its transaction). Its
two exceptions (a cancellation reached an item the run shares, or the run has lost its completion)
are those of `RunStuck` below. `ImplementsGraphDag` carries every safety property of `GraphDag`
over to the workers. `SuiteSettles` names the ways a suite can stand still (`Obstacle`), with a
part for each kind of work that is not taken up again once it is half done (`SourceStranded`,
`PlanImpossible`, `RunStuck`) and one, `failing`, for calls that break off or leave a publication
out again and again. The last is wide on purpose: what a publication runs into is data, and the
code retries it for ever. It does not hide the others, since the next call for `s` takes
`failing[s]` back: after a death that is not repeated, wherever it struck, the suite settles or is
left to one of the named parts. That no further part is needed is what the run establishes, on its
instance.

`ImplementsContract`, `ImplementsCellWork`, `KeepsOrders`, `SuitesKeepContract` and `KeepsLedger` are the
refinements of the abstract specifications: nothing happens to what a user can see but the steps
of the abstract one, in the order it allows. `SuitesKeepContract`
says of the model of a collection that its suites are those of the scheduler.

`OneAnswer` relates the queue to the results: the row that published is the only one of its
cell that ever completes, although a cell can have two rows at once (one failed and about
to be retried, one enqueued meanwhile; or one completed and one queued by a race). Its
counterpart is `QueueSettles`, which says what becomes of such duplicates: they end, because
each claim spends an attempt. `Unclaimable` names the two ways for a row to wait for ever.

`SuitesRunTheSource` is about what a resumed batch must not do: run a study other than the one
its row names, because the clone it finds under its key was edited, reset or compiled in
between. `LaunchResumes` is its counterpart: the named obstacles (`SourceMoved`, `CloneSpoilt`) are all
that can keep a batch from completing.

`NothingLeftBehind` and `EnrolledObjectsSurvive` are the two sides of a collection: what a round
leads to and nobody retains has somebody who answers for it, and what a Product reaches is not evicted
although the check and the evictions are not one transaction. `NothingLeftBehind` says nothing of files
that no closure leads to: those of results that nothing cites and that have no evidence, or have it only
since their round was closed (`Astray`, `late`), and what a worker wrote after it had lost its lease
(`loose`). Those do stay behind, for good (section 4). Contents are shared, so one such result also
takes the guarantee from a file that another result has properly: `Astray` is about objects.
`RoundsAreCollected` names what holds a collection up (`Deserted`).

`MissingIsExplained` says when a session may be recorded as missing, which is for good:
`LedgerIsFinal`. `MonitoringIsExact` and `ReportsFollow` relate the two transactions of a decision, and
`SessionsSettle` names what a pending session may wait for (`Refused`, `Wedged`, no gate). `Wedged` has
two cases, a partial set of raw payloads and an open run, and both are needed: without either one
TLC finds a session that waits for ever. `LedgerIsFinal` and `MonitoringIsExact` follow
from `KeepsLedger`; each states one consequence of it that a reader can use without the mapping.

Bounds and why they are enough:

* `MaxFence = 2`: an item is claimed twice, which is what it takes for a worker to lose its
  lease to another and come back. Third and later claims repeat the second.
* `LeaseTicks` 1 or 2: a lease runs out or is renewed before it does. With 2 a renewal can
  be told from none.
* Deaths and exceptions are unbounded in `GraphDag` and `SuiteWorker`, and possible at any step.
  `Resettable` names the suite of `SuiteWorker` whose round is reset, the older one, so that the
  younger one is seen with and without it.
* A set of raw payloads is none, some or all of them: the code asks nothing else of it. Two
  processing runs of one suite are a Stage 1 and a later stage; a third repeats the second.
* 2 workers: every hazard listed is between two transactions. 2 runs or 2 suites and a
  processing run: shared and unshared items in one run.
* 2 to 4 items: a chain of three makes failure propagate over more than one edge; `c` in
  `SuiteNeeds` is an item that is not shared.
* `WorkQueue`: two rows of one cell are what a race of two enqueues or of an enqueue and a
  retry makes; `MaxAttempts = 2` has a claim that may be retried and one that may not; two
  users race each other in `queue`, where crashes of workers and users are unbounded.

* `LaunchBatch`: `MaxWrites = 4` revisions by users, which are a selection, a launchable edit and a
  change of source or clone meanwhile; `MaxOrdinal = 2` rounds in a row, hence one reset of each
  lineage; one death, since the second finds what the first found: a prefix of the stages.
* `RoundGc`: two rounds that share a result are what it takes for one to keep what the other
  drops; two collectors may hold plans of the same round. `MaxCrashes = 1` death, lost lease, failed
  eviction or late evidence; a repeated one repeats the same resumption.
* `ProductDecision`: two sessions have an earlier and a later one, the anchors make one product
  late; `MaxTrouble = 2` bounds lifecycle events, faults and second workers *together*: any two of
  them meet (a suspension and its resumption, a death and a second worker, two deaths).
  Lifecycle events are dated at or after now, as the frontend dates them.

Workers are symmetric in the runs of `GraphDag`, whose keys coincide (`DefaultKey`), and workers
and users in `queue`; the runs of `SuiteWorker` and those with a liveness property use no
symmetry. Deadlock is checked in `product`, whose worker polls for ever, and not in the other
runs, where the system does stop: every run has ended, users are done, or a bound has been
reached.

Each property of a passing run has a mutant in `PROJECT.json`: an operator marked
"Fault:" in the module, which stands for a plausible bug in the mapped code (upstream
results not waited for, the fencing token not compared, failure passed on to direct
downstream items only, the advisory lock not given back, ...) and breaks that property.

### Fairness

`GraphDag` has none and no liveness property. `FairSuiteSpec` assumes

* `SF(Work(w))`: a worker process is kept running (`main` polls; that somebody starts it again
  when it has ended is an assumption about the operator, nothing in the code enforces it),
  an execution ends or raises, and a worker that waits for a row lock is queued for it, so
  that resets which come and go do not keep it out for ever. Strong fairness is this queue.
* `WF(ClockTick(i))`: time passes.
* `WF(CommitReset(s))`: a transaction that has begun ends.

Nothing is assumed of failures, crashes, renewals or resets. In particular the heartbeat is
not assumed to renew, nor a publication to succeed.

`FairSpec` of `WorkQueue` assumes `SF(WorkerStep(w))` (`run_persistent_worker` polls for ever, a
dead process is started again, a handler ends) and `WF(Tick(i))`. Crashes are unbounded and
possible at any moment; strong fairness still makes progress, since a claim spends an
attempt whatever becomes of it. Nothing is assumed of heartbeats, so a lease may run out
under a live worker again and again, nor of users.

`FairSpec` of `LaunchBatch` assumes that some request that is being served goes on (`WF`), and that
the client asks again under the same key while the batch is not complete (`SF(Resume)`): this is
an assumption about the client, which the frontend's retry button and the stored key make
possible and nothing enforces. `LaunchResumes` is to be read as "a batch can be finished".

`FairSpec` of `RoundGc` assumes that the daemon plans and collectors execute (`--forever`, started
again by the operator; `SF`, because the advisory lock is queued for), that a promotion's
transaction ends, that workers go on with what they hold, and that suites being built are planned
or abandoned. Evidence and promotions may never come.

`FairSpec` of `ProductDecision` assumes `WF(Start(w) \/ Cycle(w))`: the worker with `--forever` is
started again when it ended (`scripts/start-v022-services.ps1` starts every service that is not
running; that it is run again is up to the operator) and goes on when it runs. No operator, gate
or clock has to do anything.

## 4. What the code does not do

Three runs show a disagreement between the code and its documents; `PROJECT.json` quotes them.

* `lost_completion`: two finishes of the last two items of a run, in overlapping transactions,
  leave the run `running` for good. The instance gets there through `SuiteWorker`: two suites
  share an item, and each worker serves its own suite.
* `launch_round`: the reset of a clone closes the round of the research root and opens the next
  one for the clone; the root has no active round any more and can neither launch nor be reset.
* `gc_unguarded`: the candidate endpoint makes a result a Product's without the retention guard,
  between the strong-root check of a collector and its evictions.

Further disagreements are part of the models, as the named exceptions of properties that hold:

* the fence of a publication checks the run an item was *claimed through*. When that run is
  released or fails, the worker records the shared item as failed, and every other live run
  that needs it fails (`BadEndHasCause` allows it, `PlanImpossible` is what follows);
* a release that waits for a planning transaction's row lock cancels the item the newly planned
  run consumes (`CancelSparesSeenWork` speaks of the runs the release has seen);
* a reset during materialization is followed by an active run in a closed round, which the
  worker does not see any more (`Settled` counts it as settled; `Deserted` in `RoundGc`);
* `retry` keeps `cancel_requested_at`. Work whose cancellation was asked for while its attempt
  failed goes back to the queue, where nobody may claim or close it, and every later
  submission of the cell joins it (`Unclaimable`);
* a closed round whose suite was still being built, or whose running work lost its worker, is
  never collected, nor is any round closed after it (`Deserted`, `HeldUp`);
* a launch locks the source with the suite of its own frequency, which may come before the
  suite of the other one is submitted, although AMENDMENT-005:64 has the lock last; and a retry
  with the old key after a reset submits into the closed round, where AMENDMENT-005:70 keeps new
  commands out;
* a Product's session whose Stage-1 run was cut short, or whose worker ended between two of its
  raw payloads, fails in every cycle and keeps all later ones from their turn (`Wedged`); one
  whose cycle was cut short after Stage 1, or that a second worker took up meanwhile, is recorded
  as missing for good (`MissingIsExplained`);
* a gate published during a suspension is refused after it, which ends the worker at every
  start (`Refused`), where `v0.22/v0.22本地运行与前端验收手册.md:29` says `waiting_for_input`;
* the payload files of some results are never collected, because no round's closure leads to
  them. `ops.v022_research_round_artifact` (migration 133:18) and the closure over it
  (`research_round_gc.py:118`) go from an artifact to what it depends on, but a payload manifest
  depends on its producer (`suite_typed_work_runtime.py:2459`). A round reaches a manifest only
  through an output that cites it, as a strategy target cites those of its Aggregations (1999), or
  through evidence. The manifests of strategy targets, defense decisions and sleeve
  merges (2067, 2139, 2248) are reached by neither, that of a portfolio only once its evidence is
  published (`suite_result_evidence.py:197`), which may be after the collection (`Astray`).

The liveness properties name what else can stand still. `Obstacle`, of `SuiteSettles`:

* what a worker leaves half done before the suite's plan is not taken up again (`SourceStranded`): a
  set of raw payloads of which some are bound is refused by every later call
  (`raw_payload_binding_set_incomplete`, `representative_pipeline_runtime.py:941`, 1098), for every
  suite of the same context; a processing run that has not completed is refused as a replay;
  and a Stage 1 that completed, but whose last node was not bound or whose later stages were
  not worked off, is replayed without them, so that the plan or its preflight raises;
* a typed item that is `failed` or `cancelled` is refused by every later plan, since only
  `plan_run` puts dead work back into the queue (`PlanImpossible`);
* a cancelled item whose worker died cannot be claimed, yet a later plan joins it; a run that
  has lost its completion; an item that waits for an upstream a release has cancelled
  (`RunStuck`);
* a completed suite stays a candidate, and the first one, while its evidence, ranking or diagnostics
  are missing. A publication that raises every time ends the process every time; a result that
  is not accepted as a member of the ranking, or a `ForwardReturnCalculationError` that
  `suite_runtime_worker.py:300` suppresses, leaves its row out without a trace (`failing`). Younger
  suites wait behind it.

`ClaimsUsedUp` is the model's bound `MaxFence`, not the code's.

`Unclaimable`, of `QueueSettles`: the cancelled item above, and a portfolio cell whose predictive
cell has failed for good.

The models also contain behaviours that end work in a way its user may not expect, and
which therefore disturb no property above:

* A cell that completes between the lookup and the insert of an `enqueue` is queued again. The
  second item computes, cannot publish, is reported completed by its worker, and stays
  `running` until its attempts are spent and it is closed as failed.
* A worker may claim an item before the submission has linked it to its cell, and records a
  failure of the class that is never retried.
* A worker that dies between `finish` and `retry` leaves a retryable failure nobody retries.

## 5. Proofs

### The scheduler

`GraphDagProofs` proves, for any sets of runs, items and workers, any `Needs` and `Requires`
and any bounds allowed by the assumptions in `GraphDag`:

| Theorem | Statement |
|---|---|
| `Invariance` | `Spec => []Inv` |
| `TypeCorrect` | `Spec => []TypeOK` |
| `UpstreamsFirst` | `Spec => []UpstreamsDone` |
| `PublishedOnce` | `Spec => []OnePublication` |
| `ResultsNeverLost` | `Spec => ResultsStay` |
| `StaleClaimsChangeNothing` | `Spec => OnlyLatestClaimEnds` |
| `TerminalRunsNeverChange` | `Spec => TerminalRunStays` |
| `CompletedMeansDone` | `Spec => []CompletedRunIsDone` |

Assumptions: an owner is never `NULL`; a run consumes the upstreams of what it consumes
(`NeedsAssumption`) and only suites consume fenced work (`KindAssumption`), both refused
otherwise by `v022_mark_graph_ready`; the bounds are positive. `v022_mark_graph_ready` also refuses
a run whose dependencies have a cycle, and a run has finitely many items, so among any of them
there is one that requires none of the others (`AcyclicAssumption`); of all theorems only
`ActiveRunsGoOn` and `WorkersGoOn` use it.

The inductive invariant is `Inv == Types /\ LeaseColumns /\ TxnsCurrent /\ LocksExclusive /\
UpstreamsDone /\ OnePublication`. None of the last two is inductive alone, because
`CommitFinish` writes what `BeginFinish` decided in another state. `TxnsCurrent` says that the
claim of an open finish is still the current one and that what it blocks is still queued;
it survives other workers' steps because they wait for its rows, and it survives another
finish only because two open transactions never hold the same item (`LocksExclusive`).
`UpstreamsDone` then follows action by action: a claim checks the upstreams, a finish turns a
running item into a done one, and nothing makes a done item undone, since plans only
requeue dead items and releases only cancel queued ones. For `OnePublication` the argument is
that the fence recorded by `CommitFinish` is that of the current claim, and that a done item
is never claimed.

`CompletedMeansDone` needs a second, weaker invariant on top (`VerdictsSound`): a finish that
has counted a run as complete is still right about it, because done items stay done. The
action properties follow from `Inv` by cases over the actions.

### Failure, cancellation and the contract

`GraphDagContractProofs` proves, under the same assumptions:

| Theorem | Statement |
|---|---|
| `FailureInvariance` | `Spec => []FailureInv` |
| `ActiveRunsAreViable` | `Spec => []ActiveRunIsViable` |
| `FailureReachesQueue` | `Spec => []NoQueuedBehindFailure` |
| `BadEndsHaveCauses` | `Spec => BadEndHasCause` |
| `CancelsSpareSeenWork` | `Spec => CancelSparesSeenWork` |
| `GoesOnInvariance` | `Spec => []GoesOnInv` |
| `ActiveRunsGoOn` | `Spec => []ActiveRunGoesOn` |
| `SchedulerKeepsContract` | `Spec => ImplementsContract` |

`FailureInv` says, besides the two invariants and that a released run is over, that an open
finish *reaches* all it concerns (`TxnReaches`): what it blocks is every queued item below its
own, and every active run that needs its item gets a bad verdict from a failure. It is true
when the finish decides, and must still be true when it commits. In between an item
becomes queued, or a run active, by a plan only (`QueuedStep`, `ActiveStep`). A run that needs
something below the item needs the item itself (`AffectedNeeds`, by `NeedsAssumption` and
because `Affected` is the least closed set), and the plan would have to lock that item's row, which
the finish holds (`KeepsReaching`). At the commit, therefore, every active run that needs
anything broken is closed (`FailureCloses`) and nothing is queued above it (`AffectedClosed`).

`ActiveRunGoesOn` is not inductive, but follows in every state from what is (`SomethingGoesOn`).
Among the items of an active run that are not done one requires none of the others, so all its
upstreams are done. It exists, because a run is written with its items (`RunsPlanned`), and it is
not broken, because the run is viable. So it is cancelled, running or queued; if it is queued no
request to cancel lies on it, because the plan that queues an item again clears the request
(`RequestsSound`), and the run is not released: the next claim may take it.

The refinement has one lemma per visible action: a plan is a `Request` (`PlanRequests`), the commit
of a finish a `Deliver` or a `Fail` (`CommitDelivers`), the release of an active run a `Cancel`
(`ReleaseCancels`). Every other step leaves the mapped state alone.

### The workers

`SuiteWorkerProofs` proves, for any suites, sources, contexts, ages and ranks under
`SuiteAssumption`, whatever breaks off:

| Theorem | Statement |
|---|---|
| `WorkersServeTheirSuite` | `SuiteSpec => []SuiteTypeOK` |
| `WorkersUseScheduler` | `SuiteSpec => ImplementsGraphDag` |
| `WorkersKeepContract` | `SuiteSpec => ImplementsContract` |
| `WorkersGoOn` | `SuiteSpec => []ActiveRunGoesOn` |

A worker's call is a step of `GraphDag` only when the run it names is one, that is, while it has a
suite locked; hence `SuiteTypeOK`, which is proved next to `Inv` and looks at the one worker that
moves (`OneMoves`). With `WorkersUseScheduler` every theorem above holds of the workers;
`WorkersKeepContract` draws the conclusion for the contract. `WorkersGoOn` is the part of
`SuiteSettles` that can be proved here: of the named obstacles, `RunStuck` has no third case.

### The work queue

`WorkQueueProofs` proves, for any sequence of cells, any sets of rows, workers and users, any
`Source` and any positive bounds:

| Theorem | Statement |
|---|---|
| `QueueInvariance` | `Spec => []QueueInv` |
| `QueueTypeCorrect` | `Spec => []QueueTypeOK` |
| `NoTwinRows` | `Spec => []OneActiveRow` |
| `AnsweredOnce` | `Spec => []OneAnswer` |
| `CancellationWins` | `Spec => []CancelledNeverPublishes` |
| `SourcesFirst` | `Spec => []PortfolioAfterSource` |
| `HoldersOnlyEnd` | `Spec => OnlyHolderEnds` |
| `EndsStand` | `Spec => EndsStay` |
| `QueueKeepsContract` | `Spec => ImplementsCellWork` |

The only assumption is `QueueAssumption` (the sorts of the constants, positive bounds, and
`NULL` distinct from what it stands beside). `Source` may have cycles.

`QueueInv` is the conjunction of the invariants above and `RunningIsReady`: a running row's
predictive cell has a result. `PortfolioAfterSource` is not inductive without it, because the
gate is passed at the claim and the result published several transactions later. The proof
that steps preserve `QueueInv` does not go through it action by action: every action is first
shown to be of one of three kinds (`StepKinds`): *quiet* (rows keep their status or leave the active
ones, nothing is published), *a row appears* among the active ones (`Insert`, `Retry`, whose
guards are the unique index), or *publishes*. Each conjunct is then preserved by each kind.

The kinds are also the steps of the contract: an appearing row is an `Open`, a publication an
`Answer`, and a quiet step an `AskCancel` or a `GiveUp`. For the last it must be shown that a worker
gives a row back as cancelled only when that was asked for, several transactions earlier
(`CancelSound`), and that only a user asks (`OnlyUsersAsk`).

### Launch batches

`LaunchBatchProofs` proves, for any drafts, batches, threads, studies and bounds under
`LaunchAssumption` (the sorts of drafts are disjoint, `NULL` and `Empty` are none of the values):

| Theorem | Statement |
|---|---|
| `LaunchInvariance` | `Spec => []IInv` |
| `LaunchTypeCorrect` | `Spec => []LaunchTypeOK` |
| `CompiledGraphsAreCurrent` | `Spec => []CompiledIsCurrent` |
| `SuitesAreOfTheSource` | `Spec => []SuitesRunTheSource` |
| `BatchesStayInTheirRound` | `Spec => []OneRoundPerBatch` |
| `CompleteBatchesAreLaunched` | `Spec => []CompleteIsLaunched` |
| `ResearchIsNeverStranded` | `Spec => []ResearchGoesOn` |
| `LaunchedIsLocked` | `Spec => LockedUntilReset` |
| `OrdersAreKept` | `Spec => KeepsOrders` |

`SuitesRunTheSource` needs to know what a thread relies on several transactions after it read
it: which revision a derived command was issued for, what the child row names, and that rows,
revisions and command results are written once. Revisions are only appended, so whatever
is said of a revision by its number stays true; what is said of the current one has to be
compared with the row again, and the proof shows that each stage does.

`OrdersAreKept` follows from `IInv`. Its core is that a clone which nobody else wrote to has the study
of the launch (`CloneHasTheStudy`): its first revision is the copy, its second the change of
frequency, and whoever adds a third touches it, also when a resumed thread finds its own
command already answered (`InsertTouches`, `RetuneKeepsOrders`).

### Collection

`RoundGcProofs` and `RoundGcRetentionProofs` prove, for any rounds, items, objects, workers and
collectors under `RoundAssumption` (`Requires` is transitive and acyclic, a suite consumes the
upstreams of what it consumes; `Cites` is any transitive part of `Requires`, `Evidence` any set of
items):

| Theorem | Statement |
|---|---|
| `GcInvariance` | `Spec => []Inv` |
| `GcTypeCorrect` | `Spec => []GcTypeOK` |
| `EnrolledObjectsAreKept` | `Spec => EnrolledObjectsSurvive` |
| `CompletionIsFinal` | `Spec => CompletionStays` |
| `RetentionInvariance` | `Spec => []RetentionInv` |
| `NothingIsLeftBehind` | `Spec => []NothingLeftBehind` |
| `CollectionKeepsContract` | `Spec => SuitesKeepContract` |

An evicting collector holds the guard, hence no promotion is under way and no other collector
evicts (`GuardHeld`); so what it has left stays out of reach of every enrolled result
(`SweepsSpare`), and nobody else ends its plan (`SweepsRun`).

`NothingIsLeftBehind` is about the results that some round leads to (`Found`): cited by a done item
or with evidence. It does not say that every result is found, which the code does not
provide. A plan leaves alone what is strong at that moment, so the question is what becomes of that
file later. It is strong through a Product, which is for good, or through a round that is still
active. That round is closed later and, as only closed rounds are planned (`PlansClosed`), planned
later still, by which time the file is in its own plan or strong through somebody else. So
`RetentionInv` says more than `NothingLeftBehind`: the pending round that answers for a file is one
that no collector completes without removing that file (`AnsweredBy`). Four facts carry it through
the steps. Results, evidence and planned runs only grow (`ResearchGrows`), which makes what is strong
stay so until a reset, and a reset hands it to the round being closed (`KeptAtReset`). A result is
registered through an active run, whose round is active because a reset cancels active runs
(`JobsSound`): what it cites is found from now on, and strong (`CitedIsStrong`), while the result itself
is found by nobody yet, since whatever could cite it requires it (`KeptAtRegister`, from
`WorkSound`). Evidence that is published while the round is active makes its result strong, and
evidence that comes later leaves it astray (`KeptAtEvidence`).

`CollectionKeepsContract` needs that what is begun rests on results and that an active suite still
misses one (`ServiceSound`); then a registration is a `Deliver` that completes exactly the suites it
was the last result of, a failure a `Fail`, a reset a `Cancel`, and no collector, promotion or
late writer is visible to a requester (`OthersInvisible`).

### Product decisions

`ProductDecisionProofs` proves, for any products, sessions, workers, clocks, gates and lifecycles under
`ProductAssumption`:

| Theorem | Statement |
|---|---|
| `ProductInvariance` | `Spec => []Inv` |
| `ProductTypeCorrect` | `Spec => []ProductTypeOK` |
| `DecisionsComeInOrder` | `Spec => []DecidedInOrder` |
| `ReportsAreExact` | `Spec => []MonitoringIsExact` |
| `CompletedHasEvidence` | `Spec => []DecisionHasEvidence` |
| `MissingHasReason` | `Spec => []MissingIsExplained` |
| `DecisionsAreReported` | `Spec => []ReportsFollow` |
| `LedgerStands` | `Spec => LedgerIsFinal` |
| `LedgerIsKept` | `Spec => KeepsLedger` |

The argument is monotonicity. Workers act on what they read some transactions ago, but everything
that a task rests on only grows (`Grows`): a session once eligible, prepared, run or decided stays
so, and so does a whole set of raw payloads, over which alone a run is planned (`RunsHaveRaw`). So
the task of a worker stays sound whatever the others do (`TasksSound`, by `TaskKept`), and only
the worker that moves has to be looked at. `MissingIsExplained` needs the other direction, that
nothing is under way which nobody is at: while one worker runs undisturbed, a run of an undecided
session has that worker at it (`RunsAreManned`), so no replay happens.

`LedgerIsKept` has a lemma for each of the ledger's actions. `Inv` gives what they need: the
earlier sessions of a session being published are decided, its gate is bound, and the report that
is published covers what was decided until then, whichever worker's clock is behind.

### What is only model-checked

Everything under fairness: `SuiteSettles`, `QueueSettles`, `LaunchResumes`, `RoundsAreCollected`,
`SessionsSettle`. TLAPS does not do liveness; of `SuiteSettles` the state part is proved (`WorkersGoOn`).
Every other property of a passing run is a theorem.

## 6. What is not modelled, and why

Hazards of this code that no property states, most of them within the models' behaviours:

* Plans, finishes and releases lock items in different orders (`dag.py:170`); PostgreSQL aborts one.
* Two releases of the last two runs that share an item each see the other's consumer and leave
  the item queued without one (`20260810_52_v022_graph_dag.py:219`): idle until a plan joins it.
* Two processes under one `--worker-id` cannot be told apart by `finish` (`work_queue.py:435`).
* A thread that dies between recording a suite and locking its draft leaves the draft
  editable (`suite_launch_batch.py:427`): the suite still runs what its row names.
* The clone of a revision whose round was closed has no active round and can only be discarded
  (`draft_service.py:735`).
* A Product suspended between the due query and the publication is decided under the suspension
  (`product_decision_worker.py:104`), and the sessions of a suspended period are decided late, after the
  resumption (`product_input_refresh.py:69`): no document says whether either should be so.
* A command row without response after a death refuses retries until an audit (`idempotency.py:72`);
  the gate of the monitoring queue is open between a failure and its retry (`monitoring_service.py:442`).

What is outside the models:

* Numeric research, data acquisition, API, CLI, frontend: no protocol of their own.
* The content of fingerprints and payloads: two items are the same when they are the same
  model value. Hash collisions and byte differences of a replay are outside.
* Single row locks inside one transaction, and PostgreSQL's deadlock detection: an open
  transaction may be rolled back (`Crash`, `AbortRelease`), which is what a detected deadlock does.
* Executor versions: a suite has one run. `run_once` also releases runs of an obsolete
  version; that release is in `GraphDag` (any run may be released at any time).
* Processing work that is fenced by its own publication (nodes finish alone).
* Catalog releases, which make drafts of an older release refuse commands: one release per instance.
* Bytes that a running node reads: `RoundGc` knows results as consumed once they are planned.
  The node outputs computed before a suite is planned are not in it either; they would be
  further items without evidence.
* The readiness file of the suite worker, and which market data or cohort makes a publication raise.
* Numeric targets of a Product's decision and coverage figures of its reports: an answer is
  completed or one of three kinds of missing. Updates of an Ensemble State after the first.
* Backdated lifecycle events, which the API accepts from a client that supplies both times.
* The number of candidates of a refresh (50): instances have four sessions.
* Work types of the queue other than suite cells. The monitoring queue adds an order of
  sessions to the gate of `claim`, and the exports a file; both come on top of `WorkQueue`.
* The number of candidates `_lock_next_suite` reads (32): instances have two suites.

The modelled parts are the ones with a protocol: they hold the transactions, locks and retries
of the platform. Most of the code by lines is elsewhere and has none: numeric research over
data frames, request schemas and query functions of the API, one-off imports, publication of
catalogs, table builders. A model of it would restate assignments, so the share of lines the
map covers stays small by nature.

## 7. Plan

`GraphDag`, `SuiteWorker`, `WorkQueue`, `LaunchBatch`, `RoundGc` and `ProductDecision` are done. Next,
each with its instances, its mutants and what can be proved:

1. On top of `WorkQueue`: the order of sessions of the monitoring queue; `ExportJob`, which composes
   it with the file, the result row and the terminal state.
2. `Artifact` (lineage) and `CommandLedger` (idempotency), with object backup and storage maintenance
   beside `RoundGc`.
3. Promotion in all its transactions (candidate, enrollment, Ensemble State, retry after a
   change of calendar), joined with `ProductDecision`.
4. Pure algorithms as operators against reference definitions: graph validation, incremental
   partitions, settlement, intervals, lifecycle transitions.
