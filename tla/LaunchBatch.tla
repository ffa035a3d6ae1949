----------------------------- MODULE LaunchBatch -----------------------------
(***************************************************************************)
(* Graph Drafts, Research Rounds and the Launch Batches that turn one      *)
(* revision of a draft into a suite per frequency.                         *)
(*                                                                         *)
(* A batch is worked off by a request thread in one transaction after the  *)
(* other: register, clone the source revision for the other frequency, set *)
(* the frequency, compile, bind, admit, publish each suite, record it, lock *)
(* its draft, lock the source, complete.  Any transaction may be the last  *)
(* one of a thread; another thread, or two at once, may go on under the    *)
(* same key, while the user edits, compiles, copies and resets drafts.     *)
(*                                                                         *)
(* What a draft selects is a Study; a compiled graph is the frequency and  *)
(* the study of a revision.  A user command that names a revision which is *)
(* not current is refused without effect and is no step.  The catalog      *)
(* release stays the same.  Suites are executed in SuiteWorker, closed     *)
(* rounds collected in RoundGc.                                            *)
(*                                                                         *)
(* An operator whose comment begins with Fault is the operator below it    *)
(* with a plausible bug; it is used only to see a property fail.           *)
(***************************************************************************)
EXTENDS Naturals, Sequences
LOCAL INSTANCE Functions

CONSTANTS
  Root,         \* drafts made by create
  Copy,         \* drafts a user clones from a revision
  Batch,        \* Launch Batches, by actor and idempotency key
  Asks,         \* Asks[b]: the frequencies requested
  Request,      \* threads of the API
  Study,        \* what a draft can select
  Empty,        \* the selection of a new draft and after a reset
  NULL,
  MaxWrites,    \* bound: revisions that users write, in all drafts
  MaxOrdinal,   \* bound: rounds in a row
  MaxFaults     \* bound: threads that die or meet an unexpected error

Frequency == {"weekly", "monthly"}

\* One frequency of a batch; also the draft cloned for it, whose draft_key
\* launch_batch_<id>_<frequency> is derived from the two.
Child == Batch \X Frequency

Draft == Root \cup Copy \cup Child
Round == Draft \X (Nat \ {0})  \* root_graph_draft_id and ordinal
Graph == [freq : Frequency, study : Study]
Revision == [freq : Frequency, study : Study \cup {Empty}, round : Round]

\* A launched revision, a child row, and what is known under a derived key.
BatchRow == [draft : Draft, rev : Nat \ {0}, graph : Graph, round : Round]
ChildRow == [draft : Draft, rev : Nat \ {0}, graph : Graph]
EventRow == [base : Nat \ {0}, rev : Nat \ {0}]
CompileRow == [rev : Nat \ {0}, graph : Graph]

ASSUME LaunchAssumption ==
  /\ Asks \in [Batch -> (SUBSET Frequency) \ {{}}]
  /\ Root \cap Copy = {} /\ (Root \cup Copy) \cap Child = {}
  /\ Empty \notin Study
  /\ NULL \notin Graph \cup BatchRow \cup ChildRow \cup EventRow \cup CompileRow
  /\ MaxWrites \in Nat /\ MaxOrdinal \in Nat /\ MaxFaults \in Nat

VARIABLES
  status,     \* v022_graph_draft.status
  revision,   \* the revisions of a draft, each with its Research Round
  compiled,   \* last_compiled_research_graph_id
  active,     \* the Research Rounds that are active
  batch,      \* v022_suite_launch_batch and its round
  child,      \* graph_draft_id, _revision and compiled graph of a child row
  recorded,   \* children whose research_suite_id is set
  suite,      \* the suite published under a child's submission key
  complete,   \* batches with a succeeded event of stage complete
  retuned,    \* the event set_frequency of a cloned draft, by its derived key
  built,      \* the result of compile_graph_draft of a clone, by its key
  job,        \* what a thread does
  faults

draftVars == <<status, revision, compiled, active>>
commandVars == <<retuned, built>>
batchVars == <<batch, child, recorded, suite, complete>>
vars == <<draftVars, commandVars, batchVars, job, faults>>

Idle == [at |-> "idle"]
Jobs == [at : {"prepare", "lock", "complete"}, batch : Batch]
        \cup [at : {"retune", "compile", "bind"}, batch : Batch, child : Child, rev : Nat]
        \cup [at : {"submit", "record", "lockChild"}, batch : Batch, todo : SUBSET Frequency]

Init ==
  /\ status = [d \in Draft |-> "absent"] /\ revision = [d \in Draft |-> <<>>]
  /\ compiled = [d \in Draft |-> NULL] /\ active = {}
  /\ batch = [b \in Batch |-> NULL] /\ child = [c \in Child |-> NULL]
  /\ recorded = {} /\ suite = [c \in Child |-> NULL] /\ complete = {}
  /\ retuned = [c \in Child |-> NULL] /\ built = [c \in Child |-> NULL]
  /\ job = [t \in Request |-> Idle] /\ faults = 0

-----------------------------------------------------------------------------
(* Drafts *)

Rev(d) == Len(revision[d])
Current(d) == revision[d][Rev(d)]

\* Revisions of d that no batch wrote.
Written(d) ==
  IF d \notin Child THEN Rev(d)
  ELSE Rev(d) - (IF status[d] = "absent" THEN 0 ELSE 1) - (IF retuned[d] = NULL THEN 0 ELSE 1)
MayWrite == FoldFunction(+, 0, [d \in Draft |-> Written(d)]) < MaxWrites

GraphOf(r) == [freq |-> r.freq, study |-> r.study]

\* Fault: the compiled graph is kept when a revision follows.
CompiledKept(d) == compiled[d]

\* What is compiled once a revision was inserted.
CompiledAfter(d) == NULL

\* _insert_revision and the update of the draft row.
Insert(d, r) ==
  /\ revision' = [revision EXCEPT ![d] = Append(@, r)]
  /\ compiled' = [compiled EXCEPT ![d] = CompiledAfter(d)]

\* Fault: whatever belongs to the active round can be edited.
EditableInRound(d) == status[d] # "absent" /\ Current(d).round \in active

\* _require_editable
Editable(d) == status[d] = "draft"

\* A new draft of either frequency, with its first Research Round.
Create(d) ==
  /\ d \in Root /\ status[d] = "absent"
  /\ status' = [status EXCEPT ![d] = "draft"]
  /\ \E f \in Frequency :
       revision' = [revision EXCEPT ![d] = <<[freq |-> f, study |-> Empty, round |-> <<d, 1>>]>>]
  /\ active' = active \cup {<<d, 1>>}
  /\ UNCHANGED <<compiled, commandVars, batchVars, job, faults>>

\* apply_event, or a confirmed change preview: another selection, or another
\* frequency.  The new revision stays in the round of the one before.
Edit(d) ==
  /\ Editable(d) /\ MayWrite
  /\ \/ \E s \in Study \ {Current(d).study} : Insert(d, [Current(d) EXCEPT !.study = s])
     \/ \E f \in Frequency \ {Current(d).freq} : Insert(d, [Current(d) EXCEPT !.freq = f])
  /\ UNCHANGED <<status, active, commandVars, batchVars, job, faults>>

\* compile, under a key of the user's.  An empty selection is blocked.
Compile(d) ==
  /\ Editable(d) /\ Current(d).study # Empty
  /\ compiled' = [compiled EXCEPT ![d] = GraphOf(Current(d))]
  /\ UNCHANGED <<status, revision, active, commandVars, batchVars, job, faults>>

\* clone_revision, under a new draft key: any revision, in its round.
CopyRevision(d, c) ==
  /\ c \in Copy /\ status[c] = "absent" /\ MayWrite
  /\ \E n \in 1..Rev(d) : revision' = [revision EXCEPT ![c] = <<revision[d][n]>>]
  /\ status' = [status EXCEPT ![c] = "draft"]
  /\ UNCHANGED <<compiled, active, commandVars, batchVars, job, faults>>

\* Fault: the reset keeps the draft's round for the new revision.
RoundKept(d) == Current(d).round

\* The round a reset opens: its root is the draft that is reset.
RoundAfter(d) == <<d, Current(d).round[2] + 1>>

\* reset_current_research.  SuiteWorker has the runs it releases.
Reset(d) ==
  /\ status[d] # "absent" /\ MayWrite
  /\ Current(d).round \in active /\ Current(d).round[2] < MaxOrdinal
  /\ active' = (active \ {Current(d).round}) \cup {<<d, Current(d).round[2] + 1>>}
  /\ status' = [status EXCEPT ![d] = "draft"]
  /\ Insert(d, [freq |-> "weekly", study |-> Empty, round |-> RoundAfter(d)])
  /\ UNCHANGED <<commandVars, batchVars, job, faults>>

-----------------------------------------------------------------------------
(* A thread works on a batch *)

Goto(t, j) == job' = [job EXCEPT ![t] = j]
At(t, step) == job[t].at = step
Source(b) == batch[b].draft  \* of a batch that exists

\* _ensure_batch for a new key: the exact current compile of an editable draft
\* in an active round.  The child of the source's own frequency is bound.
Launch(t, b, d) ==
  /\ At(t, "idle") /\ batch[b] = NULL
  /\ status[d] = "draft" /\ compiled[d] # NULL /\ Current(d).round \in active
  /\ batch' = [batch EXCEPT ![b] =
       [draft |-> d, rev |-> Rev(d), graph |-> compiled[d], round |-> Current(d).round]]
  /\ child' = [c \in Child |->
                 IF c[1] = b /\ c[2] \in Asks[b] /\ c[2] = compiled[d].freq
                 THEN [draft |-> d, rev |-> Rev(d), graph |-> compiled[d]] ELSE child[c]]
  /\ Goto(t, [at |-> "prepare", batch |-> b])
  /\ UNCHANGED <<draftVars, commandVars, recorded, suite, complete, faults>>

\* _ensure_batch for a known key: neither the draft nor its round is looked at.
\* (For a complete batch every stage is without effect, or refused.)
Resume(t, b) ==
  /\ At(t, "idle") /\ batch[b] # NULL /\ b \notin complete
  /\ Goto(t, [at |-> "prepare", batch |-> b])
  /\ UNCHANGED <<draftVars, commandVars, batchVars, faults>>

\* Children without a graph: at most the one of the other frequency.
Missing(b) == {c \in {b} \X Asks[b] : child[c] = NULL}

\* Fault: a clone belongs to the round its source is in now.
CloneInLatestRound(b) ==
  [revision[Source(b)][batch[b].rev] EXCEPT !.round = Current(Source(b)).round]

\* The first revision of a clone: the launched one, in its round.
CloneOf(b) == revision[Source(b)][batch[b].rev]

\* clone_revision under the derived keys: a clone that exists is returned as it
\* is now, whatever its revision.
CloneSource(t) ==
  LET b == job[t].batch IN
  /\ At(t, "prepare")
  /\ \E c \in Missing(b) :
       LET clone == IF status[c] = "absent" THEN <<CloneOf(b)>> ELSE revision[c] IN
       /\ revision' = [revision EXCEPT ![c] = clone]
       /\ status' = [status EXCEPT ![c] = IF @ = "absent" THEN "draft" ELSE @]
       /\ Goto(t, [at |-> IF clone[Len(clone)].freq = c[2] THEN "compile" ELSE "retune",
                   batch |-> b, child |-> c, rev |-> Len(clone)])
  /\ UNCHANGED <<compiled, active, commandVars, batchVars, faults>>

\* The event set_frequency of clone c at revision rev: its key may be known.
MayRetune(c, rev) ==
  IF retuned[c] # NULL THEN retuned[c].base = rev ELSE Rev(c) = rev /\ Editable(c)

Retune(t) ==
  LET c == job[t].child
      rev == IF retuned[c] # NULL THEN retuned[c].rev ELSE Rev(c) + 1
  IN
  /\ At(t, "retune") /\ MayRetune(c, job[t].rev)
  /\ IF retuned[c] # NULL THEN UNCHANGED <<revision, compiled>>
     ELSE Insert(c, [Current(c) EXCEPT !.freq = c[2]])
  /\ retuned' = [retuned EXCEPT ![c] = [base |-> job[t].rev, rev |-> rev]]
  /\ Goto(t, [job[t] EXCEPT !.at = "compile", !.rev = rev])
  /\ UNCHANGED <<status, active, built, batchVars, faults>>

\* Fault: the revision is not compared under the row lock.
MayBuildAny(c, rev) ==
  IF built[c] # NULL THEN built[c].rev = rev
  ELSE Editable(c) /\ Current(c).study # Empty

\* compile of clone c at revision rev, by its derived key.
MayBuild(c, rev) ==
  IF built[c] # NULL THEN built[c].rev = rev
  ELSE Rev(c) = rev /\ Editable(c) /\ Current(c).study # Empty

BuildClone(t) ==
  LET c == job[t].child
      graph == GraphOf(Current(c))
  IN
  /\ At(t, "compile") /\ MayBuild(c, job[t].rev)
  /\ IF built[c] # NULL THEN UNCHANGED <<compiled, built>>
     ELSE /\ compiled' = [compiled EXCEPT ![c] = graph]
          /\ built' = [built EXCEPT ![c] = [rev |-> job[t].rev, graph |-> graph]]
  /\ Goto(t, [job[t] EXCEPT !.at = "bind"])
  /\ UNCHANGED <<status, revision, active, retuned, batchVars, faults>>

\* The child row takes its graph unless it has one.
Bind(t) ==
  LET c == job[t].child IN
  /\ At(t, "bind")
  /\ child' = [child EXCEPT ![c] =
       IF @ = NULL THEN [draft |-> c, rev |-> job[t].rev, graph |-> built[c].graph] ELSE @]
  /\ Goto(t, [at |-> "prepare", batch |-> job[t].batch])
  /\ UNCHANGED <<draftVars, commandVars, batch, recorded, suite, complete, faults>>

\* _admit_all_frequency_graphs, once every child has a graph; the children
\* without a suite are read then.
Admissible(b) == \A f \in Asks[b] : child[<<b, f>>].graph.freq = f

Admit(t) ==
  LET b == job[t].batch
      todo == {f \in Asks[b] : <<b, f>> \notin recorded}
  IN
  /\ At(t, "prepare") /\ Missing(b) = {} /\ Admissible(b)
  /\ Goto(t, IF todo = {} THEN [at |-> "lock", batch |-> b]
             ELSE [at |-> "submit", batch |-> b, todo |-> todo])
  /\ UNCHANGED <<draftVars, commandVars, batchVars, faults>>

\* Children are submitted in this order.
First(todo) == IF "weekly" \in todo THEN "weekly" ELSE "monthly"
ChildOf(t) == <<job[t].batch, First(job[t].todo)>>

\* replay, or publish, of the suite under the child's submission key.
PublishSuite(t) ==
  LET c == ChildOf(t) IN
  /\ At(t, "submit")
  /\ suite[c] \in {NULL, child[c].graph}
  /\ suite' = [suite EXCEPT ![c] = child[c].graph]
  /\ Goto(t, [job[t] EXCEPT !.at = "record"])
  /\ UNCHANGED <<draftVars, commandVars, batch, child, recorded, complete, faults>>

\* research_suite_id of the child row.
RecordSuite(t) ==
  /\ At(t, "record")
  /\ recorded' = recorded \cup {ChildOf(t)}
  /\ Goto(t, [job[t] EXCEPT !.at = "lockChild"])
  /\ UNCHANGED <<draftVars, commandVars, batch, child, suite, complete, faults>>

\* Fault: a locked draft is refused.
MayLockOnce(d, rev, graph) == Rev(d) = rev /\ compiled[d] = graph /\ status[d] = "draft"

\* lock_for_experiment
MayLock(d, rev, graph) == Rev(d) = rev /\ compiled[d] = graph
Lock(d) == status' = [status EXCEPT ![d] = "archived"]

\* Fault: the loop ends with its first child.
LeftNone(todo) == {}

Left(todo) == todo \ {First(todo)}

LockChild(t) ==
  LET c == ChildOf(t)
      todo == Left(job[t].todo)
  IN
  /\ At(t, "lockChild") /\ MayLock(child[c].draft, child[c].rev, child[c].graph)
  /\ Lock(child[c].draft)
  /\ Goto(t, IF todo = {} THEN [at |-> "lock", batch |-> c[1]]
             ELSE [at |-> "submit", batch |-> c[1], todo |-> todo])
  /\ UNCHANGED <<revision, compiled, active, commandVars, batchVars, faults>>

LockSource(t) ==
  LET b == job[t].batch IN
  /\ At(t, "lock") /\ MayLock(Source(b), batch[b].rev, batch[b].graph)
  /\ Lock(Source(b))
  /\ Goto(t, [at |-> "complete", batch |-> b])
  /\ UNCHANGED <<revision, compiled, active, commandVars, batchVars, faults>>

Complete(t) ==
  /\ At(t, "complete")
  /\ complete' = complete \cup {job[t].batch}
  /\ Goto(t, Idle)
  /\ UNCHANGED <<draftVars, commandVars, batch, child, recorded, suite, faults>>

\* The operation refuses: the stage is recorded as failed and the request ends.
Refused(t) ==
  \/ At(t, "prepare") /\ Missing(job[t].batch) = {} /\ ~Admissible(job[t].batch)
  \/ At(t, "retune") /\ ~MayRetune(job[t].child, job[t].rev)
  \/ At(t, "compile") /\ ~MayBuild(job[t].child, job[t].rev)
  \/ At(t, "lockChild") /\ LET c == child[ChildOf(t)] IN ~MayLock(c.draft, c.rev, c.graph)
  \/ At(t, "lock") /\ LET b == batch[job[t].batch] IN ~MayLock(b.draft, b.rev, b.graph)

Refuse(t) ==
  /\ Refused(t) /\ Goto(t, Idle)
  /\ UNCHANGED <<draftVars, commandVars, batchVars, faults>>

\* The process dies, or any other error ends the request.
Die(t) ==
  /\ ~At(t, "idle") /\ faults < MaxFaults /\ Goto(t, Idle)
  /\ faults' = faults + 1
  /\ UNCHANGED <<draftVars, commandVars, batchVars>>

-----------------------------------------------------------------------------

Step(t) ==
  \/ CloneSource(t) \/ Retune(t) \/ BuildClone(t) \/ Bind(t) \/ Admit(t)
  \/ PublishSuite(t) \/ RecordSuite(t) \/ LockChild(t) \/ LockSource(t) \/ Complete(t)
  \/ Refuse(t)

User(d) ==
  \/ Create(d) \/ Edit(d) \/ Compile(d) \/ Reset(d)
  \/ \E c \in Copy : CopyRevision(d, c)
  \/ \E t \in Request, b \in Batch : Launch(t, b, d)

Next ==
  \/ \E d \in Draft : User(d)
  \/ \E t \in Request : Step(t) \/ Die(t)
  \/ \E t \in Request, b \in Batch : Resume(t, b)

Spec == Init /\ [][Next]_vars

\* Requests that are being served go on, and the client asks again under the same
\* key for as long as the batch is not complete.
FairSpec ==
  /\ Spec
  /\ WF_vars(\E t \in Request : Step(t))
  /\ \A b \in Batch : SF_vars(\E t \in Request : Resume(t, b))

-----------------------------------------------------------------------------
(* Properties *)

DraftTypes ==
  /\ status \in [Draft -> {"absent", "draft", "archived"}]
  /\ revision \in [Draft -> Seq(Revision)]
  /\ compiled \in [Draft -> Graph \cup {NULL}] /\ active \in SUBSET Round
  /\ \A d \in Draft : (status[d] = "absent") = (revision[d] = <<>>)
BatchTypes ==
  /\ batch \in [Batch -> {NULL} \cup BatchRow]
  /\ child \in [Child -> {NULL} \cup ChildRow]
  /\ recorded \in SUBSET Child /\ suite \in [Child -> Graph \cup {NULL}] /\ complete \in SUBSET Batch
CommandTypes ==
  /\ retuned \in [Child -> {NULL} \cup EventRow]
  /\ built \in [Child -> {NULL} \cup CompileRow]
  /\ job \in [Request -> {Idle} \cup Jobs] /\ faults \in Nat

\* Every column has its type, and a draft row has a revision from its first
\* transaction on (create, clone_revision).
LaunchTypeOK == DraftTypes /\ BatchTypes /\ CommandTypes

\* A graph is current only as long as its revision is: what a launch or a lock
\* takes for the exact current compile is the compile of the current revision,
\* through edits, resets, copies and commands repeated by another thread.
CompiledIsCurrent ==
  \A d \in Draft : compiled[d] # NULL =>
    revision[d] # <<>> /\ compiled[d] = GraphOf(Current(d))

\* Whichever threads worked on a batch, and however often they began again, a
\* suite runs the graph its child row names, in the frequency it was asked for
\* and compiled from the revision the row names; and unless somebody else wrote
\* a revision of the clone, the study is the source's.
SuitesRunTheSource ==
  \A c \in Child : suite[c] # NULL =>
    LET row == child[c]
        source == batch[c[1]]
    IN
    /\ row # NULL /\ suite[c] = row.graph /\ suite[c].freq = c[2]
    /\ suite[c] = GraphOf(revision[row.draft][row.rev])
    /\ row.draft = source.draft \/ row.rev > 2 \/ suite[c].study = source.graph.study

\* Revision, batch and suites belong to one Research Round: what is collected
\* with the batch's round is what the batch launched.  Only the reset of a clone
\* that is not bound yet takes its later revisions into a round of the clone's.
OneRoundPerBatch ==
  \A c \in Child : child[c] # NULL =>
    LET round == revision[child[c].draft][child[c].rev].round IN
    round = batch[c[1]].round \/ round[1] = c

\* A batch is complete only with a suite for every frequency, and with its source
\* locked in the launched revision unless a reset has opened another one.
CompleteIsLaunched ==
  \A b \in complete :
    /\ \A f \in Asks[b] : <<b, f>> \in recorded /\ suite[<<b, f>>] # NULL
    /\ status[Source(b)] = "archived" \/ Rev(Source(b)) > batch[b].rev

\* A reset of another draft of the same round.
TakenOver(r) == \E d \in Draft \ {r[1]} : <<d, r[2] + 1>> \in {revision[d][n].round : n \in 1..Rev(d)}

\* A research root goes on after every reset, its own, those of its clones and
\* those during a launch: its current revision is in an active round, unless a
\* reset of one of its clones has closed that round.
ResearchGoesOn ==
  \A d \in Root : status[d] # "absent" =>
    Current(d).round \in active \/ TakenOver(Current(d).round)

\* What was launched is never edited: an archived draft changes in a reset only,
\* which closes the round of the archived revision in the same transaction.
LockedUntilReset ==
  [][\A d \in Draft : status[d] = "archived" /\ revision'[d] # revision[d] =>
       Current(d).round \in active /\ Current(d).round \notin active']_vars

\* The source has a revision the batch does not know: lock_source refuses.
SourceMoved(b) == batch[b] # NULL /\ Rev(Source(b)) # batch[b].rev

\* A clone that is not bound yet was changed by somebody else, such that a
\* command under a derived key no longer fits.
CloneSpoilt(b) ==
  \E c \in Missing(b) :
    /\ status[c] # "absent"
    /\ \/ built[c] # NULL /\ built[c].rev # Rev(c)
       \/ built[c] = NULL /\ status[c] = "archived"
       \/ built[c] = NULL /\ Current(c).study = Empty
       \/ retuned[c] # NULL /\ Current(c).freq # c[2]

\* A batch that was begun can be finished under its key, whatever thread died in
\* whatever step, unless the source or an unbound clone was changed for good.
LaunchResumes ==
  \A b \in Batch : batch[b] # NULL ~> b \in complete \/ [](SourceMoved(b) \/ CloneSpoilt(b))

\* AMENDMENT-005: a research root has exactly one active round at any time.
OneActiveRound ==
  \A d \in Root : status[d] # "absent" =>
    \E r \in active : r[1] = d /\ \A q \in active : q[1] = d => q = r
=============================================================================
