-------------------------- MODULE LaunchBatchProofs --------------------------
(***************************************************************************)
(* What holds of drafts, rounds and launch batches for any numbers of      *)
(* drafts, batches, threads, studies, writes, rounds and faults.           *)
(*                                                                         *)
(* The argument rests on one observation: every table is append-only or    *)
(* written once (Grows).  What a thread has read therefore stays true      *)
(* whatever the user and the other threads do meanwhile, and only the row  *)
(* that a step writes needs an argument of its own.                        *)
(***************************************************************************)
EXTENDS LaunchBatchOrders, TLAPS

\* Revision n of draft d exists and compiles to g.
Compiles(d, n, g) == n \in 1..Rev(d) /\ g = GraphOf(revision[d][n])

\* The source of a batch is locked, or reset.
SourceDone(b) == status[Source(b)] = "archived" \/ Rev(Source(b)) > batch[b].rev

\* A batch names an existing revision, its graph and its round, and the child of
\* the source's frequency is bound to it.
BatchStands(b) ==
  batch[b] # NULL =>
    LET s == batch[b] IN
    /\ Compiles(s.draft, s.rev, s.graph)
    /\ s.round = revision[s.draft][s.rev].round
    /\ s.graph.freq \in Asks[b] =>
         child[<<b, s.graph.freq>>] = [draft |-> s.draft, rev |-> s.rev, graph |-> s.graph]

\* A child row names a graph of its frequency, of the source or of the clone.
ChildStands(c) ==
  child[c] # NULL =>
    LET row == child[c]
        source == batch[c[1]]
    IN
    /\ source # NULL /\ Compiles(row.draft, row.rev, row.graph) /\ row.graph.freq = c[2]
    /\ \/ row = [draft |-> source.draft, rev |-> source.rev, graph |-> source.graph]
       \/ row.draft = c /\ status[c] # "absent"

\* A clone begins as the launched revision, in another frequency than its own, and
\* its second revision keeps the frequency or the study.
CloneStands(c) ==
  status[c] # "absent" =>
    LET source == batch[c[1]] IN
    /\ source # NULL /\ source.graph.freq # c[2]
    /\ revision[c][1] = CloneOf(c[1])
    /\ \A n \in 1..Rev(c) : revision[c][n].round = source.round \/ revision[c][n].round[1] = c
    /\ Rev(c) >= 2 => \/ revision[c][2].freq = source.graph.freq
                      \/ revision[c][2].study \in {source.graph.study, Empty}

\* The results kept under derived keys are those of existing revisions.
CommandStands(c) ==
  /\ retuned[c] # NULL => /\ status[c] # "absent" /\ retuned[c].rev \in 1..Rev(c)
                          /\ revision[c][retuned[c].rev].freq = c[2]
  /\ built[c] # NULL => status[c] # "absent" /\ Compiles(c, built[c].rev, built[c].graph)

\* What a thread has in its hands.
HasClone(j) ==
  /\ j.child \in {j.batch} \X Asks[j.batch]
  /\ status[j.child] # "absent" /\ j.rev \in 1..Rev(j.child)
  /\ j.at \in {"compile", "bind"} => revision[j.child][j.rev].freq = j.child[2]
  /\ j.at = "bind" => built[j.child] # NULL /\ built[j.child].rev = j.rev
HasTodo(j) ==
  /\ j.todo # {} /\ j.todo \subseteq Asks[j.batch]
  /\ \A f \in Asks[j.batch] \ j.todo : <<j.batch, f>> \in recorded
  /\ j.at = "record" => suite[<<j.batch, First(j.todo)>>] # NULL
  /\ j.at = "lockChild" => <<j.batch, First(j.todo)>> \in recorded
AllBound(b) == \A f \in Asks[b] : child[<<b, f>>] # NULL
AllRecorded(b) == \A f \in Asks[b] : <<b, f>> \in recorded
JobStands(j) ==
  /\ j.at # "idle" => batch[j.batch] # NULL
  /\ j.at \in {"retune", "compile", "bind"} => HasClone(j)
  /\ j.at \in {"submit", "record", "lockChild"} => AllBound(j.batch) /\ HasTodo(j)
  /\ j.at \in {"lock", "complete"} => AllRecorded(j.batch)
  /\ j.at = "complete" => SourceDone(j.batch)

\* A suite runs its child's graph, and what is recorded exists.
SuiteStands(c) ==
  /\ suite[c] # NULL => child[c] # NULL /\ suite[c] = child[c].graph
  /\ c \in recorded => suite[c] # NULL

CompletionStands(b) == batch[b] # NULL /\ AllRecorded(b) /\ SourceDone(b)

\* The revisions of a research root are in rounds of its own.
RootRounds == \A d \in Root : \A n \in 1..Rev(d) : revision[d][n].round[1] = d

IInv ==
  /\ LaunchTypeOK /\ CompiledIsCurrent /\ RootRounds /\ ResearchGoesOn
  /\ \A b \in Batch : BatchStands(b)
  /\ \A c \in Child : ChildStands(c) /\ CloneStands(c) /\ CommandStands(c) /\ SuiteStands(c)
  /\ \A t \in Request : JobStands(job[t])
  /\ \A b \in complete : CompletionStands(b)

\* Nothing that was written once changes or goes.
Grows ==
  /\ \A d \in Draft : /\ Rev(d) <= Rev(d)'
                      /\ \A n \in 1..Rev(d) : revision'[d][n] = revision[d][n]
                      /\ status[d] # "absent" => status'[d] # "absent"
  /\ \A b \in Batch : batch[b] # NULL => batch'[b] = batch[b] /\ (SourceDone(b) => SourceDone(b)')
  /\ \A c \in Child : /\ child[c] # NULL => child'[c] = child[c]
                      /\ suite[c] # NULL => suite'[c] = suite[c]
                      /\ retuned[c] # NULL => retuned'[c] = retuned[c]
                      /\ built[c] # NULL => built'[c] = built[c]
  /\ recorded \subseteq recorded'

-----------------------------------------------------------------------------
(* Facts about the state *)

\* A child is a batch and a frequency, and also a draft.
LEMMA ChildPair ==
  ASSUME NEW c \in Child
  PROVE  c[1] \in Batch /\ c[2] \in Frequency /\ c = <<c[1], c[2]>> /\ c \in Draft /\ c \notin Root \cup Copy
BY LaunchAssumption DEF Child, Draft

\* The requested frequencies are frequencies.
LEMMA AsksFrequencies ==
  ASSUME NEW b \in Batch
  PROVE  Asks[b] \subseteq Frequency /\ \A f \in Asks[b] : <<b, f>> \in Child
BY LaunchAssumption DEF Child

\* No row is NULL.
LEMMA RowsAreNotNull ==
  /\ \A g \in Graph : g # NULL
  /\ \A r \in BatchRow : r # NULL
  /\ \A r \in ChildRow : r # NULL
  /\ \A r \in EventRow : r # NULL
  /\ \A r \in CompileRow : r # NULL
BY LaunchAssumption

\* A draft that exists has a current revision.
LEMMA Revisions ==
  ASSUME DraftTypes, NEW d \in Draft
  PROVE  /\ Rev(d) \in Nat /\ revision[d] \in Seq(Revision)
         /\ \A n \in 1..Rev(d) : revision[d][n] \in Revision
         /\ status[d] # "absent" => Rev(d) \in 1..Rev(d) /\ Rev(d) >= 1 /\ Current(d) \in Revision
         /\ status[d] = "absent" => revision[d] = <<>> /\ Rev(d) = 0
<1>1. /\ revision[d] \in Seq(Revision)
      /\ (status[d] = "absent") = (revision[d] = <<>>)
  BY DEF DraftTypes
<1>2. Rev(d) \in Nat /\ \A n \in 1..Rev(d) : revision[d][n] \in Revision
  BY <1>1 DEF Rev
<1>3. status[d] # "absent" => Rev(d) >= 1
  BY <1>1 DEF Rev
<1>4. status[d] = "absent" => Rev(d) = 0
  BY <1>1 DEF Rev
<1> QED
  BY <1>1, <1>2, <1>3, <1>4 DEF Current

\* The fields of a revision.
LEMMA RevisionFields ==
  ASSUME NEW r \in Revision
  PROVE  /\ r.freq \in Frequency /\ r.study \in Study \cup {Empty}
         /\ r.round \in Round /\ r.round[1] \in Draft /\ r.round[2] \in Nat \ {0}
         /\ r.study # Empty => GraphOf(r) \in Graph
         /\ GraphOf(r).freq = r.freq /\ GraphOf(r).study = r.study
BY DEF Revision, Round, Graph, GraphOf

\* Typed rows of a state.
LEMMA Rows ==
  ASSUME BatchTypes, CommandTypes
  PROVE  /\ \A b \in Batch : batch[b] # NULL => batch[b] \in BatchRow
         /\ \A c \in Child : /\ child[c] # NULL => child[c] \in ChildRow
                             /\ suite[c] # NULL => suite[c] \in Graph
                             /\ retuned[c] # NULL => retuned[c] \in EventRow
                             /\ built[c] # NULL => built[c] \in CompileRow
BY DEF BatchTypes, CommandTypes

-----------------------------------------------------------------------------
(* Rows that are not written stay as they should be *)

\* What compiles goes on to compile.
LEMMA CompilesOn ==
  ASSUME DraftTypes, DraftTypes', Grows, NEW d \in Draft, NEW n, NEW g, Compiles(d, n, g)
  PROVE  Compiles(d, n, g)' /\ revision'[d][n] = revision[d][n]
<1>1. Rev(d) \in Nat /\ Rev(d)' \in Nat
  BY Revisions, DraftTypes' DEF Rev, DraftTypes
<1>2. Rev(d) <= Rev(d)' /\ \A k \in 1..Rev(d) : revision'[d][k] = revision[d][k]
  BY DEF Grows
<1> QED
  BY <1>1, <1>2 DEF Compiles

LEMMA BatchStandsOn ==
  ASSUME IInv, DraftTypes', Grows, NEW b \in Batch, batch[b] # NULL
  PROVE  BatchStands(b)'
<1> DEFINE s == batch[b]
<1>1. s \in BatchRow /\ s.draft \in Draft /\ s.graph \in Graph /\ s.graph.freq \in Frequency
  BY Rows DEF IInv, LaunchTypeOK, BatchRow, Graph
<1>2. BatchStands(b) /\ batch'[b] = s
  BY DEF IInv, Grows
<1>3. Compiles(s.draft, s.rev, s.graph)' /\ revision'[s.draft][s.rev] = revision[s.draft][s.rev]
  BY <1>1, <1>2, CompilesOn DEF IInv, LaunchTypeOK, BatchStands
<1>4. ASSUME s.graph.freq \in Asks[b]
      PROVE  child'[<<b, s.graph.freq>>] = [draft |-> s.draft, rev |-> s.rev, graph |-> s.graph]
  <2>1. child[<<b, s.graph.freq>>] = [draft |-> s.draft, rev |-> s.rev, graph |-> s.graph]
    BY <1>2, <1>4 DEF BatchStands
  <2>2. [draft |-> s.draft, rev |-> s.rev, graph |-> s.graph] \in ChildRow
    BY <1>1 DEF BatchRow, ChildRow
  <2>3. <<b, s.graph.freq>> \in Child
    BY <1>1 DEF Child
  <2> QED
    BY <2>1, <2>2, <2>3, RowsAreNotNull DEF Grows
<1> QED
  BY <1>1, <1>2, <1>3, <1>4 DEF BatchStands

LEMMA ChildStandsOn ==
  ASSUME IInv, DraftTypes', Grows, NEW c \in Child, child[c] # NULL
  PROVE  ChildStands(c)'
<1> DEFINE row == child[c]
           source == batch[c[1]]
<1>1. row \in ChildRow /\ row.draft \in Draft
  BY Rows DEF IInv, LaunchTypeOK, ChildRow
<1>2. ChildStands(c) /\ child'[c] = row /\ source # NULL
  BY DEF IInv, Grows, ChildStands
<1>3. c[1] \in Batch /\ c \in Draft
  BY ChildPair
<1>4. batch'[c[1]] = source /\ (status[c] # "absent" => status'[c] # "absent")
  BY <1>2, <1>3 DEF Grows
<1>5. Compiles(row.draft, row.rev, row.graph)'
  BY <1>1, <1>2, CompilesOn DEF IInv, LaunchTypeOK, ChildStands
<1> QED
  BY <1>2, <1>4, <1>5 DEF ChildStands

LEMMA CommandStandsOn ==
  ASSUME IInv, DraftTypes', Grows, NEW c \in Child, retuned'[c] = retuned[c], built'[c] = built[c]
  PROVE  CommandStands(c)'
<1>1. CommandStands(c) /\ c \in Draft
  BY ChildPair DEF IInv
<1>2. Rev(c) \in Nat /\ Rev(c)' \in Nat
  BY <1>1, Revisions, DraftTypes' DEF Rev, DraftTypes, IInv, LaunchTypeOK
<1>3. /\ Rev(c) <= Rev(c)' /\ \A n \in 1..Rev(c) : revision'[c][n] = revision[c][n]
      /\ status[c] # "absent" => status'[c] # "absent"
  BY <1>1 DEF Grows
<1> QED
  BY <1>1, <1>2, <1>3 DEF CommandStands, Compiles

LEMMA SuiteStandsOn ==
  ASSUME IInv, Grows, NEW c \in Child, suite'[c] = suite[c], c \in recorded' => c \in recorded
  PROVE  SuiteStands(c)'
BY DEF IInv, Grows, SuiteStands

\* A clone to which no revision is added.
LEMMA CloneStandsOn ==
  ASSUME IInv, DraftTypes', Grows, NEW c \in Child, status[c] # "absent", revision'[c] = revision[c]
  PROVE  CloneStands(c)'
<1> DEFINE source == batch[c[1]]
<1>1. CloneStands(c) /\ source # NULL /\ c[1] \in Batch
  BY ChildPair DEF IInv, CloneStands
<1>2. batch'[c[1]] = source
  BY <1>1 DEF Grows
<1>3. source \in BatchRow /\ source.draft \in Draft
  BY <1>1, Rows DEF IInv, LaunchTypeOK, BatchRow
<1>4. Compiles(source.draft, source.rev, source.graph)
  BY <1>1 DEF IInv, BatchStands
<1>5. revision'[source.draft][source.rev] = revision[source.draft][source.rev]
  BY <1>3, <1>4, CompilesOn DEF IInv, LaunchTypeOK
<1>6. CloneOf(c[1])' = CloneOf(c[1])
  BY <1>2, <1>5 DEF CloneOf, Source
<1> QED
  BY <1>1, <1>2, <1>6 DEF CloneStands, Rev

\* What a thread has in its hands stays there, whatever others do.
LEMMA JobStandsOn ==
  ASSUME IInv, DraftTypes', Grows, NEW j \in {Idle} \cup Jobs, JobStands(j)
  PROVE  JobStands(j)'
<1>1. CASE j.at = "idle"
  BY <1>1 DEF JobStands
<1>2. CASE j.at # "idle"
  <2>1. j \in Jobs /\ j.batch \in Batch /\ batch[j.batch] # NULL
    BY <1>2 DEF Idle, Jobs, JobStands
  <2>2. batch'[j.batch] # NULL /\ (SourceDone(j.batch) => SourceDone(j.batch)')
    BY <2>1 DEF Grows
  <2>3. ASSUME j.at \in {"retune", "compile", "bind"}
        PROVE  HasClone(j)'
    <3>1. HasClone(j) /\ j.child \in Child
      BY <2>1, <2>3, AsksFrequencies DEF JobStands, HasClone
    <3>2. Rev(j.child) \in Nat /\ Rev(j.child)' \in Nat /\ j.child \in Draft
      BY <3>1, Revisions, ChildPair, DraftTypes' DEF Rev, DraftTypes, IInv, LaunchTypeOK
    <3>3. /\ Rev(j.child) <= Rev(j.child)'
          /\ \A n \in 1..Rev(j.child) : revision'[j.child][n] = revision[j.child][n]
          /\ status[j.child] # "absent" => status'[j.child] # "absent"
          /\ built[j.child] # NULL => built'[j.child] = built[j.child]
      BY <3>1, <3>2 DEF Grows
    <3> QED
      BY <3>1, <3>2, <3>3 DEF HasClone
  <2>4. ASSUME j.at \in {"submit", "record", "lockChild"}
        PROVE  AllBound(j.batch)' /\ HasTodo(j)'
    <3>1. AllBound(j.batch) /\ HasTodo(j)
      BY <2>4 DEF JobStands
    <3>2. First(j.todo) \in Asks[j.batch]
      BY <2>1, <3>1, AsksFrequencies DEF HasTodo, First, Frequency
    <3>3. \A f \in Asks[j.batch] : <<j.batch, f>> \in Child
      BY <2>1, AsksFrequencies
    <3> QED
      BY <3>1, <3>2, <3>3 DEF Grows, AllBound, HasTodo
  <2>5. AllRecorded(j.batch) => AllRecorded(j.batch)'
    BY DEF AllRecorded, Grows
  <2> QED
    BY <2>1, <2>2, <2>3, <2>4, <2>5 DEF JobStands
<1> QED
  BY <1>1, <1>2

LEMMA CompletionStandsOn ==
  ASSUME IInv, Grows, NEW b \in complete
  PROVE  CompletionStands(b)'
<1>1. b \in Batch /\ CompletionStands(b)
  BY DEF IInv, LaunchTypeOK, BatchTypes
<1> QED
  BY <1>1 DEF CompletionStands, Grows, AllRecorded

\* A clone whose next revision keeps the frequency or the study, or is empty.
LEMMA CloneStandsAppended ==
  ASSUME IInv, DraftTypes', Grows, NEW c \in Child, status[c] # "absent",
         NEW r \in Revision, revision'[c] = Append(revision[c], r),
         r.round = Current(c).round \/ r.round[1] = c,
         r.freq = Current(c).freq \/ r.study \in {Current(c).study, Empty}
  PROVE  CloneStands(c)'
<1> DEFINE source == batch[c[1]]
<1>1. CloneStands(c) /\ source # NULL /\ c[1] \in Batch /\ c \in Draft
  BY ChildPair DEF IInv, CloneStands
<1>2. batch'[c[1]] = source
  BY <1>1 DEF Grows
<1>3. source \in BatchRow /\ source.draft \in Draft
  BY <1>1, Rows DEF IInv, LaunchTypeOK, BatchRow
<1>4. Compiles(source.draft, source.rev, source.graph)
  BY <1>1 DEF IInv, BatchStands
<1>5. revision'[source.draft][source.rev] = revision[source.draft][source.rev]
  BY <1>3, <1>4, CompilesOn DEF IInv, LaunchTypeOK
<1>6. CloneOf(c[1])' = CloneOf(c[1])
  BY <1>2, <1>5 DEF CloneOf, Source
<1>7. /\ Rev(c) \in Nat /\ Rev(c) >= 1
      /\ Rev(c)' = Rev(c) + 1 /\ revision'[c][Rev(c) + 1] = r
      /\ \A n \in 1..Rev(c) : revision'[c][n] = revision[c][n]
  <2>1. revision[c] \in Seq(Revision) /\ Rev(c) \in Nat /\ Rev(c) >= 1
    BY <1>1, Revisions DEF IInv, LaunchTypeOK
  <2> QED
    BY <2>1 DEF Rev
<1>8. ASSUME NEW n \in 1..Rev(c)'
      PROVE  revision'[c][n].round = source.round \/ revision'[c][n].round[1] = c
  <2>1. Current(c).round = source.round \/ Current(c).round[1] = c
    BY <1>1, <1>7 DEF CloneStands, Current
  <2>2. CASE n = Rev(c) + 1
    BY <1>7, <2>1, <2>2
  <2>3. CASE n # Rev(c) + 1
    <3>1. n \in 1..Rev(c)
      BY <1>7, <2>3
    <3> QED
      BY <1>1, <1>7, <3>1 DEF CloneStands
  <2> QED
    BY <2>2, <2>3
<1>9. Rev(c)' >= 2 => \/ revision'[c][2].freq = source.graph.freq
                      \/ revision'[c][2].study \in {source.graph.study, Empty}
  <2>1. CASE Rev(c) >= 2
    <3>1. 2 \in 1..Rev(c)
      BY <1>7, <2>1
    <3> QED
      BY <1>1, <1>7, <2>1, <3>1 DEF CloneStands
  <2>2. CASE Rev(c) = 1
    <3>1. Current(c) = CloneOf(c[1])
      BY <1>1, <2>2 DEF CloneStands, Current
    <3>3. revision'[c][2] = r
      <4>1. Rev(c) + 1 = 2
        BY <2>2
      <4> QED
        BY <1>7, <4>1
    <3>2. Current(c).freq = source.graph.freq /\ Current(c).study = source.graph.study
      BY <1>4, <3>1 DEF CloneOf, Source, Compiles, GraphOf
    <3> QED
      BY <3>2, <3>3
  <2>3. Rev(c) >= 2 \/ Rev(c) = 1
    BY <1>7
  <2> QED
    BY <2>1, <2>2, <2>3
<1>10. revision'[c][1] = CloneOf(c[1])'
  <2>1. 1 \in 1..Rev(c) /\ revision[c][1] = CloneOf(c[1])
    BY <1>1, <1>7 DEF CloneStands
  <2> QED
    BY <1>6, <1>7, <2>1
<1> QED
  BY <1>1, <1>2, <1>8, <1>9, <1>10 DEF CloneStands

-----------------------------------------------------------------------------
(* What steps do to drafts *)

\* Drafts that only get longer.
Longer ==
  \A d \in Draft : /\ Rev(d) <= Rev(d)'
                   /\ \A n \in 1..Rev(d) : revision'[d][n] = revision[d][n]
                   /\ status[d] # "absent" => status'[d] # "absent"
                   /\ status[d] = "archived" => status'[d] = "archived" \/ Rev(d)' > Rev(d)

\* With them, and with rows written once, all tables grow.
LEMMA GrowsIf ==
  ASSUME IInv, DraftTypes', Longer,
         \A b \in Batch : batch[b] # NULL => batch'[b] = batch[b],
         \A c \in Child : /\ child[c] # NULL => child'[c] = child[c]
                          /\ suite[c] # NULL => suite'[c] = suite[c]
                          /\ retuned[c] # NULL => retuned'[c] = retuned[c]
                          /\ built[c] # NULL => built'[c] = built[c],
         recorded \subseteq recorded'
  PROVE  Grows
<1>1. ASSUME NEW b \in Batch, batch[b] # NULL, SourceDone(b)
      PROVE  SourceDone(b)'
  <2>1. batch[b] \in BatchRow /\ batch[b].draft \in Draft /\ batch[b].rev \in Nat
    BY <1>1, Rows DEF IInv, LaunchTypeOK, BatchRow
  <2>2. batch[b].rev \in 1..Rev(batch[b].draft) /\ Rev(batch[b].draft) \in Nat
    BY <1>1, <2>1, Revisions DEF IInv, BatchStands, Compiles, LaunchTypeOK
  <2>3. batch'[b] = batch[b] /\ Rev(batch[b].draft)' \in Nat
    BY <1>1, <2>1, DraftTypes' DEF DraftTypes, Rev
  <2> QED
    BY <1>1, <2>1, <2>2, <2>3 DEF SourceDone, Source, Longer
<1> QED
  BY <1>1 DEF Grows, Longer

\* Draft d gets revision r.
LEMMA InsertedRevision ==
  ASSUME IInv, NEW d \in Draft, status[d] # "absent", NEW r \in Revision, Insert(d, r),
         status' \in {status, [status EXCEPT ![d] = "draft"]}, active' \in SUBSET Round
  PROVE  /\ DraftTypes' /\ Longer /\ CompiledIsCurrent'
         /\ Rev(d)' = Rev(d) + 1 /\ Current(d)' = r /\ revision'[d] = Append(revision[d], r)
         /\ \A e \in Draft \ {d} : revision'[e] = revision[e] /\ status'[e] = status[e]
<1>1. DraftTypes /\ CompiledIsCurrent
  BY DEF IInv, LaunchTypeOK
<1>2. \A e \in Draft : revision[e] \in Seq(Revision) /\ Rev(e) \in Nat
  BY <1>1, Revisions
<1>3. /\ revision'[d] = Append(revision[d], r)
      /\ \A e \in Draft \ {d} : revision'[e] = revision[e]
  BY <1>1 DEF Insert, DraftTypes
<1>4. /\ Rev(d)' = Rev(d) + 1 /\ Current(d)' = r
      /\ \A n \in 1..Rev(d) : revision'[d][n] = revision[d][n]
  BY <1>2, <1>3 DEF Rev, Current
<1>5. /\ \A e \in Draft \ {d} : status'[e] = status[e]
      /\ status'[d] \in {status[d], "draft"}
      /\ status' \in [Draft -> {"absent", "draft", "archived"}]
  BY <1>1 DEF DraftTypes
<1>6. DraftTypes'
  <2>1. revision' \in [Draft -> Seq(Revision)]
    <3>1. Append(revision[d], r) \in Seq(Revision)
      BY <1>2
    <3> QED
      BY <1>1, <3>1 DEF Insert, DraftTypes
  <2>2. compiled' \in [Draft -> Graph \cup {NULL}]
    BY <1>1 DEF Insert, DraftTypes, CompiledAfter
  <2>3. \A e \in Draft : (status'[e] = "absent") = (revision'[e] = <<>>)
    <3>1. Append(revision[d], r) # <<>>
      BY <1>2
    <3> QED
      BY <1>1, <1>3, <1>5, <3>1 DEF DraftTypes
  <2> QED
    BY <1>5, <2>1, <2>2, <2>3 DEF DraftTypes
<1>7. Longer
  BY <1>2, <1>3, <1>4, <1>5 DEF Longer, Rev
<1>8. CompiledIsCurrent'
  BY <1>1, <1>3 DEF CompiledIsCurrent, Insert, CompiledAfter, DraftTypes, Rev, Current
<1> QED
  BY <1>3, <1>4, <1>5, <1>6, <1>7, <1>8

\* Draft d begins with revision r.
LEMMA OpenedDraft ==
  ASSUME IInv, NEW d \in Draft, status[d] = "absent", NEW r \in Revision,
         revision' = [revision EXCEPT ![d] = <<r>>], status' = [status EXCEPT ![d] = "draft"],
         compiled' = compiled, active' \in SUBSET Round
  PROVE  /\ DraftTypes' /\ Longer /\ CompiledIsCurrent'
         /\ Rev(d)' = 1 /\ Current(d)' = r /\ revision'[d] = <<r>> /\ status'[d] = "draft"
         /\ \A e \in Draft \ {d} : revision'[e] = revision[e] /\ status'[e] = status[e]
<1>1. DraftTypes /\ CompiledIsCurrent
  BY DEF IInv, LaunchTypeOK
<1>2. \A e \in Draft : revision[e] \in Seq(Revision) /\ Rev(e) \in Nat
  BY <1>1, Revisions
<1>3. revision[d] = <<>> /\ Rev(d) = 0
  BY <1>1, Revisions
<1>4. /\ revision'[d] = <<r>> /\ status'[d] = "draft"
      /\ \A e \in Draft \ {d} : revision'[e] = revision[e] /\ status'[e] = status[e]
  BY <1>1 DEF DraftTypes
<1>5. Rev(d)' = 1 /\ Current(d)' = r
  <2>1. Len(<<r>>) = 1 /\ <<r>>[1] = r
    OBVIOUS
  <2> QED
    BY <1>4, <2>1 DEF Rev, Current
<1>6. DraftTypes'
  <2>1. <<r>> \in Seq(Revision) /\ <<r>> # <<>>
    OBVIOUS
  <2> QED
    BY <1>1, <1>4, <2>1 DEF DraftTypes
<1>7. Longer
  BY <1>2, <1>3, <1>4, <1>5 DEF Longer, Rev
<1>8. CompiledIsCurrent'
  <2>1. compiled[d] = NULL
    BY <1>1, <1>3 DEF CompiledIsCurrent
  <2> QED
    BY <1>1, <1>4, <2>1 DEF CompiledIsCurrent, Rev, Current
<1> QED
  BY <1>4, <1>5, <1>6, <1>7, <1>8

\* A reset of a round stays visible.
LEMMA TakenOverOn ==
  ASSUME DraftTypes, DraftTypes', Longer, NEW r, TakenOver(r)
  PROVE  \E d \in Draft \ {r[1]} : \E n \in 1..Rev(d)' : revision'[d][n].round = <<d, r[2] + 1>>
<1>1. PICK d \in Draft \ {r[1]} : \E n \in 1..Rev(d) : revision[d][n].round = <<d, r[2] + 1>>
  BY DEF TakenOver
<1>2. PICK n \in 1..Rev(d) : revision[d][n].round = <<d, r[2] + 1>>
  BY <1>1
<1>3. Rev(d) \in Nat /\ Rev(d)' \in Nat
  BY Revisions, DraftTypes' DEF Rev, DraftTypes
<1>4. n \in 1..Rev(d)' /\ revision'[d][n].round = <<d, r[2] + 1>>
  BY <1>2, <1>3 DEF Longer
<1> QED
  BY <1>1, <1>4

\* A step after which a root's round is active, or is the same as before and was
\* closed by the reset of another draft if it was closed.
LEMMA ResearchGoesOnIf ==
  ASSUME IInv, DraftTypes', Longer,
         \A d \in Root : status'[d] # "absent" =>
           \/ Current(d)'.round \in active'
           \/ /\ status[d] # "absent" /\ Current(d)'.round = Current(d).round
              /\ \/ Current(d).round \notin active \/ Current(d).round \in active'
                 \/ \E e \in Draft \ {d} :
                      Rev(e)' >= 1 /\ Current(e)'.round = <<e, Current(d).round[2] + 1>>
  PROVE  ResearchGoesOn'
<1> SUFFICES ASSUME NEW d \in Root, status'[d] # "absent", Current(d)'.round \notin active'
             PROVE  TakenOver(Current(d).round)'
  BY DEF ResearchGoesOn
<1> DEFINE r == Current(d).round
<1>1. /\ status[d] # "absent" /\ Current(d)'.round = r
      /\ \/ r \notin active
         \/ \E e \in Draft \ {d} : Rev(e)' >= 1 /\ Current(e)'.round = <<e, r[2] + 1>>
  OBVIOUS
<1>2. d \in Draft /\ r[1] = d
  <2>1. Rev(d) \in 1..Rev(d)
    BY <1>1, Revisions DEF IInv, LaunchTypeOK, Draft
  <2> QED
    BY <2>1 DEF IInv, RootRounds, Current, Draft
<1>3. \E e \in Draft \ {d} : \E n \in 1..Rev(e)' : revision'[e][n].round = <<e, r[2] + 1>>
  <2>1. CASE r \notin active
    <3>1. TakenOver(r)
      BY <1>1, <2>1 DEF IInv, ResearchGoesOn
    <3> QED
      BY <1>2, <3>1, TakenOverOn DEF IInv, LaunchTypeOK
  <2>2. ASSUME NEW e \in Draft \ {d}, Rev(e)' >= 1, Current(e)'.round = <<e, r[2] + 1>>
        PROVE  \E n \in 1..Rev(e)' : revision'[e][n].round = <<e, r[2] + 1>>
    <3>1. Rev(e)' \in 1..Rev(e)'
      BY <2>2, DraftTypes' DEF DraftTypes, Rev
    <3> QED
      BY <2>2, <3>1 DEF Current
  <2> QED
    BY <1>1, <2>1, <2>2
<1> QED
  BY <1>1, <1>2, <1>3 DEF TakenOver

\* No revision is added and no round changes; drafts may be compiled or locked.
LEMMA KeptRevisions ==
  ASSUME IInv, DraftTypes', UNCHANGED <<revision, active>>,
         \A d \in Draft : status'[d] = status[d] \/ (status[d] # "absent" /\ status'[d] = "archived")
  PROVE  /\ Longer /\ RootRounds' /\ ResearchGoesOn'
         /\ Grows => \A c \in Child : CloneStands(c)'
<1>1. \A d \in Draft : Rev(d) \in Nat /\ Rev(d)' = Rev(d) /\ Current(d)' = Current(d)
  BY Revisions DEF IInv, LaunchTypeOK, Rev, Current
<1>2. Longer
  BY <1>1 DEF Longer
<1>3. RootRounds'
  BY DEF IInv, RootRounds, Rev
<1>4. ResearchGoesOn'
  <2>1. \A d \in Root : d \in Draft
    BY DEF Draft
  <2> QED
    BY <1>1, <1>2, <2>1, ResearchGoesOnIf
<1>5. ASSUME Grows, NEW c \in Child
      PROVE  CloneStands(c)'
  <2>1. c \in Draft
    BY ChildPair
  <2>2. CASE status[c] # "absent"
    BY <1>5, <2>2, CloneStandsOn
  <2>3. CASE status[c] = "absent"
    BY <2>1, <2>3 DEF CloneStands
  <2> QED
    BY <2>2, <2>3
<1> QED
  BY <1>2, <1>3, <1>4, <1>5

\* No draft changes at all.
LEMMA SameDrafts ==
  ASSUME IInv, UNCHANGED draftVars
  PROVE  /\ DraftTypes' /\ Longer /\ CompiledIsCurrent' /\ RootRounds' /\ ResearchGoesOn'
         /\ Grows => \A c \in Child : CloneStands(c)'
<1>1. UNCHANGED <<status, revision, compiled, active>>
  BY DEF draftVars
<1>2. DraftTypes' /\ CompiledIsCurrent'
  BY <1>1 DEF IInv, LaunchTypeOK, DraftTypes, CompiledIsCurrent, Rev, Current
<1> QED
  BY <1>1, <1>2, KeptRevisions

-----------------------------------------------------------------------------
(* One step keeps the invariant *)

\* It is enough to look at the rows a step writes.
LEMMA Together ==
  ASSUME IInv, LaunchTypeOK', Grows, CompiledIsCurrent', RootRounds', ResearchGoesOn',
         \A b \in Batch : batch[b] = NULL => BatchStands(b)',
         \A c \in Child : child[c] = NULL => ChildStands(c)',
         \A c \in Child : CloneStands(c)',
         \A c \in Child : (retuned'[c] = retuned[c] /\ built'[c] = built[c]) \/ CommandStands(c)',
         \A c \in Child : (suite'[c] = suite[c] /\ (c \in recorded' => c \in recorded)) \/ SuiteStands(c)',
         \A t \in Request : job'[t] = job[t] \/ JobStands(job[t])',
         \A b \in complete' : b \in complete \/ CompletionStands(b)'
  PROVE  IInv'
<1>1. DraftTypes'
  BY DEF LaunchTypeOK
<1>2. \A b \in Batch : BatchStands(b)'
  BY <1>1, BatchStandsOn
<1>3. \A c \in Child : ChildStands(c)' /\ CommandStands(c)' /\ SuiteStands(c)'
  BY <1>1, ChildStandsOn, CommandStandsOn, SuiteStandsOn
<1>4. ASSUME NEW t \in Request
      PROVE  JobStands(job[t])'
  <2>1. CASE job'[t] = job[t]
    <3>1. PICK j \in {Idle} \cup Jobs : j = job[t] /\ JobStands(j)
      BY DEF IInv, LaunchTypeOK, CommandTypes
    <3>2. JobStands(j)'
      BY <1>1, <3>1, JobStandsOn
    <3> QED
      BY <2>1, <3>1, <3>2 DEF JobStands, HasClone, HasTodo
  <2> QED
    BY <2>1
<1>5. \A b \in complete' : CompletionStands(b)'
  BY CompletionStandsOn
<1> QED
  BY <1>2, <1>3, <1>4, <1>5 DEF IInv

\* A step of the user on a draft: no row of a batch is written, no thread goes on.
LEMMA DraftStep ==
  ASSUME IInv, DraftTypes', Longer, CompiledIsCurrent', RootRounds', ResearchGoesOn',
         UNCHANGED <<commandVars, batchVars, job, faults>>,
         Grows => \A c \in Child : CloneStands(c)'
  PROVE  IInv'
<1>1. LaunchTypeOK'
  BY DEF IInv, LaunchTypeOK, BatchTypes, CommandTypes, commandVars, batchVars
<1>2. Grows
  BY GrowsIf DEF commandVars, batchVars
<1>3. /\ \A b \in Batch : batch[b] = NULL => BatchStands(b)'
      /\ \A c \in Child : child[c] = NULL => ChildStands(c)'
  BY DEF BatchStands, ChildStands, batchVars
<1> QED
  BY <1>1, <1>2, <1>3, Together DEF commandVars, batchVars

LEMMA CreateKeeps ==
  ASSUME IInv, NEW d \in Draft, Create(d)
  PROVE  IInv'
<1>1. d \in Root /\ status[d] = "absent" /\ d \notin Child
  BY LaunchAssumption DEF Create
<1>2. PICK f \in Frequency :
        revision' = [revision EXCEPT ![d] = <<[freq |-> f, study |-> Empty, round |-> <<d, 1>>]>>]
  BY DEF Create
<1> DEFINE r == [freq |-> f, study |-> Empty, round |-> <<d, 1>>]
<1>3. r \in Revision /\ <<d, 1>> \in Round /\ active' \in SUBSET Round
  BY DEF Create, Revision, Round, IInv, LaunchTypeOK, DraftTypes
<1>4. /\ DraftTypes' /\ Longer /\ CompiledIsCurrent'
      /\ Rev(d)' = 1 /\ Current(d)' = r /\ revision'[d] = <<r>> /\ status'[d] = "draft"
      /\ \A e \in Draft \ {d} : revision'[e] = revision[e] /\ status'[e] = status[e]
  BY <1>1, <1>2, <1>3, OpenedDraft DEF Create
<1>5. RootRounds'
  <2>1. ASSUME NEW e \in Root, NEW n \in 1..Rev(e)'
        PROVE  revision'[e][n].round[1] = e
    <3>1. CASE e = d
      BY <1>4, <2>1, <3>1 DEF Current
    <3>2. CASE e # d
      <4>1. revision'[e] = revision[e] /\ n \in 1..Rev(e)
        BY <1>4, <2>1, <3>2 DEF Draft, Rev
      <4> QED
        BY <4>1 DEF IInv, RootRounds
    <3> QED
      BY <3>1, <3>2
  <2> QED
    BY <2>1 DEF RootRounds
<1>6. ResearchGoesOn'
  <2>1. active' = active \cup {<<d, 1>>}
    BY DEF Create
  <2>2. \A e \in Root \ {d} : Current(e)' = Current(e) /\ status'[e] = status[e]
    BY <1>4 DEF Draft, Current, Rev
  <2>3. Current(d)'.round \in active'
    BY <1>4, <2>1
  <2> QED
    BY <1>4, <2>1, <2>2, <2>3, ResearchGoesOnIf
<1>7. ASSUME Grows, NEW c \in Child
      PROVE  CloneStands(c)'
  <2>1. c \in Draft /\ c # d
    BY <1>1, ChildPair
  <2>2. revision'[c] = revision[c] /\ status'[c] = status[c]
    BY <1>4, <2>1
  <2>3. CASE status[c] # "absent"
    BY <1>4, <1>7, <2>2, <2>3, CloneStandsOn
  <2>4. CASE status[c] = "absent"
    BY <2>2, <2>4 DEF CloneStands
  <2> QED
    BY <2>3, <2>4
<1> QED
  BY <1>4, <1>5, <1>6, <1>7, DraftStep DEF Create

\* A draft gets a revision in its current round, or in one of its own.
LEMMA InsertKeepsRoots ==
  ASSUME IInv, NEW d \in Draft, status[d] # "absent", NEW r \in Revision,
         revision'[d] = Append(revision[d], r), Rev(d)' = Rev(d) + 1, Current(d)' = r,
         \A e \in Draft \ {d} : revision'[e] = revision[e],
         r.round = Current(d).round \/ r.round[1] = d
  PROVE  RootRounds'
<1> SUFFICES ASSUME NEW e \in Root, NEW n \in 1..Rev(e)'
             PROVE  revision'[e][n].round[1] = e
  BY DEF RootRounds
<1>1. e \in Draft /\ Rev(e) \in Nat /\ Rev(d) \in Nat /\ revision[d] \in Seq(Revision)
  BY Revisions DEF Draft, IInv, LaunchTypeOK
<1>2. CASE e # d
  <2>1. revision'[e] = revision[e] /\ n \in 1..Rev(e)
    BY <1>1, <1>2 DEF Rev
  <2> QED
    BY <2>1 DEF IInv, RootRounds
<1>3. CASE e = d /\ n = Rev(d) + 1
  <2>1. Rev(d) \in 1..Rev(d)
    BY Revisions DEF IInv, LaunchTypeOK
  <2>2. Current(d).round[1] = d
    BY <1>3, <2>1 DEF IInv, RootRounds, Current
  <2>3. revision'[e][n] = r
    BY <1>3 DEF Current
  <2> QED
    BY <1>3, <2>2, <2>3
<1>4. CASE e = d /\ n # Rev(d) + 1
  <2>1. n \in 1..Rev(d)
    BY <1>1, <1>4
  <2>2. revision'[d][n] = revision[d][n]
    BY <1>1, <2>1 DEF Rev
  <2> QED
    BY <1>4, <2>1, <2>2 DEF IInv, RootRounds
<1> QED
  BY <1>2, <1>3, <1>4

\* Drafts other than d are not touched: their clones still stand.
LEMMA OtherClones ==
  ASSUME IInv, DraftTypes', Grows, NEW d \in Draft,
         \A e \in Draft \ {d} : revision'[e] = revision[e] /\ status'[e] = status[e]
  PROVE  \A c \in Child \ {d} : CloneStands(c)'
<1> SUFFICES ASSUME NEW c \in Child \ {d} PROVE CloneStands(c)'
  OBVIOUS
<1>1. revision'[c] = revision[c] /\ status'[c] = status[c]
  BY ChildPair
<1>2. CASE status[c] # "absent"
  BY <1>1, <1>2, CloneStandsOn
<1>3. CASE status[c] = "absent"
  BY <1>1, <1>3 DEF CloneStands
<1> QED
  BY <1>2, <1>3

\* A revision that goes on in the round of the one before.
LEMMA EditedDraft ==
  ASSUME IInv, NEW d \in Draft, status[d] # "absent", NEW r \in Revision, Insert(d, r),
         r.round = Current(d).round, r.freq = Current(d).freq \/ r.study = Current(d).study,
         UNCHANGED <<status, active>>
  PROVE  /\ DraftTypes' /\ Longer /\ CompiledIsCurrent' /\ RootRounds' /\ ResearchGoesOn'
         /\ Grows => \A c \in Child : CloneStands(c)'
         /\ Rev(d)' = Rev(d) + 1 /\ Current(d)' = r
         /\ \A e \in Draft \ {d} : revision'[e] = revision[e]
<1>1. active' \in SUBSET Round
  BY DEF IInv, LaunchTypeOK, DraftTypes
<1>2. /\ DraftTypes' /\ Longer /\ CompiledIsCurrent'
      /\ Rev(d)' = Rev(d) + 1 /\ Current(d)' = r /\ revision'[d] = Append(revision[d], r)
      /\ \A e \in Draft \ {d} : revision'[e] = revision[e] /\ status'[e] = status[e]
  BY <1>1, InsertedRevision
<1>3. RootRounds'
  BY <1>2, InsertKeepsRoots
<1>4. ResearchGoesOn'
  <2>1. \A e \in Root \ {d} : Current(e)' = Current(e)
    BY <1>2 DEF Draft, Current, Rev
  <2>2. Current(d)'.round = Current(d).round
    BY <1>2
  <2> QED
    BY <1>2, <2>1, <2>2, ResearchGoesOnIf
<1>5. ASSUME Grows
      PROVE  \A c \in Child : CloneStands(c)'
  BY <1>2, <1>5, OtherClones, CloneStandsAppended
<1> QED
  BY <1>2, <1>3, <1>4, <1>5

LEMMA EditKeeps ==
  ASSUME IInv, NEW d \in Draft, Edit(d)
  PROVE  IInv'
<1>1. status[d] # "absent" /\ Current(d) \in Revision
  BY Revisions DEF Edit, Editable, IInv, LaunchTypeOK
<1>2. PICK r \in Revision :
        /\ Insert(d, r) /\ r.round = Current(d).round
        /\ r.freq = Current(d).freq \/ r.study = Current(d).study
  <2>1. CASE \E s \in Study \ {Current(d).study} : Insert(d, [Current(d) EXCEPT !.study = s])
    <3>1. PICK s \in Study : Insert(d, [Current(d) EXCEPT !.study = s])
      BY <2>1
    <3>2. [Current(d) EXCEPT !.study = s] \in Revision
      BY <1>1 DEF Revision
    <3> QED
      BY <1>1, <3>1, <3>2 DEF Revision
  <2>2. CASE \E f \in Frequency \ {Current(d).freq} : Insert(d, [Current(d) EXCEPT !.freq = f])
    <3>1. PICK f \in Frequency : Insert(d, [Current(d) EXCEPT !.freq = f])
      BY <2>2
    <3>2. [Current(d) EXCEPT !.freq = f] \in Revision
      BY <1>1 DEF Revision
    <3> QED
      BY <1>1, <3>1, <3>2 DEF Revision
  <2> QED
    BY <2>1, <2>2 DEF Edit
<1>3. UNCHANGED <<status, active>>
  BY DEF Edit
<1> QED
  BY <1>1, <1>2, <1>3, EditedDraft, DraftStep DEF Edit

LEMMA CompileKeeps ==
  ASSUME IInv, NEW d \in Draft, Compile(d)
  PROVE  IInv'
<1>1. status[d] # "absent" /\ Current(d) \in Revision /\ revision[d] # <<>>
  BY Revisions DEF Compile, Editable, IInv, LaunchTypeOK, DraftTypes
<1>2. GraphOf(Current(d)) \in Graph
  BY <1>1, RevisionFields DEF Compile
<1>3. compiled' = [compiled EXCEPT ![d] = GraphOf(Current(d))] /\ UNCHANGED <<status, revision, active>>
  BY DEF Compile
<1>4. DraftTypes'
  BY <1>2, <1>3 DEF IInv, LaunchTypeOK, DraftTypes
<1>5. CompiledIsCurrent'
  BY <1>1, <1>3 DEF IInv, LaunchTypeOK, DraftTypes, CompiledIsCurrent, Current, Rev
<1> QED
  BY <1>3, <1>4, <1>5, KeptRevisions, DraftStep DEF Compile

LEMMA CopyRevisionKeeps ==
  ASSUME IInv, NEW d \in Draft, NEW c \in Copy, CopyRevision(d, c)
  PROVE  IInv'
<1>1. c \in Draft /\ c \notin Root /\ c \notin Child /\ status[c] = "absent"
  BY LaunchAssumption DEF CopyRevision, Draft
<1>2. PICK n \in 1..Rev(d) : revision' = [revision EXCEPT ![c] = <<revision[d][n]>>]
  BY DEF CopyRevision
<1>3. revision[d][n] \in Revision /\ active' \in SUBSET Round
  BY Revisions DEF CopyRevision, IInv, LaunchTypeOK, DraftTypes
<1>4. /\ DraftTypes' /\ Longer /\ CompiledIsCurrent'
      /\ \A e \in Draft \ {c} : revision'[e] = revision[e] /\ status'[e] = status[e]
  BY <1>1, <1>2, <1>3, OpenedDraft DEF CopyRevision
<1>5. \A e \in Root : revision'[e] = revision[e] /\ status'[e] = status[e]
  BY <1>1, <1>4 DEF Draft
<1>6. RootRounds'
  BY <1>5 DEF IInv, RootRounds, Rev
<1>7. ResearchGoesOn'
  <2>1. \A e \in Root : Current(e)' = Current(e) /\ active' = active
    BY <1>5 DEF CopyRevision, Current, Rev
  <2> QED
    BY <1>4, <1>5, <2>1, ResearchGoesOnIf
<1>8. ASSUME Grows
      PROVE  \A e \in Child : CloneStands(e)'
  BY <1>1, <1>4, <1>8, OtherClones
<1> QED
  BY <1>4, <1>6, <1>7, <1>8, DraftStep DEF CopyRevision

LEMMA ResetKeeps ==
  ASSUME IInv, NEW d \in Draft, Reset(d)
  PROVE  IInv'
<1> DEFINE q == Current(d).round
           r == [freq |-> "weekly", study |-> Empty, round |-> RoundAfter(d)]
<1>1. status[d] # "absent" /\ Current(d) \in Revision
  BY Revisions DEF Reset, IInv, LaunchTypeOK
<1>2. RoundAfter(d) = <<d, q[2] + 1>> /\ q[2] \in Nat \ {0} /\ RoundAfter(d) \in Round
  <2>1. q[2] \in Nat \ {0}
    BY <1>1, RevisionFields
  <2> QED
    BY <2>1 DEF RoundAfter, Round
<1>3. active' = (active \ {q}) \cup {<<d, q[2] + 1>>}
  BY DEF Reset
<1>4. r \in Revision /\ active' \in SUBSET Round
  BY <1>2, <1>3 DEF Revision, Frequency, IInv, LaunchTypeOK, DraftTypes
<1>5. /\ DraftTypes' /\ Longer /\ CompiledIsCurrent'
      /\ Rev(d)' = Rev(d) + 1 /\ Current(d)' = r /\ revision'[d] = Append(revision[d], r)
      /\ \A e \in Draft \ {d} : revision'[e] = revision[e] /\ status'[e] = status[e]
  BY <1>1, <1>4, InsertedRevision DEF Reset
<1>6. RootRounds'
  <2>1. r.round[1] = d
    BY <1>2
  <2> QED
    BY <1>1, <1>4, <1>5, <2>1, InsertKeepsRoots
<1>7. ResearchGoesOn'
  <2>1. Current(d)'.round = <<d, q[2] + 1>> /\ Rev(d)' >= 1
    <3>1. Rev(d) \in Nat
      BY Revisions DEF IInv, LaunchTypeOK
    <3> QED
      BY <1>2, <1>5, <3>1
  <2>2. Current(d)'.round \in active'
    BY <1>3, <2>1
  <2>3. ASSUME NEW e \in Root, e # d, status'[e] # "absent"
        PROVE  /\ status[e] # "absent" /\ Current(e)'.round = Current(e).round
               /\ \/ Current(e).round \notin active \/ Current(e).round \in active'
                  \/ \E x \in Draft \ {e} : Rev(x)' >= 1 /\ Current(x)'.round = <<x, Current(e).round[2] + 1>>
    <3>1. e \in Draft /\ status[e] # "absent" /\ Current(e)' = Current(e)
      BY <1>5, <2>3 DEF Draft, Current, Rev
    <3>2. CASE Current(e).round = q
      BY <2>1, <2>3, <3>1, <3>2
    <3>3. CASE Current(e).round # q
      BY <1>3, <3>1, <3>3
    <3> QED
      BY <3>1, <3>2, <3>3
  <2> QED
    BY <1>5, <2>2, <2>3, ResearchGoesOnIf
<1>8. ASSUME Grows
      PROVE  \A c \in Child : CloneStands(c)'
  <2>1. r.round[1] = d /\ r.study = Empty
    BY <1>2
  <2> QED
    BY <1>1, <1>4, <1>5, <1>8, <2>1, OtherClones, CloneStandsAppended
<1> QED
  BY <1>5, <1>6, <1>7, <1>8, DraftStep DEF Reset

\* A thread at work has a batch that exists.
LEMMA AtWork ==
  ASSUME IInv, NEW t \in Request, ~At(t, "idle")
  PROVE  /\ job[t] \in Jobs /\ JobStands(job[t])
         /\ job[t].batch \in Batch /\ batch[job[t].batch] # NULL
         /\ batch[job[t].batch] \in BatchRow /\ Source(job[t].batch) \in Draft
         /\ BatchStands(job[t].batch)
<1>1. job[t] \in Jobs /\ JobStands(job[t])
  BY DEF IInv, LaunchTypeOK, CommandTypes, At, Idle
<1>2. job[t].batch \in Batch /\ batch[job[t].batch] # NULL
  BY <1>1 DEF Jobs, JobStands, At
<1>3. batch[job[t].batch] \in BatchRow
  BY <1>2, Rows DEF IInv, LaunchTypeOK
<1> QED
  BY <1>1, <1>2, <1>3 DEF IInv, Source, BatchRow

\* A thread that prepares a clone.
LEMMA AtClone ==
  ASSUME IInv, NEW t \in Request, job[t].at \in {"retune", "compile", "bind"}
  PROVE  /\ job[t].child \in Child /\ job[t].child[1] = job[t].batch
         /\ job[t].child[2] \in Asks[job[t].batch] /\ job[t].child \in Draft
         /\ job[t].rev \in Nat \ {0} /\ HasClone(job[t])
<1>1. job[t] \in Jobs /\ JobStands(job[t]) /\ job[t].batch \in Batch
  BY AtWork DEF At
<1>2. HasClone(job[t])
  BY <1>1 DEF JobStands
<1>3. job[t].child \in Child
  BY <1>1, <1>2, AsksFrequencies DEF HasClone
<1>4. Rev(job[t].child) \in Nat
  BY <1>3, ChildPair, Revisions DEF IInv, LaunchTypeOK
<1> QED
  BY <1>1, <1>2, <1>3, <1>4, ChildPair DEF HasClone

\* A thread that submits suites.
LEMMA AtSuite ==
  ASSUME IInv, NEW t \in Request, job[t].at \in {"submit", "record", "lockChild"}
  PROVE  /\ AllBound(job[t].batch) /\ HasTodo(job[t])
         /\ First(job[t].todo) \in job[t].todo /\ ChildOf(t) \in Child
         /\ child[ChildOf(t)] \in ChildRow /\ ChildStands(ChildOf(t))
<1>1. job[t] \in Jobs /\ JobStands(job[t]) /\ job[t].batch \in Batch
  BY AtWork DEF At
<1>2. AllBound(job[t].batch) /\ HasTodo(job[t])
  BY <1>1 DEF JobStands
<1>3. First(job[t].todo) \in job[t].todo
  BY <1>1, <1>2, AsksFrequencies DEF HasTodo, First, Frequency
<1>4. First(job[t].todo) \in Asks[job[t].batch] /\ ChildOf(t) \in Child
  BY <1>1, <1>2, <1>3, AsksFrequencies DEF HasTodo, ChildOf
<1>5. child[ChildOf(t)] # NULL
  BY <1>2, <1>4 DEF AllBound, ChildOf
<1> QED
  BY <1>2, <1>3, <1>4, <1>5, Rows DEF IInv, LaunchTypeOK

\* Only thread t goes on.
LEMMA Gone ==
  ASSUME IInv, NEW t \in Request, NEW j \in {Idle} \cup Jobs, Goto(t, j)
  PROVE  /\ job' \in [Request -> {Idle} \cup Jobs] /\ job'[t] = j
         /\ \A u \in Request \ {t} : job'[u] = job[u]
BY DEF IInv, LaunchTypeOK, CommandTypes, Goto

\* A request that ends.
LEMMA IdleStands ==
  ASSUME NEW t \in Request, job'[t] = Idle
  PROVE  JobStands(job[t])'
BY DEF JobStands, Idle

LEMMA LaunchKeeps ==
  ASSUME IInv, NEW t \in Request, NEW b \in Batch, NEW d \in Draft, Launch(t, b, d)
  PROVE  IInv'
<1> DEFINE row == [draft |-> d, rev |-> Rev(d), graph |-> compiled[d], round |-> Current(d).round]
           bound == [draft |-> d, rev |-> Rev(d), graph |-> compiled[d]]
           j == [at |-> "prepare", batch |-> b]
<1>1. /\ DraftTypes' /\ Longer /\ CompiledIsCurrent' /\ RootRounds' /\ ResearchGoesOn'
      /\ Grows => \A c \in Child : CloneStands(c)'
  BY SameDrafts DEF Launch
<1>2. batch[b] = NULL /\ status[d] = "draft" /\ compiled[d] # NULL
  BY DEF Launch
<1>3. /\ Rev(d) \in Nat \ {0} /\ Current(d) \in Revision /\ Current(d).round \in Round
      /\ Compiles(d, Rev(d), compiled[d]) /\ compiled[d] \in Graph
  <2>1. Rev(d) \in 1..Rev(d) /\ Rev(d) \in Nat \ {0} /\ Current(d) \in Revision
    BY <1>2, Revisions DEF IInv, LaunchTypeOK
  <2>2. compiled[d] = GraphOf(Current(d)) /\ compiled[d] \in Graph
    BY <1>2 DEF IInv, CompiledIsCurrent, LaunchTypeOK, DraftTypes
  <2> QED
    BY <2>1, <2>2, RevisionFields DEF Compiles, Current
<1>4. row \in BatchRow /\ bound \in ChildRow /\ row # NULL /\ bound # NULL
  <2>1. row \in BatchRow /\ bound \in ChildRow
    BY <1>3 DEF BatchRow, ChildRow
  <2> QED
    BY <2>1, RowsAreNotNull
<1>5. /\ batch' = [batch EXCEPT ![b] = row] /\ batch'[b] = row
      /\ \A e \in Batch : batch[e] # NULL => batch'[e] = batch[e]
  BY <1>2 DEF Launch, IInv, LaunchTypeOK, BatchTypes
<1>6. \A c \in Child : child'[c] = IF c[1] = b /\ c[2] \in Asks[b] /\ c[2] = compiled[d].freq
                                   THEN bound ELSE child[c]
  BY DEF Launch
<1>7. \A c \in Child : child[c] # NULL => c[1] # b /\ child'[c] = child[c]
  BY <1>2, <1>6 DEF IInv, ChildStands
<1>8. j \in Jobs /\ job' \in [Request -> {Idle} \cup Jobs] /\ job'[t] = j
      /\ \A u \in Request \ {t} : job'[u] = job[u]
  <2>1. j \in Jobs
    BY DEF Jobs
  <2> QED
    BY <2>1, Gone DEF Launch
<1>9. Grows
  BY <1>1, <1>5, <1>7, GrowsIf DEF Launch, commandVars
<1>10. LaunchTypeOK'
  <2>1. batch' \in [Batch -> {NULL} \cup BatchRow]
    BY <1>4, <1>5 DEF IInv, LaunchTypeOK, BatchTypes
  <2>2. child' \in [Child -> {NULL} \cup ChildRow]
    BY <1>4 DEF Launch, IInv, LaunchTypeOK, BatchTypes
  <2> QED
    BY <1>1, <1>8, <2>1, <2>2 DEF Launch, IInv, LaunchTypeOK, BatchTypes, CommandTypes, commandVars
<1>11. Compiles(d, Rev(d), compiled[d])' /\ Rev(d)' = Rev(d) /\ compiled' = compiled /\ revision' = revision
  BY <1>3 DEF Launch, draftVars, Compiles, Rev
<1>12. BatchStands(b)'
  <2>1. row.graph.freq \in Asks[b] => child'[<<b, row.graph.freq>>] = bound
    <3>1. <<b, compiled[d].freq>> \in Child
      BY <1>3 DEF Graph, Child
    <3> QED
      BY <1>6, <3>1
  <2> QED
    BY <1>5, <1>11, <2>1 DEF BatchStands, Compiles, Current, Rev
<1>13. ASSUME NEW e \in Batch, batch[e] = NULL
       PROVE  BatchStands(e)'
  <2>1. e # b => batch'[e] = NULL
    BY <1>5, <1>13 DEF IInv, LaunchTypeOK, BatchTypes
  <2> QED
    BY <1>12, <2>1 DEF BatchStands
<1>14. ASSUME NEW c \in Child, child[c] = NULL
       PROVE  ChildStands(c)'
  <2>1. CASE c[1] = b /\ c[2] = compiled[d].freq /\ c[2] \in Asks[b]
    <3>1. child'[c] = bound /\ batch'[c[1]] = row
      BY <1>5, <1>6, <2>1
    <3> QED
      BY <1>4, <1>11, <2>1, <3>1 DEF ChildStands, Compiles
  <2>2. CASE ~(c[1] = b /\ c[2] = compiled[d].freq /\ c[2] \in Asks[b])
    BY <1>6, <1>14, <2>2 DEF ChildStands
  <2> QED
    BY <2>1, <2>2
<1>15. JobStands(job[t])'
  BY <1>4, <1>5, <1>8 DEF JobStands
<1> QED
  BY <1>1, <1>8, <1>9, <1>10, <1>13, <1>14, <1>15, Together DEF Launch, commandVars

\* A step of a thread that writes nothing but what the thread does.
LEMMA ThreadOnly ==
  ASSUME IInv, NEW t \in Request, NEW j \in {Idle} \cup Jobs, Goto(t, j),
         UNCHANGED <<draftVars, commandVars, batchVars>>, faults' \in Nat, JobStands(job[t])'
  PROVE  IInv'
<1>1. /\ DraftTypes' /\ Longer /\ CompiledIsCurrent' /\ RootRounds' /\ ResearchGoesOn'
      /\ Grows => \A c \in Child : CloneStands(c)'
  BY SameDrafts
<1>2. Grows
  BY <1>1, GrowsIf DEF commandVars, batchVars
<1>3. job' \in [Request -> {Idle} \cup Jobs] /\ \A u \in Request \ {t} : job'[u] = job[u]
  BY Gone
<1>4. LaunchTypeOK'
  BY <1>1, <1>3 DEF IInv, LaunchTypeOK, BatchTypes, CommandTypes, commandVars, batchVars
<1>5. /\ \A b \in Batch : batch[b] = NULL => BatchStands(b)'
      /\ \A c \in Child : child[c] = NULL => ChildStands(c)'
  BY DEF BatchStands, ChildStands, batchVars
<1> QED
  BY <1>1, <1>2, <1>3, <1>4, <1>5, Together DEF commandVars, batchVars

LEMMA ResumeKeeps ==
  ASSUME IInv, NEW t \in Request, NEW b \in Batch, Resume(t, b)
  PROVE  IInv'
<1> DEFINE j == [at |-> "prepare", batch |-> b]
<1>1. j \in Jobs /\ Goto(t, j) /\ UNCHANGED <<draftVars, commandVars, batchVars, faults>>
  BY DEF Jobs, Resume
<1>2. job'[t] = j /\ batch'[b] # NULL
  BY <1>1, Gone DEF Resume, batchVars
<1>3. JobStands(job[t])'
  BY <1>2 DEF JobStands
<1> QED
  BY <1>1, <1>3, ThreadOnly DEF IInv, LaunchTypeOK, CommandTypes

LEMMA EndsKeep ==
  ASSUME IInv, NEW t \in Request, Refuse(t) \/ Die(t)
  PROVE  IInv'
<1>1. Goto(t, Idle) /\ UNCHANGED <<draftVars, commandVars, batchVars>> /\ faults' \in Nat
  BY DEF Refuse, Die, IInv, LaunchTypeOK, CommandTypes
<1>2. JobStands(job[t])'
  BY <1>1, Gone, IdleStands
<1> QED
  BY <1>1, <1>2, ThreadOnly

LEMMA AdmitKeeps ==
  ASSUME IInv, NEW t \in Request, Admit(t)
  PROVE  IInv'
<1> DEFINE b == job[t].batch
           todo == {f \in Asks[b] : <<b, f>> \notin recorded}
           j == IF todo = {} THEN [at |-> "lock", batch |-> b]
                ELSE [at |-> "submit", batch |-> b, todo |-> todo]
<1>1. b \in Batch /\ batch[b] # NULL
  BY AtWork DEF Admit, At
<1>2. j \in Jobs
  BY <1>1, AsksFrequencies DEF Jobs
<1>3. Goto(t, j) /\ UNCHANGED <<draftVars, commandVars, batchVars, faults>> /\ Missing(b) = {}
  BY DEF Admit
<1>4. job'[t] = j /\ UNCHANGED <<batch, child, recorded>>
  BY <1>2, <1>3, Gone DEF batchVars
<1>5. AllBound(b)
  <2>1. ASSUME NEW f \in Asks[b]
        PROVE  child[<<b, f>>] # NULL
    BY <1>3 DEF Missing
  <2> QED
    BY <2>1 DEF AllBound
<1>6. JobStands(job[t])'
  <2>1. CASE todo = {}
    <3>1. j = [at |-> "lock", batch |-> b]
      BY <2>1
    <3>2. AllRecorded(b)'
      BY <1>4, <2>1 DEF AllRecorded
    <3> QED
      BY <1>1, <1>4, <3>1, <3>2 DEF JobStands
  <2>2. CASE todo # {}
    <3>1. j = [at |-> "submit", batch |-> b, todo |-> todo]
      BY <2>2
    <3>2. AllBound(b)'
      BY <1>4, <1>5 DEF AllBound
    <3>3. HasTodo(j)
      BY <2>2, <3>1 DEF HasTodo
    <3>4. HasTodo(job[t])'
      BY <1>4, <3>1, <3>3 DEF HasTodo
    <3> QED
      BY <1>1, <1>4, <3>1, <3>2, <3>4 DEF JobStands
  <2> QED
    BY <2>1, <2>2
<1> QED
  BY <1>2, <1>3, <1>6, ThreadOnly DEF IInv, LaunchTypeOK, CommandTypes

LEMMA BindKeeps ==
  ASSUME IInv, NEW t \in Request, Bind(t)
  PROVE  IInv'
<1>0. PICK c, n, g, b : c = job[t].child /\ n = job[t].rev /\ g = built[c].graph /\ b = job[t].batch
  OBVIOUS
<1> DEFINE row == [draft |-> c, rev |-> n, graph |-> g]
           j == [at |-> "prepare", batch |-> b]
<1>1. /\ c \in Child /\ c \in Draft /\ c[1] = b /\ HasClone(job[t])
      /\ n \in Nat \ {0} /\ b \in Batch /\ batch[b] # NULL
      /\ job[t].at = "bind"
  BY <1>0, AtClone, AtWork DEF Bind, At
<1>2. /\ built[c] # NULL /\ built[c].rev = n /\ built[c] \in CompileRow
      /\ revision[c][n].freq = c[2] /\ status[c] # "absent"
  BY <1>0, <1>1, Rows DEF HasClone, IInv, LaunchTypeOK
<1>3. Compiles(c, row.rev, row.graph) /\ row.graph.freq = c[2]
  BY <1>0, <1>1, <1>2 DEF IInv, CommandStands, Compiles, GraphOf
<1>4. row \in ChildRow /\ row # NULL
  BY <1>0, <1>1, <1>2, RowsAreNotNull DEF ChildRow, CompileRow
<1>5. /\ child' = [child EXCEPT ![c] = IF @ = NULL THEN row ELSE @]
      /\ Goto(t, j)
      /\ UNCHANGED <<draftVars, commandVars, batch, recorded, suite, complete, faults>>
  BY <1>0 DEF Bind
<1>6. /\ \A e \in Child : child[e] # NULL => child'[e] = child[e]
      /\ \A e \in Child : e # c => child'[e] = child[e]
      /\ child[c] = NULL => child'[c] = row
      /\ child' \in [Child -> {NULL} \cup ChildRow]
  BY <1>1, <1>4, <1>5 DEF IInv, LaunchTypeOK, BatchTypes
<1>7. /\ DraftTypes' /\ Longer /\ CompiledIsCurrent' /\ RootRounds' /\ ResearchGoesOn'
      /\ Grows => \A e \in Child : CloneStands(e)'
  BY <1>5, SameDrafts
<1>8. Grows
  BY <1>5, <1>6, <1>7, GrowsIf DEF commandVars
<1>9. j \in Jobs
  BY <1>1 DEF Jobs
<1>10. /\ job' \in [Request -> {Idle} \cup Jobs] /\ job'[t] = j
       /\ \A u \in Request \ {t} : job'[u] = job[u]
  BY <1>5, <1>9, Gone
<1>11. LaunchTypeOK'
  BY <1>5, <1>6, <1>7, <1>10 DEF IInv, LaunchTypeOK, BatchTypes, CommandTypes, commandVars
<1>12. ASSUME NEW e \in Child, child[e] = NULL
       PROVE  ChildStands(e)'
  <2>1. CASE e = c
    <3>1. child'[c] = row /\ batch'[c[1]] # NULL
      BY <1>1, <1>5, <1>6, <1>12, <2>1
    <3>2. Compiles(c, row.rev, row.graph)' /\ status'[c] # "absent"
      BY <1>2, <1>3, <1>5 DEF Compiles, draftVars, Rev
    <3> QED
      BY <1>3, <2>1, <3>1, <3>2 DEF ChildStands
  <2>2. CASE e # c
    BY <1>6, <1>12, <2>2 DEF ChildStands
  <2> QED
    BY <2>1, <2>2
<1>13. \A a \in Batch : batch[a] = NULL => BatchStands(a)'
  BY <1>5 DEF BatchStands
<1>14. JobStands(job[t])'
  BY <1>1, <1>5, <1>10 DEF JobStands
<1> QED
  BY <1>5, <1>7, <1>8, <1>10, <1>11, <1>12, <1>13, <1>14, Together DEF commandVars

\* A step of a thread that writes a suite, its row or the end of a batch.
LEMMA SuiteStep ==
  ASSUME IInv, NEW t \in Request, NEW j \in {Idle} \cup Jobs, Goto(t, j), JobStands(job[t])',
         UNCHANGED <<draftVars, commandVars, batch, child, faults>>,
         suite' \in [Child -> Graph \cup {NULL}], recorded' \in SUBSET Child, complete' \in SUBSET Batch,
         recorded \subseteq recorded',
         \A c \in Child : suite[c] # NULL => suite'[c] = suite[c],
         \A c \in Child : (suite'[c] = suite[c] /\ (c \in recorded' => c \in recorded)) \/ SuiteStands(c)',
         \A b \in complete' : b \in complete \/ CompletionStands(b)'
  PROVE  IInv'
<1>1. /\ DraftTypes' /\ Longer /\ CompiledIsCurrent' /\ RootRounds' /\ ResearchGoesOn'
      /\ Grows => \A c \in Child : CloneStands(c)'
  BY SameDrafts
<1>2. Grows
  BY <1>1, GrowsIf DEF commandVars
<1>3. job' \in [Request -> {Idle} \cup Jobs] /\ \A u \in Request \ {t} : job'[u] = job[u]
  BY Gone
<1>4. LaunchTypeOK'
  BY <1>1, <1>3 DEF IInv, LaunchTypeOK, BatchTypes, CommandTypes, commandVars
<1>5. /\ \A b \in Batch : batch[b] = NULL => BatchStands(b)'
      /\ \A c \in Child : child[c] = NULL => ChildStands(c)'
  BY DEF BatchStands, ChildStands
<1> QED
  BY <1>1, <1>2, <1>3, <1>4, <1>5, Together DEF commandVars

LEMMA PublishSuiteKeeps ==
  ASSUME IInv, NEW t \in Request, PublishSuite(t)
  PROVE  IInv'
<1>0. PICK c, j : c = ChildOf(t) /\ j = [job[t] EXCEPT !.at = "record"]
  OBVIOUS
<1>1. /\ AllBound(job[t].batch) /\ HasTodo(job[t]) /\ c \in Child
      /\ child[c] \in ChildRow /\ child[c] # NULL
      /\ job[t] \in Jobs /\ job[t].at = "submit" /\ batch[job[t].batch] # NULL
  BY <1>0, AtSuite, AtWork, RowsAreNotNull DEF PublishSuite, At
<1>2. /\ suite[c] \in {NULL, child[c].graph} /\ suite' = [suite EXCEPT ![c] = child[c].graph]
      /\ Goto(t, j)
      /\ UNCHANGED <<draftVars, commandVars, batch, child, recorded, complete, faults>>
  BY <1>0 DEF PublishSuite
<1>3. child[c].graph \in Graph /\ child[c].graph # NULL
  BY <1>1, RowsAreNotNull DEF ChildRow
<1>4. /\ suite' \in [Child -> Graph \cup {NULL}] /\ suite'[c] = child[c].graph
      /\ \A e \in Child : (suite[e] # NULL => suite'[e] = suite[e]) /\ (e # c => suite'[e] = suite[e])
  BY <1>1, <1>2, <1>3 DEF IInv, LaunchTypeOK, BatchTypes
<1>5. /\ j \in Jobs /\ j.at = "record" /\ j.batch = job[t].batch /\ j.todo = job[t].todo
  BY <1>0, <1>1 DEF Jobs
<1>6. job'[t] = j
  BY <1>2, <1>5, Gone
<1>7. SuiteStands(c)'
  BY <1>1, <1>2, <1>3, <1>4 DEF SuiteStands
<1>8. JobStands(job[t])'
  <2>1. AllBound(j.batch)' /\ batch'[j.batch] # NULL
    BY <1>1, <1>2, <1>5 DEF AllBound
  <2>2. HasTodo(j)'
    BY <1>0, <1>1, <1>2, <1>3, <1>4, <1>5 DEF HasTodo, ChildOf
  <2> QED
    BY <1>5, <1>6, <2>1, <2>2 DEF JobStands, HasTodo
<1> QED
  BY <1>2, <1>4, <1>5, <1>7, <1>8, SuiteStep DEF IInv, LaunchTypeOK, BatchTypes

LEMMA RecordSuiteKeeps ==
  ASSUME IInv, NEW t \in Request, RecordSuite(t)
  PROVE  IInv'
<1>0. PICK c, j : c = ChildOf(t) /\ j = [job[t] EXCEPT !.at = "lockChild"]
  OBVIOUS
<1>1. /\ AllBound(job[t].batch) /\ HasTodo(job[t]) /\ c \in Child
      /\ job[t] \in Jobs /\ job[t].at = "record" /\ batch[job[t].batch] # NULL
  BY <1>0, AtSuite, AtWork DEF RecordSuite, At
<1>2. /\ recorded' = recorded \cup {c} /\ Goto(t, j)
      /\ UNCHANGED <<draftVars, commandVars, batch, child, suite, complete, faults>>
  BY <1>0 DEF RecordSuite
<1>3. suite[c] # NULL /\ SuiteStands(c)
  BY <1>0, <1>1 DEF HasTodo, ChildOf, IInv
<1>4. /\ j \in Jobs /\ j.at = "lockChild" /\ j.batch = job[t].batch /\ j.todo = job[t].todo
  BY <1>0, <1>1 DEF Jobs
<1>5. job'[t] = j
  BY <1>2, <1>4, Gone
<1>6. SuiteStands(c)'
  BY <1>2, <1>3 DEF SuiteStands
<1>7. JobStands(job[t])'
  <2>1. AllBound(j.batch)' /\ batch'[j.batch] # NULL
    BY <1>1, <1>2, <1>4 DEF AllBound
  <2>2. HasTodo(j)'
    BY <1>0, <1>1, <1>2, <1>4 DEF HasTodo, ChildOf
  <2> QED
    BY <1>4, <1>5, <2>1, <2>2 DEF JobStands, HasTodo
<1> QED
  BY <1>1, <1>2, <1>4, <1>6, <1>7, SuiteStep DEF IInv, LaunchTypeOK, BatchTypes

LEMMA CompleteKeeps ==
  ASSUME IInv, NEW t \in Request, Complete(t)
  PROVE  IInv'
<1>0. PICK b : b = job[t].batch
  OBVIOUS
<1>1. /\ b \in Batch /\ batch[b] # NULL /\ AllRecorded(b) /\ SourceDone(b)
  BY <1>0, AtWork DEF Complete, At, JobStands
<1>2. /\ complete' = complete \cup {b} /\ Goto(t, Idle)
      /\ UNCHANGED <<draftVars, commandVars, batch, child, recorded, suite, faults>>
  BY <1>0 DEF Complete
<1>3. CompletionStands(b)'
  BY <1>1, <1>2 DEF CompletionStands, AllRecorded, SourceDone, Source, Rev, draftVars
<1>4. JobStands(job[t])'
  BY <1>2, Gone, IdleStands
<1> QED
  BY <1>1, <1>2, <1>3, <1>4, SuiteStep DEF IInv, LaunchTypeOK, BatchTypes

\* A draft with an existing revision n that is locked.
LEMMA LockStep ==
  ASSUME IInv, NEW t \in Request, NEW j \in Jobs, Goto(t, j), JobStands(job[t])',
         NEW d \in Draft, status[d] # "absent", Lock(d),
         UNCHANGED <<revision, compiled, active, commandVars, batchVars, faults>>
  PROVE  IInv'
<1>1. status' = [status EXCEPT ![d] = "archived"]
  BY DEF Lock
<1>2. /\ \A e \in Draft : status'[e] = status[e] \/ (status[e] # "absent" /\ status'[e] = "archived")
      /\ status' \in [Draft -> {"absent", "draft", "archived"}]
      /\ \A e \in Draft : (status'[e] = "absent") = (status[e] = "absent")
  BY <1>1 DEF IInv, LaunchTypeOK, DraftTypes
<1>3. DraftTypes' /\ CompiledIsCurrent'
  BY <1>2 DEF IInv, LaunchTypeOK, DraftTypes, CompiledIsCurrent, Rev, Current
<1>4. /\ Longer /\ RootRounds' /\ ResearchGoesOn'
      /\ Grows => \A c \in Child : CloneStands(c)'
  BY <1>2, <1>3, KeptRevisions
<1>5. Grows
  BY <1>3, <1>4, GrowsIf DEF commandVars, batchVars
<1>6. job' \in [Request -> {Idle} \cup Jobs] /\ \A u \in Request \ {t} : job'[u] = job[u]
  BY Gone
<1>7. LaunchTypeOK'
  BY <1>3, <1>6 DEF IInv, LaunchTypeOK, BatchTypes, CommandTypes, commandVars, batchVars
<1>8. /\ \A b \in Batch : batch[b] = NULL => BatchStands(b)'
      /\ \A c \in Child : child[c] = NULL => ChildStands(c)'
  BY DEF BatchStands, ChildStands, batchVars
<1> QED
  BY <1>3, <1>4, <1>5, <1>6, <1>7, <1>8, Together DEF commandVars, batchVars

LEMMA LockChildKeeps ==
  ASSUME IInv, NEW t \in Request, LockChild(t)
  PROVE  IInv'
<1> DEFINE c == ChildOf(t)
           b == job[t].batch
           todo == Left(job[t].todo)
           j == IF todo = {} THEN [at |-> "lock", batch |-> b]
                ELSE [at |-> "submit", batch |-> b, todo |-> todo]
<1>1. /\ AllBound(b) /\ HasTodo(job[t]) /\ c \in Child /\ c = <<b, First(job[t].todo)>>
      /\ child[c] \in ChildRow /\ child[c] # NULL /\ ChildStands(c)
      /\ b \in Batch /\ job[t].at = "lockChild" /\ batch[b] # NULL
  BY AtSuite, AtWork, RowsAreNotNull DEF LockChild, At, ChildOf
<1>2. Lock(child[c].draft) /\ UNCHANGED <<revision, compiled, active, commandVars, batchVars, faults>>
  BY DEF LockChild
<1>3. Goto(t, j)
  BY <1>1 DEF LockChild
<1>4. child[c].draft \in Draft /\ status[child[c].draft] # "absent"
  <2>1. child[c].draft \in Draft /\ child[c].rev \in 1..Rev(child[c].draft)
    BY <1>1 DEF ChildRow, ChildStands, Compiles
  <2> QED
    BY <2>1, Revisions DEF IInv, LaunchTypeOK
<1>5. /\ todo \subseteq Asks[b] /\ \A f \in Asks[b] \ todo : <<b, f>> \in recorded
      /\ Asks[b] \subseteq Frequency
  BY <1>1, AsksFrequencies DEF HasTodo, Left
<1>6. j \in Jobs
  <2>1. todo \in SUBSET Frequency
    BY <1>5
  <2> QED
    BY <1>1, <2>1 DEF Jobs
<1>7. job'[t] = j /\ UNCHANGED <<batch, child, recorded>>
  BY <1>2, <1>3, <1>6, Gone DEF batchVars
<1>8. JobStands(job[t])'
  <2>1. CASE todo = {}
    <3>1. j = [at |-> "lock", batch |-> b]
      BY <2>1
    <3>2. AllRecorded(b)'
      BY <1>5, <1>7, <2>1 DEF AllRecorded
    <3> QED
      BY <1>1, <1>7, <3>1, <3>2 DEF JobStands
  <2>2. CASE todo # {}
    <3>1. j = [at |-> "submit", batch |-> b, todo |-> todo]
      BY <2>2
    <3>2. AllBound(b)'
      BY <1>1, <1>7 DEF AllBound
    <3>3. HasTodo(j)
      BY <1>5, <2>2, <3>1 DEF HasTodo
    <3>4. HasTodo(job[t])'
      BY <1>7, <3>1, <3>3 DEF HasTodo
    <3> QED
      BY <1>1, <1>7, <3>1, <3>2, <3>4 DEF JobStands
  <2> QED
    BY <2>1, <2>2
<1> QED
  BY <1>2, <1>3, <1>4, <1>6, <1>8, LockStep

LEMMA LockSourceKeeps ==
  ASSUME IInv, NEW t \in Request, LockSource(t)
  PROVE  IInv'
<1> DEFINE b == job[t].batch
           j == [at |-> "complete", batch |-> b]
<1>1. /\ job[t].at = "lock" /\ JobStands(job[t]) /\ b \in Batch /\ batch[b] # NULL
      /\ batch[b] \in BatchRow /\ Source(b) \in Draft /\ BatchStands(b)
  BY AtWork DEF LockSource, At
<1>2. /\ Lock(Source(b)) /\ Goto(t, j)
      /\ UNCHANGED <<revision, compiled, active, commandVars, batchVars, faults>>
  BY DEF LockSource
<1>3. status[Source(b)] # "absent"
  <2>1. batch[b].rev \in 1..Rev(Source(b))
    BY <1>1 DEF BatchStands, Compiles, Source
  <2> QED
    BY <1>1, <2>1, Revisions DEF IInv, LaunchTypeOK
<1>4. j \in Jobs
  BY <1>1 DEF Jobs
<1>5. job'[t] = j /\ UNCHANGED <<batch, child, recorded>>
  BY <1>2, <1>4, Gone DEF batchVars
<1>6. AllRecorded(b)'
  BY <1>1, <1>5 DEF JobStands, AllRecorded
<1>7. SourceDone(b)'
  <2>1. status'[Source(b)] = "archived"
    BY <1>1, <1>2 DEF Lock, IInv, LaunchTypeOK, DraftTypes
  <2> QED
    BY <1>5, <2>1 DEF SourceDone, Source
<1>8. JobStands(job[t])'
  BY <1>1, <1>5, <1>6, <1>7 DEF JobStands
<1> QED
  BY <1>1, <1>2, <1>3, <1>4, <1>8, LockStep

\* What a clone takes from its batch.
LEMMA SourceRevision ==
  ASSUME IInv, NEW b \in Batch, batch[b] # NULL
  PROVE  /\ CloneOf(b) \in Revision /\ GraphOf(CloneOf(b)) = batch[b].graph
         /\ CloneOf(b).round = batch[b].round /\ batch[b].graph \in Graph
<1>1. batch[b] \in BatchRow /\ BatchStands(b)
  BY Rows DEF IInv, LaunchTypeOK
<1>2. batch[b].draft \in Draft /\ batch[b].rev \in 1..Rev(batch[b].draft)
  BY <1>1 DEF BatchRow, BatchStands, Compiles
<1> QED
  BY <1>1, <1>2, Revisions DEF BatchStands, Compiles, CloneOf, Source, IInv, LaunchTypeOK, BatchRow

\* A child without a graph is not of the source's frequency.
LEMMA MissingChild ==
  ASSUME IInv, NEW b \in Batch, batch[b] # NULL, NEW c \in Missing(b)
  PROVE  /\ c \in Child /\ c[1] = b /\ c[2] \in Asks[b] /\ c \in {b} \X Asks[b]
         /\ batch[b].graph.freq # c[2]
<1>1. c \in {b} \X Asks[b] /\ child[c] = NULL
  BY DEF Missing
<1>2. c \in Child /\ c[1] = b /\ c[2] \in Asks[b] /\ c = <<b, c[2]>>
  BY <1>1, AsksFrequencies
<1>3. ASSUME batch[b].graph.freq = c[2]
      PROVE  FALSE
  <2>1. child[c] = [draft |-> batch[b].draft, rev |-> batch[b].rev, graph |-> batch[b].graph]
    BY <1>2, <1>3 DEF IInv, BatchStands
  <2>2. batch[b] \in BatchRow
    BY Rows DEF IInv, LaunchTypeOK
  <2>3. [draft |-> batch[b].draft, rev |-> batch[b].rev, graph |-> batch[b].graph] \in ChildRow
    BY <2>2 DEF BatchRow, ChildRow
  <2> QED
    BY <1>1, <2>1, <2>3, RowsAreNotNull
<1> QED
  BY <1>1, <1>2, <1>3

LEMMA CloneSourceKeeps ==
  ASSUME IInv, NEW t \in Request, CloneSource(t)
  PROVE  IInv'
<1>0. PICK b : b = job[t].batch
  OBVIOUS
<1>1. b \in Batch /\ batch[b] # NULL
  BY <1>0, AtWork DEF CloneSource, At
<1>2. PICK c, clone :
        /\ c \in Missing(b)
        /\ clone = IF status[c] = "absent" THEN <<CloneOf(b)>> ELSE revision[c]
        /\ revision' = [revision EXCEPT ![c] = clone]
        /\ status' = [status EXCEPT ![c] = IF @ = "absent" THEN "draft" ELSE @]
        /\ Goto(t, [at |-> IF clone[Len(clone)].freq = c[2] THEN "compile" ELSE "retune",
                    batch |-> b, child |-> c, rev |-> Len(clone)])
  BY <1>0 DEF CloneSource
<1>3. /\ c \in Child /\ c[1] = b /\ c \in {b} \X Asks[b] /\ batch[b].graph.freq # c[2] /\ c \in Draft
      /\ c \notin Root
  BY <1>1, <1>2, MissingChild, ChildPair
<1>4. UNCHANGED <<compiled, active, commandVars, batchVars, faults>>
  BY DEF CloneSource
<1>5. /\ DraftTypes' /\ Longer /\ CompiledIsCurrent' /\ RootRounds' /\ ResearchGoesOn'
      /\ Grows => \A e \in Child : CloneStands(e)'
      /\ status'[c] # "absent" /\ revision'[c] = clone /\ Rev(c)' \in 1..Rev(c)'
  <2>1. CASE status[c] # "absent"
    <3>1. UNCHANGED <<status, revision>>
      BY <1>2, <1>3, <2>1 DEF IInv, LaunchTypeOK, DraftTypes
    <3>2. Rev(c) \in 1..Rev(c)
      BY <1>3, <2>1, Revisions DEF IInv, LaunchTypeOK
    <3> QED
      BY <1>2, <1>4, <2>1, <3>1, <3>2, SameDrafts DEF draftVars, Rev
  <2>2. CASE status[c] = "absent"
    <3>1. /\ clone = <<CloneOf(b)>> /\ CloneOf(b) \in Revision
          /\ CloneOf(b).round = batch[b].round
      BY <1>1, <1>2, <2>2, SourceRevision
    <3>2. status' = [status EXCEPT ![c] = "draft"] /\ active' \in SUBSET Round
      BY <1>2, <1>4, <2>2 DEF IInv, LaunchTypeOK, DraftTypes
    <3>3. /\ DraftTypes' /\ Longer /\ CompiledIsCurrent'
          /\ Rev(c)' = 1 /\ revision'[c] = <<CloneOf(b)>> /\ status'[c] = "draft"
          /\ \A e \in Draft \ {c} : revision'[e] = revision[e] /\ status'[e] = status[e]
      BY <1>2, <1>3, <1>4, <2>2, <3>1, <3>2, OpenedDraft
    <3>4. \A e \in Root : revision'[e] = revision[e] /\ status'[e] = status[e]
      BY <1>3, <3>3 DEF Draft
    <3>5. RootRounds'
      BY <3>4 DEF IInv, RootRounds, Rev
    <3>6. ResearchGoesOn'
      <4>1. \A e \in Root : Current(e)' = Current(e) /\ active' = active
        BY <1>4, <3>4 DEF Current, Rev
      <4> QED
        BY <3>3, <3>4, <4>1, ResearchGoesOnIf
    <3>7. CloneStands(c)'
      <4>1. CloneOf(b)' = CloneOf(b) /\ batch'[c[1]] = batch[b]
        <5>1. batch[b] \in BatchRow /\ batch[b].draft \in Draft /\ BatchStands(b)
          BY <1>1, Rows DEF IInv, LaunchTypeOK, BatchRow
        <5>2. revision'[batch[b].draft][batch[b].rev] = revision[batch[b].draft][batch[b].rev]
          BY <1>1, <3>3, <5>1 DEF BatchStands, Compiles, Longer
        <5> QED
          BY <1>3, <1>4, <5>2 DEF CloneOf, Source, batchVars
      <4>2. <<CloneOf(b)>>[1] = CloneOf(b)
        OBVIOUS
      <4> QED
        BY <1>1, <1>3, <3>1, <3>3, <4>1, <4>2 DEF CloneStands
    <3>8. Grows => \A e \in Child : CloneStands(e)'
      BY <1>3, <3>3, <3>7, OtherClones
    <3> QED
      BY <3>1, <3>3, <3>5, <3>6, <3>8
  <2> QED
    BY <2>1, <2>2
<1>6. PICK j : j = [at |-> IF clone[Len(clone)].freq = c[2] THEN "compile" ELSE "retune",
                    batch |-> b, child |-> c, rev |-> Len(clone)]
  OBVIOUS
<1>7. Len(clone) \in Nat /\ Rev(c)' = Len(clone)
  BY <1>5 DEF Rev, DraftTypes
<1>8. j \in Jobs
  BY <1>1, <1>3, <1>6, <1>7 DEF Jobs
<1>9. job' \in [Request -> {Idle} \cup Jobs] /\ job'[t] = j /\ \A u \in Request \ {t} : job'[u] = job[u]
  BY <1>2, <1>6, <1>8, Gone
<1>10. JobStands(job[t])'
  <2>1. batch' = batch
    BY <1>4 DEF batchVars
  <2>2. HasClone(j)'
    BY <1>3, <1>5, <1>6, <1>7 DEF HasClone
  <2> QED
    BY <1>1, <1>6, <1>9, <2>1, <2>2 DEF JobStands, HasClone
<1>11. Grows
  BY <1>4, <1>5, GrowsIf DEF commandVars, batchVars
<1>12. LaunchTypeOK'
  BY <1>4, <1>5, <1>9 DEF IInv, LaunchTypeOK, BatchTypes, CommandTypes, commandVars, batchVars
<1>13. /\ \A e \in Batch : batch[e] = NULL => BatchStands(e)'
       /\ \A e \in Child : child[e] = NULL => ChildStands(e)'
  BY <1>4 DEF BatchStands, ChildStands, batchVars
<1> QED
  BY <1>4, <1>5, <1>9, <1>10, <1>11, <1>12, <1>13, Together DEF commandVars, batchVars

\* A step of a thread on its clone c that may write the rows of c's commands.
LEMMA CloneStep ==
  ASSUME IInv, NEW t \in Request, NEW j \in Jobs, Goto(t, j), j.at \in {"compile", "bind"},
         j.batch = job[t].batch, batch[j.batch] # NULL,
         NEW c \in Child,
         DraftTypes', Longer, CompiledIsCurrent', RootRounds', ResearchGoesOn',
         Grows => \A e \in Child : CloneStands(e)',
         UNCHANGED <<batchVars, faults>>,
         retuned' \in [Child -> {NULL} \cup EventRow], built' \in [Child -> {NULL} \cup CompileRow],
         \A e \in Child : /\ retuned[e] # NULL => retuned'[e] = retuned[e]
                          /\ built[e] # NULL => built'[e] = built[e]
                          /\ e # c => retuned'[e] = retuned[e] /\ built'[e] = built[e],
         Grows => CommandStands(c)', HasClone(j)'
  PROVE  IInv'
<1>1. Grows
  BY GrowsIf DEF batchVars
<1>2. job' \in [Request -> {Idle} \cup Jobs] /\ job'[t] = j /\ \A u \in Request \ {t} : job'[u] = job[u]
  BY Gone
<1>3. LaunchTypeOK'
  BY <1>2 DEF IInv, LaunchTypeOK, BatchTypes, CommandTypes, batchVars
<1>4. JobStands(job[t])'
  BY <1>2 DEF JobStands, HasClone, batchVars
<1>5. /\ \A b \in Batch : batch[b] = NULL => BatchStands(b)'
      /\ \A e \in Child : child[e] = NULL => ChildStands(e)'
  BY DEF BatchStands, ChildStands, batchVars
<1>6. \A e \in Child : (retuned'[e] = retuned[e] /\ built'[e] = built[e]) \/ CommandStands(e)'
  BY <1>1
<1> QED
  BY <1>1, <1>2, <1>3, <1>4, <1>5, <1>6, Together DEF batchVars

LEMMA RetuneKeeps ==
  ASSUME IInv, NEW t \in Request, Retune(t)
  PROVE  IInv'
<1>0. PICK c, n, rev, j : /\ c = job[t].child /\ n = job[t].rev
                          /\ rev = IF retuned[c] # NULL THEN retuned[c].rev ELSE Rev(c) + 1
                          /\ j = [job[t] EXCEPT !.at = "compile", !.rev = rev]
  OBVIOUS
<1>1. /\ c \in Child /\ c \in Draft /\ c \notin Root /\ HasClone(job[t]) /\ c[2] \in Frequency
      /\ status[c] # "absent" /\ n \in Nat \ {0}
      /\ job[t] \in Jobs /\ job[t].at = "retune" /\ batch[job[t].batch] # NULL
  BY <1>0, AtClone, AtWork, ChildPair DEF Retune, At, HasClone
<1>2. /\ MayRetune(c, n)
      /\ IF retuned[c] # NULL THEN UNCHANGED <<revision, compiled>>
         ELSE Insert(c, [Current(c) EXCEPT !.freq = c[2]])
      /\ retuned' = [retuned EXCEPT ![c] = [base |-> n, rev |-> rev]]
      /\ Goto(t, j)
      /\ UNCHANGED <<status, active, built, batchVars, faults>>
  BY <1>0 DEF Retune
<1>3. Rev(c) \in Nat \ {0} /\ Current(c) \in Revision
  BY <1>1, Revisions DEF IInv, LaunchTypeOK
<1>4. /\ rev \in Nat \ {0}
      /\ retuned' \in [Child -> {NULL} \cup EventRow]
      /\ \A e \in Child : (retuned[e] # NULL => retuned'[e] = retuned[e]) /\ (e # c => retuned'[e] = retuned[e])
      /\ retuned'[c] = [base |-> n, rev |-> rev]
  <2>1. retuned[c] # NULL => retuned[c] \in EventRow /\ retuned[c].base = n
    BY <1>1, <1>2, Rows DEF MayRetune, IInv, LaunchTypeOK
  <2>2. rev \in Nat \ {0} /\ [base |-> n, rev |-> rev] \in EventRow
    BY <1>0, <1>1, <1>3, <2>1 DEF EventRow
  <2>3. retuned[c] # NULL => retuned[c] = [base |-> n, rev |-> rev]
    BY <1>0, <2>1 DEF EventRow
  <2> QED
    BY <1>1, <1>2, <2>2, <2>3 DEF IInv, LaunchTypeOK, CommandTypes
<1>5. j \in Jobs /\ j.at = "compile" /\ j.batch = job[t].batch /\ j.child = c /\ j.rev = rev
  BY <1>0, <1>1, <1>4 DEF Jobs
<1>6. /\ DraftTypes' /\ Longer /\ CompiledIsCurrent' /\ RootRounds' /\ ResearchGoesOn'
      /\ Grows => \A e \in Child : CloneStands(e)'
      /\ rev \in 1..Rev(c)' /\ revision'[c][rev].freq = c[2]
  <2>1. CASE retuned[c] # NULL
    <3>1. rev \in 1..Rev(c) /\ revision[c][rev].freq = c[2]
      BY <1>0, <1>1, <2>1 DEF IInv, CommandStands
    <3> QED
      BY <1>2, <2>1, <3>1, SameDrafts DEF draftVars, Rev
  <2>2. CASE retuned[c] = NULL
    <3>1. PICK r : r = [Current(c) EXCEPT !.freq = c[2]]
      OBVIOUS
    <3>2. r \in Revision /\ r.round = Current(c).round /\ r.study = Current(c).study /\ r.freq = c[2]
      BY <1>1, <1>3, <3>1 DEF Revision
    <3>3. Insert(c, r)
      BY <1>2, <2>2, <3>1
    <3>4. /\ DraftTypes' /\ Longer /\ CompiledIsCurrent' /\ RootRounds' /\ ResearchGoesOn'
          /\ Grows => \A e \in Child : CloneStands(e)'
          /\ Rev(c)' = Rev(c) + 1 /\ Current(c)' = r
      BY <1>1, <1>2, <3>2, <3>3, EditedDraft
    <3> QED
      BY <1>0, <1>3, <2>2, <3>2, <3>4 DEF Current
  <2> QED
    BY <2>1, <2>2
<1>7. ASSUME Grows
      PROVE  CommandStands(c)'
  <2>1. built[c] # NULL => Compiles(c, built[c].rev, built[c].graph)'
    <3>1. ASSUME built[c] # NULL
          PROVE  Compiles(c, built[c].rev, built[c].graph)'
      <4>1. PICK k, g : k = built[c].rev /\ g = built[c].graph
        OBVIOUS
      <4>2. Compiles(c, k, g)
        BY <1>1, <3>1, <4>1 DEF IInv, CommandStands
      <4>3. Compiles(c, k, g)'
        BY <1>1, <1>6, <1>7, <4>2, CompilesOn DEF IInv, LaunchTypeOK
      <4> QED
        BY <1>2, <4>1, <4>3 DEF Compiles
    <3> QED
      BY <3>1
  <2> QED
    BY <1>1, <1>2, <1>4, <1>6, <2>1 DEF CommandStands
<1>8. HasClone(j)'
  BY <1>0, <1>1, <1>2, <1>5, <1>6 DEF HasClone
<1>9. built' \in [Child -> {NULL} \cup CompileRow] /\ built' = built
  BY <1>2 DEF IInv, LaunchTypeOK, CommandTypes
<1>10. batch[j.batch] # NULL
  BY <1>1, <1>5
<1> QED
  BY <1>1, <1>2, <1>4, <1>5, <1>6, <1>7, <1>8, <1>9, <1>10, CloneStep

LEMMA BuildCloneKeeps ==
  ASSUME IInv, NEW t \in Request, BuildClone(t)
  PROVE  IInv'
<1>0. PICK c, n, g, j : /\ c = job[t].child /\ n = job[t].rev /\ g = GraphOf(Current(c))
                        /\ j = [job[t] EXCEPT !.at = "bind"]
  OBVIOUS
<1>1. /\ c \in Child /\ c \in Draft /\ HasClone(job[t])
      /\ status[c] # "absent" /\ n \in Nat \ {0} /\ n \in 1..Rev(c) /\ revision[c][n].freq = c[2]
      /\ job[t] \in Jobs /\ job[t].at = "compile" /\ batch[job[t].batch] # NULL
  BY <1>0, AtClone, AtWork, ChildPair DEF BuildClone, At, HasClone
<1>2. /\ MayBuild(c, n)
      /\ IF built[c] # NULL THEN UNCHANGED <<compiled, built>>
         ELSE /\ compiled' = [compiled EXCEPT ![c] = g]
              /\ built' = [built EXCEPT ![c] = [rev |-> n, graph |-> g]]
      /\ Goto(t, j)
      /\ UNCHANGED <<status, revision, active, retuned, batchVars, faults>>
  BY <1>0 DEF BuildClone
<1>3. /\ built' \in [Child -> {NULL} \cup CompileRow] /\ built'[c] # NULL /\ built'[c].rev = n
      /\ \A e \in Child : (built[e] # NULL => built'[e] = built[e]) /\ (e # c => built'[e] = built[e])
      /\ DraftTypes' /\ CompiledIsCurrent'
      /\ Compiles(c, built'[c].rev, built'[c].graph)
  <2>1. CASE built[c] # NULL
    <3>1. built[c].rev = n /\ Compiles(c, built[c].rev, built[c].graph)
      BY <1>1, <1>2, <2>1 DEF MayBuild, IInv, CommandStands
    <3>2. UNCHANGED draftVars /\ built' = built
      BY <1>2, <2>1 DEF draftVars
    <3> QED
      BY <2>1, <3>1, <3>2, SameDrafts DEF IInv, LaunchTypeOK, CommandTypes
  <2>2. CASE built[c] = NULL
    <3>1. n = Rev(c) /\ Current(c) \in Revision /\ g \in Graph
      BY <1>0, <1>1, <1>2, <2>2, Revisions, RevisionFields DEF MayBuild, IInv, LaunchTypeOK
    <3>2. [rev |-> n, graph |-> g] \in CompileRow /\ [rev |-> n, graph |-> g] # NULL
      BY <1>1, <3>1, RowsAreNotNull DEF CompileRow
    <3>3. /\ compiled' = [compiled EXCEPT ![c] = g]
          /\ built' = [built EXCEPT ![c] = [rev |-> n, graph |-> g]]
      BY <1>2, <2>2
    <3>4. built'[c] = [rev |-> n, graph |-> g]
      BY <1>1, <3>3 DEF IInv, LaunchTypeOK, CommandTypes
    <3>5. Compiles(c, n, g)
      BY <1>0, <1>1, <3>1 DEF Compiles, Current
    <3>6. DraftTypes'
      BY <1>2, <3>1, <3>3 DEF IInv, LaunchTypeOK, DraftTypes
    <3>7. CompiledIsCurrent'
      <4>1. revision[c] # <<>>
        BY <1>1 DEF IInv, LaunchTypeOK, DraftTypes
      <4> QED
        BY <1>0, <1>1, <1>2, <3>3, <4>1 DEF IInv, LaunchTypeOK, DraftTypes, CompiledIsCurrent, Current, Rev
    <3> QED
      BY <1>1, <2>2, <3>2, <3>3, <3>4, <3>5, <3>6, <3>7 DEF IInv, LaunchTypeOK, CommandTypes
  <2> QED
    BY <2>1, <2>2
<1>4. j \in Jobs /\ j.at = "bind" /\ j.batch = job[t].batch /\ j.child = c /\ j.rev = n
  BY <1>0, <1>1 DEF Jobs
<1>5. /\ Longer /\ RootRounds' /\ ResearchGoesOn'
      /\ Grows => \A e \in Child : CloneStands(e)'
  BY <1>2, <1>3, KeptRevisions
<1>6. CommandStands(c)'
  BY <1>1, <1>2, <1>3 DEF IInv, CommandStands, Compiles, Rev
<1>7. HasClone(j)'
  BY <1>0, <1>1, <1>2, <1>3, <1>4 DEF HasClone, Rev
<1>8. retuned' \in [Child -> {NULL} \cup EventRow] /\ retuned' = retuned
  BY <1>2 DEF IInv, LaunchTypeOK, CommandTypes
<1>9. batch[j.batch] # NULL
  BY <1>1, <1>4
<1> QED
  BY <1>1, <1>2, <1>3, <1>4, <1>5, <1>6, <1>7, <1>8, <1>9, CloneStep

-----------------------------------------------------------------------------
(* Every step *)

\* Initially no draft and no batch exists.
LEMMA InitInv == Init => IInv
<1> SUFFICES ASSUME Init PROVE IInv
  OBVIOUS
<1>1. /\ status = [d \in Draft |-> "absent"] /\ revision = [d \in Draft |-> <<>>]
      /\ compiled = [d \in Draft |-> NULL] /\ active = {}
      /\ batch = [b \in Batch |-> NULL] /\ child = [c \in Child |-> NULL]
      /\ recorded = {} /\ suite = [c \in Child |-> NULL] /\ complete = {}
      /\ retuned = [c \in Child |-> NULL] /\ built = [c \in Child |-> NULL]
      /\ job = [t \in Request |-> Idle] /\ faults = 0
  BY DEF Init
<1>2. DraftTypes
  <2>1. \A d \in Draft : status[d] = "absent" /\ revision[d] = <<>>
    BY <1>1
  <2>2. revision \in [Draft -> Seq(Revision)]
    BY <1>1
  <2> QED
    BY <1>1, <2>1, <2>2 DEF DraftTypes
<1>3. BatchTypes /\ CommandTypes
  BY <1>1 DEF BatchTypes, CommandTypes
<1>4. CompiledIsCurrent
  BY <1>1 DEF CompiledIsCurrent
<1>5. RootRounds /\ ResearchGoesOn
  BY <1>1 DEF RootRounds, ResearchGoesOn, Rev, Draft
<1>6. \A b \in Batch : BatchStands(b)
  BY <1>1 DEF BatchStands
<1>7. \A c \in Child : ChildStands(c) /\ CloneStands(c) /\ CommandStands(c) /\ SuiteStands(c)
  BY <1>1, ChildPair DEF ChildStands, CloneStands, CommandStands, SuiteStands
<1>8. \A t \in Request : JobStands(job[t])
  BY <1>1 DEF JobStands, Idle
<1> QED
  BY <1>1, <1>2, <1>3, <1>4, <1>5, <1>6, <1>7, <1>8 DEF IInv, LaunchTypeOK

LEMMA StutterKeeps ==
  ASSUME IInv, UNCHANGED vars
  PROVE  IInv'
<1>1. UNCHANGED draftVars /\ UNCHANGED <<commandVars, batchVars, job, faults>>
  BY DEF vars
<1> QED
  BY <1>1, SameDrafts, DraftStep

LEMMA NextKeeps == IInv /\ [Next]_vars => IInv'
<1> SUFFICES ASSUME IInv, [Next]_vars PROVE IInv'
  OBVIOUS
<1>1. CASE UNCHANGED vars
  BY <1>1, StutterKeeps
<1>2. ASSUME NEW d \in Draft, User(d) PROVE IInv'
  BY <1>2, CreateKeeps, EditKeeps, CompileKeeps, ResetKeeps, CopyRevisionKeeps, LaunchKeeps DEF User
<1>3. ASSUME NEW t \in Request, Step(t) PROVE IInv'
  BY <1>3, CloneSourceKeeps, RetuneKeeps, BuildCloneKeeps, BindKeeps, AdmitKeeps, PublishSuiteKeeps,
     RecordSuiteKeeps, LockChildKeeps, LockSourceKeeps, CompleteKeeps, EndsKeep DEF Step
<1>4. ASSUME NEW t \in Request, Die(t) PROVE IInv'
  BY <1>4, EndsKeep
<1>5. ASSUME NEW t \in Request, NEW b \in Batch, Resume(t, b) PROVE IInv'
  BY <1>5, ResumeKeeps
<1> QED
  BY <1>1, <1>2, <1>3, <1>4, <1>5 DEF Next

\* The inductive invariant holds in every reachable state.
THEOREM LaunchInvariance == Spec => []IInv
BY InitInv, NextKeeps, PTL DEF Spec

-----------------------------------------------------------------------------
(* The properties *)

\* Every column has its type, for any number of drafts, batches and threads.
THEOREM LaunchTypeCorrect == Spec => []LaunchTypeOK
<1>1. IInv => LaunchTypeOK
  BY DEF IInv
<1> QED
  BY <1>1, LaunchInvariance, PTL

\* What a launch or a lock takes for the current compile is the compile of the
\* current revision.
THEOREM CompiledGraphsAreCurrent == Spec => []CompiledIsCurrent
<1>1. IInv => CompiledIsCurrent
  BY DEF IInv
<1> QED
  BY <1>1, LaunchInvariance, PTL

\* A research root loses its active round to a reset of another draft of that
\* round only.
THEOREM ResearchIsNeverStranded == Spec => []ResearchGoesOn
<1>1. IInv => ResearchGoesOn
  BY DEF IInv
<1> QED
  BY <1>1, LaunchInvariance, PTL

\* The suites of a batch run the revisions its rows name and, unless somebody
\* else wrote to the clone, the study of the source: the clone has its frequency
\* or its study from the source, and its row has the frequency asked for.
THEOREM SuitesAreOfTheSource == Spec => []SuitesRunTheSource
<1>1. ASSUME IInv, NEW c \in Child, suite[c] # NULL
      PROVE  LET row == child[c]
                 source == batch[c[1]]
             IN
             /\ row # NULL /\ suite[c] = row.graph /\ suite[c].freq = c[2]
             /\ suite[c] = GraphOf(revision[row.draft][row.rev])
             /\ row.draft = source.draft \/ row.rev > 2 \/ suite[c].study = source.graph.study
  <2> DEFINE row == child[c]
             source == batch[c[1]]
  <2>1. row # NULL /\ suite[c] = row.graph /\ ChildStands(c) /\ CloneStands(c)
    BY <1>1 DEF IInv, SuiteStands
  <2>2. /\ source # NULL /\ Compiles(row.draft, row.rev, row.graph) /\ row.graph.freq = c[2]
        /\ row.draft = source.draft \/ (row.draft = c /\ status[c] # "absent")
    BY <2>1 DEF ChildStands
  <2>3. suite[c].freq = c[2] /\ suite[c] = GraphOf(revision[row.draft][row.rev])
    BY <2>1, <2>2 DEF Compiles
  <2>4. ASSUME row.draft = c, status[c] # "absent", ~(row.rev > 2)
        PROVE  suite[c].study = source.graph.study
    <3>1. /\ source.graph.freq # c[2] /\ revision[c][1] = CloneOf(c[1])
          /\ Rev(c) >= 2 => \/ revision[c][2].freq = source.graph.freq
                            \/ revision[c][2].study \in {source.graph.study, Empty}
      BY <2>1, <2>4 DEF CloneStands
    <3>2. GraphOf(CloneOf(c[1])) = source.graph
      BY <1>1, <2>2, ChildPair, SourceRevision
    <3>3. Rev(c) \in Nat /\ row.rev \in 1..Rev(c)
      BY <1>1, <2>2, <2>4, ChildPair, Revisions DEF Compiles, IInv, LaunchTypeOK
    <3>4. suite[c].freq = revision[c][row.rev].freq /\ suite[c].study = revision[c][row.rev].study
      BY <2>3, <2>4 DEF GraphOf
    <3>5. suite[c].study # Empty
      <4>1. suite[c] \in Graph
        BY <1>1, Rows DEF IInv, LaunchTypeOK
      <4> QED
        BY <4>1, LaunchAssumption DEF Graph
    <3>6. row.rev # 1
      BY <2>3, <3>1, <3>2, <3>4 DEF GraphOf
    <3>7. row.rev = 2 /\ Rev(c) >= 2
      BY <2>4, <3>3, <3>6
    <3> QED
      BY <2>3, <3>1, <3>4, <3>5, <3>7
  <2> QED
    BY <2>1, <2>2, <2>3, <2>4
<1>2. IInv => SuitesRunTheSource
  BY <1>1 DEF SuitesRunTheSource
<1> QED
  BY <1>2, LaunchInvariance, PTL

\* The revisions a batch runs are of its round, or of one a reset of its clone
\* opened.
THEOREM BatchesStayInTheirRound == Spec => []OneRoundPerBatch
<1>1. ASSUME IInv, NEW c \in Child, child[c] # NULL
      PROVE  \/ revision[child[c].draft][child[c].rev].round = batch[c[1]].round
             \/ revision[child[c].draft][child[c].rev].round[1] = c
  <2>1. ChildStands(c) /\ CloneStands(c) /\ c[1] \in Batch
    BY <1>1, ChildPair DEF IInv
  <2>2. /\ batch[c[1]] # NULL
        /\ Compiles(child[c].draft, child[c].rev, child[c].graph)
    BY <1>1, <2>1 DEF ChildStands
  <2>3. \/ child[c].draft = batch[c[1]].draft /\ child[c].rev = batch[c[1]].rev
        \/ child[c].draft = c /\ status[c] # "absent"
    BY <1>1, <2>1 DEF ChildStands
  <2>4. BatchStands(c[1])
    BY <2>1, <1>1 DEF IInv
  <2>5. CASE child[c].draft = batch[c[1]].draft /\ child[c].rev = batch[c[1]].rev
    BY <2>2, <2>4, <2>5 DEF BatchStands
  <2>6. CASE child[c].draft = c /\ status[c] # "absent"
    BY <2>1, <2>2, <2>6 DEF CloneStands, Compiles
  <2> QED
    BY <2>3, <2>5, <2>6
<1>2. IInv => OneRoundPerBatch
  BY <1>1 DEF OneRoundPerBatch
<1> QED
  BY <1>2, LaunchInvariance, PTL

\* A complete batch has all its suites and a locked source, whichever threads
\* died on the way.
THEOREM CompleteBatchesAreLaunched == Spec => []CompleteIsLaunched
<1>1. ASSUME IInv, NEW b \in complete
      PROVE  /\ \A f \in Asks[b] : <<b, f>> \in recorded /\ suite[<<b, f>>] # NULL
             /\ status[Source(b)] = "archived" \/ Rev(Source(b)) > batch[b].rev
  <2>1. b \in Batch /\ CompletionStands(b)
    BY <1>1 DEF IInv, LaunchTypeOK, BatchTypes
  <2>2. \A f \in Asks[b] : <<b, f>> \in Child /\ SuiteStands(<<b, f>>)
    BY <1>1, <2>1, AsksFrequencies DEF IInv
  <2> QED
    BY <2>1, <2>2 DEF CompletionStands, AllRecorded, SourceDone, SuiteStands
<1>2. IInv => CompleteIsLaunched
  BY <1>1 DEF CompleteIsLaunched
<1> QED
  BY <1>2, LaunchInvariance, PTL

\* An archived draft gets a revision in a reset only.
LEMMA OnlyResetMovesArchived ==
  ASSUME IInv, Next, NEW d \in Draft, status[d] = "archived", revision'[d] # revision[d]
  PROVE  Reset(d)
<1>0. revision \in [Draft -> Seq(Revision)]
  BY DEF IInv, LaunchTypeOK, DraftTypes
<1>1. ASSUME NEW e \in Draft, User(e) PROVE Reset(d)
  <2>1. CASE Create(e)
    BY <1>0, <2>1 DEF Create
  <2>2. CASE Edit(e)
    BY <1>0, <2>2 DEF Edit, Insert, Editable
  <2>3. CASE Reset(e)
    BY <1>0, <2>3 DEF Reset, Insert
  <2>4. ASSUME NEW c \in Copy, CopyRevision(e, c) PROVE Reset(d)
    BY <1>0, <2>4 DEF CopyRevision
  <2>5. CASE Compile(e) \/ \E t \in Request, b \in Batch : Launch(t, b, e)
    BY <2>5 DEF Compile, Launch, draftVars
  <2> QED
    BY <1>1, <2>1, <2>2, <2>3, <2>4, <2>5 DEF User
<1>2. ASSUME NEW t \in Request, Step(t) PROVE Reset(d)
  <2>1. CASE CloneSource(t)
    <3>1. PICK c \in Missing(job[t].batch) :
            revision' = [revision EXCEPT ![c] =
              IF status[c] = "absent" THEN <<CloneOf(job[t].batch)>> ELSE revision[c]]
      BY <2>1 DEF CloneSource
    <3> QED
      BY <1>0, <3>1
  <2>2. CASE Retune(t)
    BY <1>0, <2>2 DEF Retune, MayRetune, Insert, Editable
  <2>3. CASE BuildClone(t) \/ Bind(t) \/ Admit(t) \/ PublishSuite(t) \/ RecordSuite(t)
             \/ LockChild(t) \/ LockSource(t) \/ Complete(t) \/ Refuse(t)
    BY <2>3 DEF BuildClone, Bind, Admit, PublishSuite, RecordSuite, LockChild, LockSource, Complete,
                Refuse, draftVars
  <2> QED
    BY <1>2, <2>1, <2>2, <2>3 DEF Step
<1>3. ASSUME NEW t \in Request, NEW b \in Batch, Die(t) \/ Resume(t, b) PROVE Reset(d)
  BY <1>3 DEF Die, Resume, draftVars
<1>4. ASSUME NEW t \in Request, Die(t) PROVE Reset(d)
  BY <1>4 DEF Die, draftVars
<1> QED
  BY <1>1, <1>2, <1>3, <1>4 DEF Next

\* What was launched is never edited.
THEOREM LaunchedIsLocked == Spec => LockedUntilReset
<1>1. ASSUME IInv, [Next]_vars, NEW d \in Draft, status[d] = "archived", revision'[d] # revision[d]
      PROVE  Current(d).round \in active /\ Current(d).round \notin active'
  <2>1. Reset(d)
    BY <1>1, OnlyResetMovesArchived DEF vars, draftVars
  <2>2. Current(d).round \in Round
    BY <1>1, Revisions, RevisionFields DEF IInv, LaunchTypeOK
  <2>3. Current(d).round # <<d, Current(d).round[2] + 1>>
    <3>1. Current(d).round[2] \in Nat
      BY <2>2 DEF Round
    <3>2. Current(d).round[2] # Current(d).round[2] + 1
      BY <3>1
    <3>3. <<d, Current(d).round[2] + 1>>[2] = Current(d).round[2] + 1
      OBVIOUS
    <3> QED
      BY <3>2, <3>3
  <2> QED
    BY <2>1, <2>3 DEF Reset
<1>2. IInv /\ [Next]_vars =>
        [\A d \in Draft : status[d] = "archived" /\ revision'[d] # revision[d] =>
           Current(d).round \in active /\ Current(d).round \notin active']_vars
  BY <1>1
<1> QED
  BY <1>2, LaunchInvariance, PTL DEF Spec, LockedUntilReset

-----------------------------------------------------------------------------
(* The orders: what LaunchBatchOrders substitutes *)

orders == [b \in Batch |-> IF batch[b] = NULL THEN NULL ELSE batch[b].graph]
plans == [c \in Child |-> IF child[c] = NULL THEN NULL ELSE child[c].graph]
touched == {c \in Child : Rev(c) > 2}
orderVars == <<orders, plans, touched, suite, complete>>

\* A row stands for an order, or for a plan.
LEMMA OrderRows ==
  ASSUME IInv
  PROVE  /\ \A b \in Batch : (orders[b] = NULL) = (batch[b] = NULL)
         /\ \A b \in Batch : batch[b] # NULL => orders[b] = batch[b].graph
         /\ \A c \in Child : (plans[c] = NULL) = (child[c] = NULL)
         /\ \A c \in Child : child[c] # NULL => plans[c] = child[c].graph
<1>1. \A b \in Batch : batch[b] # NULL => batch[b].graph # NULL
  BY Rows, RowsAreNotNull DEF IInv, LaunchTypeOK, BatchRow
<1>2. \A c \in Child : child[c] # NULL => child[c].graph # NULL
  BY Rows, RowsAreNotNull DEF IInv, LaunchTypeOK, ChildRow
<1> QED
  BY <1>1, <1>2 DEF orders, plans

\* A step that leaves the rows alone, and the number of revisions of every clone.
LEMMA NoOrderMoves ==
  ASSUME UNCHANGED batchVars, \A c \in Child : Rev(c)' = Rev(c)
  PROVE  UNCHANGED orderVars
<1>1. UNCHANGED <<batch, child, suite, complete>>
  BY DEF batchVars
<1>2. touched' = touched
  BY DEF touched
<1> QED
  BY <1>1, <1>2 DEF orders, plans, orderVars

\* Whoever adds a revision to a clone touches it, or it has two of its own.
LEMMA InsertTouches ==
  ASSUME IInv, NEW d \in Draft, status[d] # "absent", NEW r, Insert(d, r), UNCHANGED batchVars
  PROVE  UNCHANGED orderVars \/ \E c \in Child : Orders!Touch(c)
<1>1. revision' = [revision EXCEPT ![d] = Append(@, r)] /\ revision \in [Draft -> Seq(Revision)]
  BY DEF Insert, IInv, LaunchTypeOK, DraftTypes
<1>2. Rev(d) \in Nat /\ Rev(d)' = Rev(d) + 1 /\ \A c \in Draft \ {d} : Rev(c)' = Rev(c)
  BY <1>1 DEF Rev
<1>3. /\ UNCHANGED <<batch, child, suite, complete>>
      /\ orders' = orders /\ plans' = plans
  BY DEF batchVars, orders, plans
<1>4. CASE d \notin Child \/ touched' = touched
  <2>1. touched' = touched
    BY <1>2, <1>4, ChildPair DEF touched
  <2> QED
    BY <1>3, <2>1 DEF orderVars
<1>5. CASE d \in Child /\ touched' # touched
  <2>1. touched' = touched \cup {d}
    <3>1. ASSUME NEW c \in Child
          PROVE  (Rev(c)' > 2) = (Rev(c) > 2 \/ c = d)
      <4>1. CASE c = d
        <5>1. Rev(d)' > 2
          <6>1. ASSUME ~(Rev(d)' > 2) PROVE touched' = touched
            BY <1>2, <6>1, ChildPair DEF touched
          <6> QED
            BY <1>5, <6>1
        <5> QED
          BY <4>1, <5>1
      <4>2. CASE c # d
        BY <1>2, <4>2, ChildPair
      <4> QED
        BY <4>1, <4>2
    <3> QED
      BY <1>5, <3>1 DEF touched
  <2>2. orders[d[1]] # NULL
    BY <1>5, ChildPair, OrderRows DEF IInv, CloneStands
  <2> QED
    BY <1>3, <1>5, <2>1, <2>2 DEF Orders!Touch, orders, plans, touched
<1> QED
  BY <1>4, <1>5

\* What a user does to drafts.
LEMMA UserKeepsOrders ==
  ASSUME IInv, NEW d \in Draft, Create(d) \/ Edit(d) \/ Compile(d) \/ Reset(d) \/ \E c \in Copy : CopyRevision(d, c)
  PROVE  UNCHANGED orderVars \/ \E c \in Child : Orders!Touch(c)
<1>0. revision \in [Draft -> Seq(Revision)]
  BY DEF IInv, LaunchTypeOK, DraftTypes
<1>1. CASE Create(d)
  <2>1. \A c \in Child : revision'[c] = revision[c]
    BY <1>0, <1>1, ChildPair DEF Create
  <2> QED
    BY <1>1, <2>1, NoOrderMoves DEF Create, Rev
<1>2. CASE Edit(d)
  BY <1>2, InsertTouches DEF Edit, Editable
<1>3. CASE Compile(d)
  BY <1>3, NoOrderMoves DEF Compile, Rev
<1>4. CASE Reset(d)
  BY <1>4, InsertTouches DEF Reset
<1>5. ASSUME NEW e \in Copy, CopyRevision(d, e)
      PROVE  UNCHANGED orderVars
  <2>1. \A c \in Child : revision'[c] = revision[c]
    BY <1>0, <1>5, ChildPair DEF CopyRevision
  <2> QED
    BY <1>5, <2>1, NoOrderMoves DEF CopyRevision, Rev
<1> QED
  BY <1>1, <1>2, <1>3, <1>4, <1>5

\* A launch places an order.
LEMMA LaunchPlaces ==
  ASSUME IInv, NEW t \in Request, NEW b \in Batch, NEW d \in Draft, Launch(t, b, d)
  PROVE  \E g \in Graph : Orders!Place(b, g)
<1>0. PICK g : g = compiled[d]
  OBVIOUS
<1> DEFINE row == [draft |-> d, rev |-> Rev(d), graph |-> g, round |-> Current(d).round]
           bound == [draft |-> d, rev |-> Rev(d), graph |-> g]
<1>1. /\ batch[b] = NULL /\ g \in Graph /\ g # NULL
      /\ status[d] # "absent"
  BY <1>0 DEF Launch, IInv, LaunchTypeOK, DraftTypes
<1>2. row \in BatchRow /\ bound \in ChildRow
  <2>1. /\ Rev(d) \in Nat \ {0} /\ Current(d).round \in Round
    BY <1>1, Revisions, RevisionFields DEF IInv, LaunchTypeOK
  <2> QED
    BY <1>1, <2>1 DEF BatchRow, ChildRow
<1>3. row # NULL /\ bound # NULL
  BY <1>2, RowsAreNotNull
<1>4. orders' = [orders EXCEPT ![b] = g]
  <2>1. batch' = [batch EXCEPT ![b] = row] /\ batch \in [Batch -> {NULL} \cup BatchRow]
    BY <1>0 DEF Launch, IInv, LaunchTypeOK, BatchTypes
  <2>2. batch'[b] = row /\ \A e \in Batch \ {b} : batch'[e] = batch[e]
    BY <2>1
  <2>3. ASSUME NEW e \in Batch
        PROVE  orders'[e] = IF e = b THEN g ELSE orders[e]
    BY <1>3, <2>2 DEF orders
  <2>4. orders' = [e \in Batch |-> orders'[e]] /\ orders = [e \in Batch |-> orders[e]]
    BY DEF orders
  <2> QED
    BY <2>3, <2>4
<1>5. plans' = [c \in Child |-> IF c[1] = b /\ c[2] \in Asks[b] /\ c[2] = g.freq THEN g ELSE plans[c]]
  <2>1. \A c \in Child : child'[c] = IF c[1] = b /\ c[2] \in Asks[b] /\ c[2] = g.freq
                                     THEN bound ELSE child[c]
    BY <1>0 DEF Launch
  <2> QED
    BY <1>3, <2>1 DEF plans
<1>6. touched' = touched /\ UNCHANGED <<suite, complete>>
  BY DEF Launch, draftVars, touched, Rev
<1>7. orders[b] = NULL
  BY <1>1, OrderRows
<1>8. Orders!Place(b, g)
  <2>1. Orders!Child = Child
    BY DEF Orders!Child, Child
  <2> QED
    BY <1>4, <1>5, <1>6, <1>7, <2>1 DEF Orders!Place, orders, plans, touched
<1> QED
  BY <1>1, <1>8

\* The study of a clone that nobody else wrote to is the one launched: in its
\* first two revisions only the frequency was changed.
LEMMA CloneHasTheStudy ==
  ASSUME IInv, NEW c \in Child, status[c] # "absent", NEW n, NEW g \in Graph,
         Compiles(c, n, g), g.freq = c[2], ~(Rev(c) > 2)
  PROVE  g.study = batch[c[1]].graph.study
<1> DEFINE source == batch[c[1]]
<1>1. /\ source # NULL /\ source.graph.freq # c[2] /\ revision[c][1] = CloneOf(c[1])
      /\ Rev(c) >= 2 => \/ revision[c][2].freq = source.graph.freq
                        \/ revision[c][2].study \in {source.graph.study, Empty}
  BY DEF IInv, CloneStands
<1>2. GraphOf(CloneOf(c[1])) = source.graph
  BY <1>1, ChildPair, SourceRevision
<1>3. Rev(c) \in Nat /\ n \in 1..Rev(c)
  BY ChildPair, Revisions DEF Compiles, IInv, LaunchTypeOK
<1>4. g.freq = revision[c][n].freq /\ g.study = revision[c][n].study
  BY DEF Compiles, GraphOf
<1>5. g.study # Empty
  BY LaunchAssumption DEF Graph
<1>6. n # 1
  BY <1>1, <1>2, <1>4 DEF GraphOf
<1>7. n = 2 /\ Rev(c) >= 2
  BY <1>3, <1>6
<1> QED
  BY <1>1, <1>4, <1>5, <1>7

LEMMA BindPlans ==
  ASSUME IInv, NEW t \in Request, Bind(t)
  PROVE  UNCHANGED orderVars \/ \E c \in Child, g \in Graph : Orders!Plan(c, g)
<1>0. PICK c, g : c = job[t].child /\ g = built[c].graph
  OBVIOUS
<1>1. /\ c \in Child /\ c[1] \in Batch /\ c[2] \in Asks[c[1]] /\ batch[c[1]] # NULL
      /\ HasClone(job[t]) /\ job[t].at = "bind"
  BY <1>0, AtClone, AtWork, ChildPair DEF Bind, At
<1>2. /\ built[c] # NULL /\ built[c].rev = job[t].rev /\ built[c] \in CompileRow
      /\ revision[c][job[t].rev].freq = c[2] /\ status[c] # "absent"
  BY <1>0, <1>1, Rows DEF HasClone, IInv, LaunchTypeOK
<1>3. Compiles(c, built[c].rev, g) /\ g.freq = c[2] /\ g \in Graph /\ g # NULL
  BY <1>0, <1>1, <1>2, RowsAreNotNull DEF IInv, CommandStands, Compiles, GraphOf, CompileRow
<1> DEFINE row == [draft |-> c, rev |-> job[t].rev, graph |-> g]
<1>4. row # NULL
  <2>1. row \in ChildRow
    BY <1>0, <1>1, <1>2, <1>3, ChildPair DEF ChildRow, CompileRow
  <2> QED
    BY <2>1, RowsAreNotNull
<1>5. /\ child' = [child EXCEPT ![c] = IF @ = NULL THEN row ELSE @]
      /\ UNCHANGED <<revision, batch, suite, complete>>
  BY <1>0 DEF Bind, draftVars
<1>6. touched' = touched /\ orders' = orders
  BY <1>5 DEF touched, Rev, orders
<1>7. child \in [Child -> {NULL} \cup ChildRow]
  BY DEF IInv, LaunchTypeOK, BatchTypes
<1>8. CASE child[c] # NULL
  <2>1. child' = child
    BY <1>5, <1>7, <1>8
  <2> QED
    BY <1>5, <1>6, <2>1 DEF plans, orderVars
<1>9. CASE child[c] = NULL
  <2>1. plans' = [plans EXCEPT ![c] = g]
    <3>1. child'[c] = row /\ \A e \in Child \ {c} : child'[e] = child[e]
      BY <1>1, <1>5, <1>7, <1>9
    <3>2. ASSUME NEW e \in Child
          PROVE  plans'[e] = IF e = c THEN g ELSE plans[e]
      BY <1>4, <3>1 DEF plans
    <3>3. plans' = [e \in Child |-> plans'[e]] /\ plans = [e \in Child |-> plans[e]]
      BY DEF plans
    <3> QED
      BY <3>2, <3>3
  <2>2. orders[c[1]] # NULL /\ orders[c[1]] = batch[c[1]].graph /\ plans[c] = NULL
    BY <1>1, <1>9, OrderRows
  <2>3. g.study = orders[c[1]].study \/ c \in touched
    BY <1>1, <1>2, <1>3, <2>2, CloneHasTheStudy DEF touched
  <2>4. Orders!Plan(c, g)
    BY <1>1, <1>3, <1>5, <1>6, <2>1, <2>2, <2>3 DEF Orders!Plan, orders, plans, touched
  <2> QED
    BY <1>1, <1>3, <2>4
<1> QED
  BY <1>8, <1>9

\* A suite is begun when every frequency has its plan.
LEMMA PublishBegins ==
  ASSUME IInv, NEW t \in Request, PublishSuite(t)
  PROVE  UNCHANGED orderVars \/ \E c \in Child : Orders!Begin(c)
<1>0. PICK c : c = ChildOf(t)
  OBVIOUS
<1>1. /\ job[t].batch \in Batch /\ AllBound(job[t].batch) /\ HasTodo(job[t])
      /\ c \in Child /\ c[1] = job[t].batch /\ c[2] \in Asks[c[1]]
      /\ child[c] # NULL
  <2>1. job[t].at = "submit" /\ ~At(t, "idle")
    BY DEF PublishSuite, At
  <2>2. /\ AllBound(job[t].batch) /\ HasTodo(job[t]) /\ First(job[t].todo) \in job[t].todo
        /\ c \in Child /\ child[c] \in ChildRow
    BY <1>0, <2>1, AtSuite
  <2>3. c[1] = job[t].batch /\ c[2] = First(job[t].todo)
    BY <1>0 DEF ChildOf
  <2> QED
    BY <2>1, <2>2, <2>3, AtWork, RowsAreNotNull DEF HasTodo
<1>2. /\ suite[c] \in {NULL, child[c].graph} /\ suite' = [suite EXCEPT ![c] = child[c].graph]
      /\ UNCHANGED <<revision, batch, child, complete>>
  BY <1>0 DEF PublishSuite, draftVars
<1>3. touched' = touched /\ orders' = orders /\ plans' = plans
  BY <1>2 DEF touched, Rev, orders, plans
<1>4. suite \in [Child -> Graph \cup {NULL}]
  BY DEF IInv, LaunchTypeOK, BatchTypes
<1>5. CASE suite[c] # NULL
  <2>1. suite' = suite
    BY <1>1, <1>2, <1>4, <1>5
  <2> QED
    BY <1>2, <1>3, <2>1 DEF orderVars
<1>6. CASE suite[c] = NULL
  <2>1. plans[c] = child[c].graph
    BY <1>1, OrderRows
  <2>2. \A f \in Asks[c[1]] : plans[<<c[1], f>>] # NULL
    BY <1>1, AsksFrequencies, OrderRows DEF AllBound
  <2>3. Orders!Begin(c)
    BY <1>1, <1>2, <1>3, <1>6, <2>1, <2>2 DEF Orders!Begin, orders, plans, touched
  <2> QED
    BY <1>1, <2>3
<1> QED
  BY <1>5, <1>6

LEMMA CompleteFinishes ==
  ASSUME IInv, NEW t \in Request, Complete(t)
  PROVE  \E b \in Batch : Orders!Finish(b)
<1>0. PICK b : b = job[t].batch
  OBVIOUS
<1>1. b \in Batch /\ AllRecorded(b)
  BY <1>0, AtWork DEF Complete, At, JobStands
<1>2. /\ complete' = complete \cup {b} /\ UNCHANGED <<revision, batch, child, suite>>
  BY <1>0 DEF Complete, draftVars
<1>3. touched' = touched /\ orders' = orders /\ plans' = plans
  BY <1>2 DEF touched, Rev, orders, plans
<1>4. \A f \in Asks[b] : suite[<<b, f>>] # NULL
  BY <1>1, AsksFrequencies DEF IInv, SuiteStands, AllRecorded
<1> QED
  BY <1>1, <1>2, <1>3, <1>4 DEF Orders!Finish, orders, plans, touched

\* A clone is new, or as it was; its first revision is not a user's.
LEMMA CloneKeepsOrders ==
  ASSUME IInv, NEW t \in Request, CloneSource(t)
  PROVE  UNCHANGED orderVars
<1>1. PICK c \in Missing(job[t].batch) :
        revision' = [revision EXCEPT ![c] =
          IF status[c] = "absent" THEN <<CloneOf(job[t].batch)>> ELSE revision[c]]
  BY DEF CloneSource
<1>2. revision \in [Draft -> Seq(Revision)] /\ UNCHANGED <<batch, child, suite, complete>>
  BY DEF CloneSource, batchVars, IInv, LaunchTypeOK, DraftTypes
<1>3. \A e \in Draft : Rev(e)' = Rev(e) \/ (Rev(e)' = 1 /\ Rev(e) = 0)
  <2>1. ASSUME NEW e \in Draft, e # c PROVE Rev(e)' = Rev(e)
    BY <1>1, <1>2, <2>1 DEF Rev
  <2>2. CASE status[c] # "absent"
    BY <1>1, <1>2, <2>1, <2>2 DEF Rev
  <2>3. ASSUME status[c] = "absent", c \in Draft
        PROVE  Rev(c)' = 1 /\ Rev(c) = 0
    <3>1. revision'[c] = <<CloneOf(job[t].batch)>>
      BY <1>1, <1>2, <2>3
    <3>2. Rev(c) = 0
      BY <2>3, Revisions DEF IInv, LaunchTypeOK
    <3> QED
      BY <3>1, <3>2 DEF Rev
  <2> QED
    BY <2>1, <2>2, <2>3
<1>4. touched' = touched
  <2>1. ASSUME NEW e \in Child PROVE (Rev(e)' > 2) = (Rev(e) > 2)
    BY <1>3, ChildPair
  <2> QED
    BY <2>1 DEF touched
<1> QED
  BY <1>2, <1>4 DEF orders, plans, orderVars

\* The event set_frequency is the clone's second revision, or a repeated one.
LEMMA RetuneKeepsOrders ==
  ASSUME IInv, NEW t \in Request, Retune(t)
  PROVE  UNCHANGED orderVars \/ \E c \in Child : Orders!Touch(c)
<1>0. PICK c : c = job[t].child
  OBVIOUS
<1>1. c \in Draft /\ HasClone(job[t])
  BY <1>0, AtClone DEF Retune, At
<1>2. UNCHANGED batchVars
  BY DEF Retune
<1>3. CASE retuned[c] # NULL
  BY <1>0, <1>2, <1>3, NoOrderMoves DEF Retune, Rev
<1>4. CASE retuned[c] = NULL
  BY <1>0, <1>1, <1>2, <1>4, InsertTouches DEF Retune, HasClone
<1> QED
  BY <1>3, <1>4

LEMMA OrdersStep ==
  ASSUME IInv, [Next]_vars
  PROVE  [Orders!Next]_orderVars
<1>1. CASE UNCHANGED vars
  BY <1>1, NoOrderMoves DEF vars, draftVars, Rev
<1>2. ASSUME NEW d \in Draft, User(d)
      PROVE  [Orders!Next]_orderVars
  <2>1. ASSUME NEW t \in Request, NEW b \in Batch, Launch(t, b, d)
        PROVE  Orders!Next
    BY <2>1, LaunchPlaces DEF Orders!Next
  <2> QED
    BY <1>2, <2>1, UserKeepsOrders DEF User, Orders!Next, Orders!Child, Child
<1>3. ASSUME NEW t \in Request, Step(t)
      PROVE  [Orders!Next]_orderVars
  <2>1. CASE CloneSource(t)
    BY <2>1, CloneKeepsOrders
  <2>2. CASE Retune(t)
    BY <2>2, RetuneKeepsOrders DEF Orders!Next, Orders!Child, Child
  <2>3. CASE Bind(t)
    BY <2>3, BindPlans DEF Orders!Next, Orders!Child, Child
  <2>4. CASE PublishSuite(t)
    BY <2>4, PublishBegins DEF Orders!Next, Orders!Child, Child
  <2>5. CASE Complete(t)
    BY <2>5, CompleteFinishes DEF Orders!Next
  <2>6. CASE BuildClone(t) \/ Admit(t) \/ LockChild(t) \/ LockSource(t) \/ Refuse(t)
    <3>1. UNCHANGED batchVars /\ UNCHANGED revision
      BY <2>6 DEF BuildClone, Admit, LockChild, LockSource, Refuse, draftVars
    <3> QED
      BY <3>1, NoOrderMoves DEF Rev
  <2>7. CASE RecordSuite(t)
    BY <2>7 DEF RecordSuite, draftVars, orders, plans, touched, Rev, orderVars
  <2> QED
    BY <1>3, <2>1, <2>2, <2>3, <2>4, <2>5, <2>6, <2>7 DEF Step
<1>4. ASSUME NEW t \in Request, NEW b \in Batch, Die(t) \/ Resume(t, b)
      PROVE  UNCHANGED orderVars
  <2>1. UNCHANGED batchVars /\ UNCHANGED revision
    BY <1>4 DEF Die, Resume, draftVars
  <2> QED
    BY <2>1, NoOrderMoves DEF Rev
<1>5. ASSUME NEW t \in Request, Die(t)
      PROVE  UNCHANGED orderVars
  <2>1. UNCHANGED batchVars /\ UNCHANGED revision
    BY <1>5 DEF Die, draftVars
  <2> QED
    BY <2>1, NoOrderMoves DEF Rev
<1> QED
  BY <1>1, <1>2, <1>3, <1>4, <1>5 DEF Next

\* Threads that race, die and repeat commands under derived keys, with users who
\* edit, copy and reset drafts meanwhile, implement LaunchOrders.
THEOREM OrdersAreKept == Spec => KeepsOrders
<1>1. IInv /\ [Next]_vars =>
        [Orders!Next]_<<[b \in Batch |-> IF batch[b] = NULL THEN NULL ELSE batch[b].graph],
                        [c \in Child |-> IF child[c] = NULL THEN NULL ELSE child[c].graph],
                        {c \in Child : Rev(c) > 2}, suite, complete>>
  BY OrdersStep DEF orderVars, orders, plans, touched
<1>2. Init => Orders!Init
  <2>1. ASSUME Init, NEW c \in Child
        PROVE  Rev(c) = 0
    BY <2>1, ChildPair DEF Init, Rev
  <2> QED
    BY <2>1 DEF Init, Orders!Init, Orders!Child, Child
<1> QED
  BY <1>1, <1>2, LaunchInvariance, PTL DEF Spec, KeepsOrders, Orders!Spec

=============================================================================
