--------------------------- MODULE ProductDecision ---------------------------
(***************************************************************************)
(* Products after promotion: every session of a Product's schedule gets    *)
(* one immutable decision, made from the data frozen for that session, and *)
(* one immutable monitoring snapshot that counts the decisions so far.     *)
(*                                                                         *)
(* Product workers poll.  A cycle reads the clock once, prepares the input *)
(* of every session that is pending, decides the first session that is due *)
(* and reports it; each of these is a transaction of its own and nothing   *)
(* is leased, so workers overlap with each other, with the operators who   *)
(* change a lifecycle or prepare an input, and with promotion.             *)
(*                                                                         *)
(* Session s of every schedule has its cutoff at time s.  The data through *)
(* session n become available when their Dataset Gate is published.        *)
(*                                                                         *)
(* Bounds: N sessions, Horizon ticks of the clock, MaxTrouble lifecycle    *)
(* events, faults and further workers, taken together; the refresh limit   *)
(* of 50 pending sessions is not reached.                                  *)
(*                                                                         *)
(* An operator whose comment begins with Fault is the operator below it    *)
(* with a plausible bug; it is used only to see a property fail.           *)
(***************************************************************************)
EXTENDS Integers, Sequences, FiniteSets

CONSTANTS
  Product,     \* enrollments, in the order of their identities
  N,           \* sessions of a schedule
  Horizon,     \* bound: the last time
  Worker,      \* product worker processes
  Main,        \* the worker that runs with --forever; the others run one cycle
  Anchor,      \* Anchor[p]: when the Execution Version of p was created
  Governed,    \* products whose lifecycle operators change
  Supervised,  \* products whose aggregation needs an Ensemble State
  Gappy,       \* <<p, s>> whose frozen data cannot be calculated
  MaxTrouble   \* bound: lifecycle events, exceptions, deaths and further workers

ASSUME ProductAssumption ==
  /\ Product \subseteq Nat /\ N \in Nat \ {0} /\ Horizon \in Nat /\ Horizon >= N
  /\ Anchor \in [Product -> 0..(N - 1)] /\ Governed \subseteq Product
  /\ Supervised \subseteq Product /\ Gappy \subseteq Product \X (1..N)
  /\ Main \in Worker /\ MaxTrouble \in Nat

Session == 1..N
Time == 0..Horizon

VARIABLES
  now,
  gate,      \* gate[n]: when the data through session n were published, or 0
  first,     \* first[p]: v022_product_enrollment, its first eligible session, or 0
  frozen,    \* products with a published Ensemble State
  life,      \* life[p]: v022_enrollment_lifecycle_event, by sequence number
  snapshot,  \* v022_product_input_snapshot: the gate bound to a session, or 0
  raw,       \* how many raw payloads of a snapshot are bound: no, some or all
  run,       \* the Stage-1 Graph Run over a session's snapshot
  decision,  \* v022_product_decision
  monitor,   \* v022_oos_monitoring_snapshot as of a session: the sessions it counts
  hand,      \* what a worker process is doing
  faults     \* exceptions and deaths so far

marketVars == <<now, gate>>
productVars == <<first, frozen, life>>
ledgerVars == <<snapshot, raw, run, decision, monitor>>
vars == <<marketVars, productVars, ledgerVars, hand, faults>>

Lifecycle == {"active", "suspended", "retired"}
Event == [to : Lifecycle, at : Time]
Missing == {"no_state", "no_outputs", "no_data"}
Outcome == {"completed"} \cup Missing
Raw == {"none", "partial", "complete"}

Off == [phase |-> "off"]
Down == [phase |-> "down"]
Idle == [phase |-> "idle"]
Hand ==
  {Off, Down, Idle}
  \cup [phase : {"prepare"}, at : Time, todo : SUBSET (Product \X Session)]
  \cup [phase : {"plan", "raw", "work", "derive"}, p : Product, s : Session]
  \cup [phase : {"publish", "monitor"}, p : Product, s : Session, answer : Outcome]

Init ==
  /\ now = 0 /\ gate = [n \in Session |-> 0]
  /\ first = [p \in Product |-> 0] /\ frozen = {} /\ life = [p \in Product |-> <<>>]
  /\ snapshot = [p \in Product |-> [s \in Session |-> 0]]
  /\ raw = [p \in Product |-> [s \in Session |-> "none"]]
  /\ run = [p \in Product |-> [s \in Session |-> "none"]]
  /\ decision = [p \in Product |-> [s \in Session |-> "none"]]
  /\ monitor = [p \in Product |-> [s \in Session |-> {}]]
  /\ hand = [w \in Worker |-> IF w = Main THEN Down ELSE Off] /\ faults = 0

-----------------------------------------------------------------------------
(* What the queries see *)

\* The events of p that are effective at t; the latest of them rules.
EffectiveAt(p, t) == {i \in DOMAIN life[p] : life[p][i].at <= t}
LifeAt(p, t) ==
  IF EffectiveAt(p, t) = {} THEN "active"
  ELSE life[p][CHOOSE i \in EffectiveAt(p, t) : \A j \in EffectiveAt(p, t) : j <= i].to

Decided(p, s) == decision[p][s] # "none"
Eligible(p, s) == first[p] # 0 /\ first[p] <= s

\* A session whose cutoff has passed, of a product that is active, undecided.
Pending(p, s, t) == Eligible(p, s) /\ s <= t /\ ~Decided(p, s) /\ LifeAt(p, t) = "active"

\* Gates that cover s, published by t after its cutoff; the earliest is bound.
Candidates(s, t) == {n \in Session : n >= s /\ gate[n] # 0 /\ s <= gate[n] /\ gate[n] <= t}
Candidate(n, s, t) == n \in Candidates(s, t) /\ \A m \in Candidates(s, t) : n <= m

\* Both queries order by the cutoff, then by the identity of the enrollment.
Before(i, j) == i[2] < j[2] \/ (i[2] = j[2] /\ i[1] < j[1])
IsLeast(i, S) == i \in S /\ \A j \in S \ {i} : Before(i, j)

\* Fault: the sessions before it are not looked at.
IsDueAnyhow(p, s, t) == Pending(p, s, t)
\* Fault: the session itself counts as one before it.
IsDueAfterItself(p, s, t) ==
  Pending(p, s, t) /\ \A r \in Session : first[p] <= r /\ r <= s => Decided(p, r)
\* A product is due for the first of its sessions that is undecided.
IsDue(p, s, t) == Pending(p, s, t) /\ \A r \in Session : first[p] <= r /\ r < s => Decided(p, r)

DueAt(t) == {i \in Product \X Session : IsDue(i[1], i[2], t)}
\* Only a session with a prepared input is decided, and those come first.
PreparedDue(t) == {i \in DueAt(t) : snapshot[i[1]][i[2]] # 0}

-----------------------------------------------------------------------------
(* Time, data, operators *)

Tick ==
  /\ now < Horizon /\ now' = now + 1
  /\ UNCHANGED <<gate, productVars, ledgerVars, hand, faults>>

\* Data grow: a gate through session n follows every gate it extends.
PublishGate(n) ==
  /\ gate[n] = 0 /\ n <= now /\ \A m \in Session : m > n => gate[m] = 0
  /\ gate' = [gate EXCEPT ![n] = now]
  /\ UNCHANGED <<now, productVars, ledgerVars, hand, faults>>

\* The first session after the anchor is the first eligible one, even when its
\* cutoff has passed: the enrollment may come long after the Execution Version.
Enroll(p) ==
  /\ first[p] = 0 /\ Anchor[p] <= now
  /\ first' = [first EXCEPT ![p] = Anchor[p] + 1]
  /\ UNCHANGED <<marketVars, frozen, life, ledgerVars, hand, faults>>

\* The next transaction of promotion, which may never come.
FreezeState(p) ==
  /\ first[p] # 0 /\ p \in Supervised /\ p \notin frozen
  /\ frozen' = frozen \cup {p}
  /\ UNCHANGED <<marketVars, first, life, ledgerVars, hand, faults>>

Allowed(from) ==
  CASE from = "active"    -> {"suspended", "retired"}
    [] from = "suspended" -> {"active", "retired"}
    [] from = "retired"   -> {}

\* The effective time precedes neither the request, which the frontend dates now,
\* nor the event before.
ChangeLifecycle(p, to, at) ==
  LET last == Len(life[p])
  IN  /\ first[p] # 0
      /\ to \in Allowed(IF last = 0 THEN "active" ELSE life[p][last].to)
      /\ now <= at
      /\ last > 0 => life[p][last].at <= at
      /\ life' = [life EXCEPT ![p] = Append(@, [to |-> to, at |-> at])]
      /\ UNCHANGED <<marketVars, first, frozen, ledgerVars, hand, faults>>

\* _validate_source: the lifecycle that counts is that of the moment the
\* inputs became available, not of the moment they are prepared.
Preparable(p, s, n) ==
  /\ Eligible(p, s) /\ n >= s /\ gate[n] # 0 /\ s <= gate[n]
  /\ LifeAt(p, gate[n]) = "active" /\ snapshot[p][s] \in {0, n}
Bind(p, s, n) == snapshot' = [snapshot EXCEPT ![p][s] = n]

\* An operator may bind any gate that covers the session.
OperatorPrepare(p, s, n) ==
  /\ Preparable(p, s, n) /\ Bind(p, s, n)
  /\ UNCHANGED <<marketVars, productVars, raw, run, decision, monitor, hand, faults>>

-----------------------------------------------------------------------------
(* The worker *)

Goes(w, h) == hand' = [hand EXCEPT ![w] = h]
Rest(w) == IF w = Main THEN Idle ELSE Down
InPhase(w, phase) == hand[w].phase = phase

\* What is bounded: the events, the faults and the further workers.
Events == UNION {{p} \X DOMAIN life[p] : p \in Product}
Trouble == Cardinality(Events) + faults + Cardinality({w \in Worker \ {Main} : hand[w] # Off})

\* Nothing keeps an operator from running a second worker, for one item.
Join(w) ==
  /\ Trouble < MaxTrouble /\ hand[w] = Off /\ Goes(w, Idle)
  /\ UNCHANGED <<marketVars, productVars, ledgerVars, faults>>

Start(w) ==
  /\ w = Main /\ InPhase(w, "down") /\ Goes(w, Idle)
  /\ UNCHANGED <<marketVars, productVars, ledgerVars, faults>>

\* A cycle begins: the clock is read, and what can be prepared is listed.
Observe(w) ==
  /\ InPhase(w, "idle")
  /\ LET todo == {i \in Product \X Session :
                    /\ Pending(i[1], i[2], now)
                    /\ snapshot[i[1]][i[2]] = 0 /\ Candidates(i[2], now) # {}}
     IN  Goes(w, [phase |-> "prepare", at |-> now, todo |-> todo])
  /\ UNCHANGED <<marketVars, productVars, ledgerVars, faults>>

\* A refusal is a ValueError that nothing catches: the process ends.
Prepare(w) ==
  /\ InPhase(w, "prepare")
  /\ \E i \in hand[w].todo, n \in Session :
       /\ IsLeast(i, hand[w].todo) /\ Candidate(n, i[2], hand[w].at)
       /\ IF Preparable(i[1], i[2], n)
          THEN Bind(i[1], i[2], n) /\ Goes(w, [hand[w] EXCEPT !.todo = @ \ {i}])
          ELSE Goes(w, Down) /\ UNCHANGED snapshot
  /\ UNCHANGED <<marketVars, productVars, raw, run, decision, monitor, faults>>

\* The first session that is due, by the clock read when the cycle began.
Due(w) ==
  /\ InPhase(w, "prepare") /\ hand[w].todo = {}
  /\ LET prepared == PreparedDue(hand[w].at)
     IN  IF prepared = {} THEN Goes(w, Rest(w))
         ELSE \E i \in prepared :
                IsLeast(i, prepared) /\ Goes(w, [phase |-> "plan", p |-> i[1], s |-> i[2]])
  /\ UNCHANGED <<marketVars, productVars, ledgerVars, faults>>

\* _existing_raw_payload_bundle: no payload is bound to the snapshot yet, or a set
\* that is not whole is refused as raw_payload_binding_set_incomplete ("failed").
\* A whole set stays as it is: Plan finds it too.
FindRaw(w) ==
  /\ InPhase(w, "plan")
  /\ \/ raw[hand[w].p][hand[w].s] = "none" /\ Goes(w, [hand[w] EXCEPT !.phase = "raw"])
     \/ raw[hand[w].p][hand[w].s] = "partial" /\ Goes(w, Rest(w))
  /\ UNCHANGED <<marketVars, productVars, ledgerVars, faults>>

\* Each payload and its binding are an Artifact transaction of their own, here
\* the first one and the others; one that another worker has published is reused.
PublishRaw(w) ==
  /\ InPhase(w, "raw")
  /\ LET p == hand[w].p  s == hand[w].s
     IN  IF raw[p][s] = "none"
         THEN raw' = [raw EXCEPT ![p][s] = "partial"] /\ UNCHANGED hand
         ELSE /\ raw' = [raw EXCEPT ![p][s] = "complete"]
              /\ Goes(w, [hand[w] EXCEPT !.phase = "plan"])
  /\ UNCHANGED <<marketVars, productVars, snapshot, run, decision, monitor, faults>>

\* The Stage-1 run is planned, or the plan is found.  A run found open is a
\* contract error ("failed"); one found complete is replayed, and a replay
\* returns no output of the later stages.
Plan(w) ==
  /\ InPhase(w, "plan") /\ raw[hand[w].p][hand[w].s] = "complete"
  /\ LET p == hand[w].p  s == hand[w].s
     IN  \/ /\ run[p][s] = "none"
            /\ run' = [run EXCEPT ![p][s] = "open"]
            /\ Goes(w, [phase |-> "work", p |-> p, s |-> s])
         \/ /\ run[p][s] = "open" /\ Goes(w, Rest(w)) /\ UNCHANGED run
         \/ /\ run[p][s] = "done" /\ UNCHANGED run
            /\ Goes(w, [phase |-> "publish", p |-> p, s |-> s, answer |-> "no_outputs"])
  /\ UNCHANGED <<marketVars, productVars, snapshot, raw, decision, monitor, faults>>

\* Fault: the later stages are left to the next cycle.
WorkOnly(w) ==
  /\ InPhase(w, "work")
  /\ run' = [run EXCEPT ![hand[w].p][hand[w].s] = "done"]
  /\ Goes(w, Rest(w))
  /\ UNCHANGED <<marketVars, productVars, snapshot, raw, decision, monitor, faults>>
\* The items of Stage 1 are executed one after the other.
Work(w) ==
  /\ InPhase(w, "work")
  /\ run' = [run EXCEPT ![hand[w].p][hand[w].s] = "done"]
  /\ Goes(w, [phase |-> "derive", p |-> hand[w].p, s |-> hand[w].s])
  /\ UNCHANGED <<marketVars, productVars, snapshot, raw, decision, monitor, faults>>

\* Fault: a supervised product without a state is treated as deterministic.
DerivedStateless(p, s) == IF <<p, s>> \in Gappy THEN "no_data" ELSE "completed"
\* Later stages, Aggregation and targets; a data error is an answer too.
Derived(p, s) ==
  IF <<p, s>> \in Gappy THEN "no_data"
  ELSE IF p \in Supervised \ frozen THEN "no_state" ELSE "completed"
Derive(w) ==
  /\ InPhase(w, "derive")
  /\ Goes(w, [phase |-> "publish", p |-> hand[w].p, s |-> hand[w].s,
              answer |-> Derived(hand[w].p, hand[w].s)])
  /\ UNCHANGED <<marketVars, productVars, ledgerVars, faults>>

\* An exception: "failed", unless it is raised by the handler that publishes
\* a missing decision, from which it escapes.
AfterException(w) ==
  IF hand[w].phase \in {"publish", "monitor"} /\ hand[w].answer \in Missing
  THEN Down ELSE Rest(w)

\* Fault: the decision that is there is not compared.
PublishOver(w) ==
  /\ InPhase(w, "publish")
  /\ decision' = [decision EXCEPT ![hand[w].p][hand[w].s] = hand[w].answer]
  /\ Goes(w, [hand[w] EXCEPT !.phase = "monitor"])
  /\ UNCHANGED <<marketVars, productVars, snapshot, raw, run, monitor, faults>>
\* A decision of the session that is there already must be the same.
Publish(w) ==
  /\ InPhase(w, "publish")
  /\ LET p == hand[w].p  s == hand[w].s  answer == hand[w].answer
     IN  IF decision[p][s] \in {"none", answer}
         THEN /\ decision' = [decision EXCEPT ![p][s] = answer]
              /\ Goes(w, [hand[w] EXCEPT !.phase = "monitor"])
         ELSE Goes(w, AfterException(w)) /\ UNCHANGED decision
  /\ UNCHANGED <<marketVars, productVars, snapshot, raw, run, monitor, faults>>

\* Fault: the decisions are counted as of the clock, not of the session.
CountedByNow(p, s) == {r \in Session : first[p] <= r /\ r <= now /\ Decided(p, r)}
\* The decisions a snapshot as of s counts.
Counted(p, s) == {r \in Session : first[p] <= r /\ r <= s /\ Decided(p, r)}

\* The worker that published the decision reports it.  A snapshot of the session
\* that is there already must be the same (a unique key of the table).
Report(w, p, s) ==
  IF monitor[p][s] \in {{}, Counted(p, s)}
  THEN monitor' = [monitor EXCEPT ![p][s] = Counted(p, s)] /\ Goes(w, Rest(w))
  ELSE Goes(w, AfterException(w)) /\ UNCHANGED monitor

\* Fault: a missing decision is not monitored.
MonitorCompleted(w) ==
  /\ InPhase(w, "monitor")
  /\ IF hand[w].answer \in Missing THEN Goes(w, Rest(w)) /\ UNCHANGED monitor
     ELSE Report(w, hand[w].p, hand[w].s)
  /\ UNCHANGED <<marketVars, productVars, snapshot, raw, run, decision, faults>>
Monitor(w) ==
  /\ InPhase(w, "monitor") /\ Report(w, hand[w].p, hand[w].s)
  /\ UNCHANGED <<marketVars, productVars, snapshot, raw, run, decision, faults>>

\* Anything may raise: the database, the disk, a contract of the runtime.
Raise(w) ==
  /\ Trouble < MaxTrouble
  /\ hand[w].phase \in {"plan", "raw", "work", "derive", "publish", "monitor"}
  /\ Goes(w, AfterException(w)) /\ faults' = faults + 1
  /\ UNCHANGED <<marketVars, productVars, ledgerVars>>

Die(w) ==
  /\ Trouble < MaxTrouble /\ hand[w].phase \notin {"off", "down", "idle"}
  /\ Goes(w, Down) /\ faults' = faults + 1
  /\ UNCHANGED <<marketVars, productVars, ledgerVars>>

Cycle(w) ==
  \/ Observe(w) \/ Prepare(w) \/ Due(w) \/ FindRaw(w) \/ PublishRaw(w) \/ Plan(w)
  \/ Work(w) \/ Derive(w) \/ Publish(w) \/ Monitor(w)

Operate ==
  \/ \E p \in Product : Enroll(p) \/ FreezeState(p)
  \/ \E p \in Governed, to \in Lifecycle, at \in Time :
       Trouble < MaxTrouble /\ ChangeLifecycle(p, to, at)
  \/ \E p \in Product, s \in Session, n \in Session : OperatorPrepare(p, s, n)

Next ==
  \/ Tick
  \/ \E n \in Session : PublishGate(n)
  \/ Operate
  \/ \E w \in Worker : Join(w) \/ Start(w) \/ Cycle(w) \/ Raise(w) \/ Die(w)

Spec == Init /\ [][Next]_vars

\* A worker that runs goes on; the one with --forever is started again when it ended.
Fairness == \A w \in Worker : WF_vars(Start(w) \/ Cycle(w))
FairSpec == Spec /\ Fairness

-----------------------------------------------------------------------------
(* Properties *)

\* Every variable has the values the tables, the clock and the processes can have.
ProductTypeOK ==
  /\ now \in Time /\ gate \in [Session -> Time]
  /\ first \in [Product -> 0..N] /\ frozen \subseteq Supervised
  /\ life \in [Product -> Seq(Event)]
  /\ snapshot \in [Product -> [Session -> 0..N]]
  /\ raw \in [Product -> [Session -> Raw]]
  /\ run \in [Product -> [Session -> {"none", "open", "done"}]]
  /\ decision \in [Product -> [Session -> Outcome \cup {"none"}]]
  /\ monitor \in [Product -> [Session -> SUBSET Session]]
  /\ hand \in [Worker -> Hand]
  /\ faults \in Nat

\* No session is decided before the one before it, however workers with
\* different clocks, suspensions and operators interleave (the due query of
\* product_decision_worker.py).
DecidedInOrder ==
  \A p \in Product, s \in Session :
    Decided(p, s) =>
      /\ Eligible(p, s)
      /\ \A r \in Session : first[p] <= r /\ r < s => Decided(p, r)

\* A monitoring snapshot is written once and never corrected: it must count
\* every session up to its own and none after it, whoever publishes it when.
MonitoringIsExact ==
  \A p \in Product, s \in Session :
    monitor[p][s] # {} => monitor[p][s] = first[p]..s

\* A completed decision rests on one input that covers its session and was
\* published after its cutoff, on all of its raw payloads, on the complete
\* Processing run over them and, for a supervised product, on a frozen state.
DecisionHasEvidence ==
  \A p \in Product, s \in Session :
    decision[p][s] = "completed" =>
      /\ snapshot[p][s] >= s /\ gate[snapshot[p][s]] >= s
      /\ raw[p][s] = "complete" /\ run[p][s] = "done"
      /\ p \in Supervised => p \in frozen
      /\ <<p, s>> \notin Gappy

\* While one worker runs a session is recorded as missing only for want of data or
\* of a state, unless a cycle was cut short: then the replay of its Stage-1
\* run finds no outputs, although every input is there.
MissingIsExplained ==
  \A p \in Product, s \in Session :
    /\ decision[p][s] = "no_state" => p \in Supervised
    /\ decision[p][s] = "no_data" => <<p, s>> \in Gappy
    /\ decision[p][s] = "no_outputs" => faults > 0 \/ \E w \in Worker \ {Main} : hand[w] # Off

\* What is written stays: the gate bound to a session, its decision and its
\* monitoring snapshot, whatever a second worker or a later cycle answers.
LedgerIsFinal ==
  [][\A p \in Product, s \in Session :
       /\ snapshot[p][s] # 0 => snapshot'[p][s] = snapshot[p][s]
       /\ Decided(p, s) => decision'[p][s] = decision[p][s]
       /\ monitor[p][s] # {} => monitor'[p][s] = monitor[p][s]]_vars

\* A pending session that every cycle refuses: the earliest gate that covers
\* it was published while the product was suspended.
Refused(p, s) ==
  /\ snapshot[p][s] = 0 /\ Pending(p, s, now)
  /\ \E n \in Session : Candidate(n, s, now) /\ LifeAt(p, gate[n]) # "active"

At(w, phase, p, s) == InPhase(w, phase) /\ hand[w].p = p /\ hand[w].s = s

\* A due session that fails in every cycle: some of its raw payloads are bound and
\* nobody publishes the others, or its run is open and nobody works on it.
Wedged(p, s) ==
  /\ \/ raw[p][s] = "partial" /\ \A w \in Worker : ~At(w, "raw", p, s)
     \/ run[p][s] = "open" /\ \A w \in Worker : ~At(w, "work", p, s)
  /\ IsDue(p, s, now)

\* What keeps a session from its decision: nothing that covers it is
\* published, some session is refused, or it stands behind a wedged one.
Hindered(p, s) ==
  \/ snapshot[p][s] = 0 /\ Candidates(s, now) = {}
  \/ \E q \in Product, r \in Session : Refused(q, r)
  \/ \E q \in Product, r \in Session :
       Wedged(q, r) /\ (<<q, r>> = <<p, s>> \/ Before(<<q, r>>, <<p, s>>))

\* A session that stays pending and unhindered is decided in the end.
SessionsSettle ==
  \A p \in Product, s \in Session : []<>~(Pending(p, s, now) /\ ~Hindered(p, s))

\* A decision without its report has a worker at it, unless one was cut short:
\* nobody else comes back to a session that is decided.
ReportsFollow ==
  \A p \in Product, s \in Session :
    (Decided(p, s) /\ monitor[p][s] = {} /\ faults = 0) =>
      \E w \in Worker : At(w, "monitor", p, s)
=============================================================================
