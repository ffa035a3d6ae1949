------------------------ MODULE ProductDecisionProofs ------------------------
(***************************************************************************)
(* What holds of ProductDecision for all products, sessions, workers,      *)
(* clocks, gates and lifecycles.                                           *)
(*                                                                         *)
(* Nothing is leased: a worker acts on what it read some transactions ago. *)
(* It may, because everything its task rests on only grows (Grows): a      *)
(* session once eligible, prepared, run or decided stays so, and the task  *)
(* of a worker stays sound whatever the others do (TasksSound).  That no   *)
(* replay happens while one worker runs undisturbed needs the other        *)
(* direction: a run of an undecided session has its worker (RunsAreManned).*)
(***************************************************************************)
EXTENDS ProductDecisionLedger, TLAPS

\* One worker runs, and nothing was cut short.
Quiet == faults = 0 /\ \A w \in Worker \ {Main} : hand[w] = Off

OnTask(w) == hand[w].phase \in {"plan", "raw", "work", "derive", "publish", "monitor"}
IsAt(w, phases, p, s) == hand[w].phase \in phases /\ hand[w].p = p /\ hand[w].s = s

\* What an answer says is so.
AnswerSound(p, s, answer) ==
  /\ answer = "completed" => <<p, s>> \notin Gappy /\ (p \in Supervised => p \in frozen)
  /\ answer = "no_state" => p \in Supervised
  /\ answer = "no_data" => <<p, s>> \in Gappy
  /\ answer = "no_outputs" => ~Quiet

EarlierDecided(p, s) == \A r \in Session : first[p] <= r /\ r < s => Decided(p, r)

TaskSound(w) ==
  OnTask(w) =>
    LET p == hand[w].p  s == hand[w].s
    IN  /\ Eligible(p, s) /\ EarlierDecided(p, s) /\ snapshot[p][s] # 0
        /\ hand[w].phase = "work" => run[p][s] # "none"
        /\ hand[w].phase \in {"derive", "publish", "monitor"} => run[p][s] = "done"
        /\ hand[w].phase \in {"publish", "monitor"} => AnswerSound(p, s, hand[w].answer)
        /\ hand[w].phase = "monitor" => decision[p][s] = hand[w].answer

TasksSound == \A w \in Worker : TaskSound(w)

\* A gate is bound that covers the session and came after its cutoff.
InputsCover ==
  \A p \in Product, s \in Session :
    snapshot[p][s] # 0 => snapshot[p][s] >= s /\ gate[snapshot[p][s]] >= s

DecisionsSound ==
  \A p \in Product, s \in Session :
    Decided(p, s) =>
      /\ Eligible(p, s) /\ EarlierDecided(p, s)
      /\ snapshot[p][s] # 0 /\ run[p][s] = "done"
      /\ AnswerSound(p, s, decision[p][s])

\* A run is planned over a whole set of raw payloads.
RunsHaveRaw ==
  \A p \in Product, s \in Session : run[p][s] # "none" => raw[p][s] = "complete"

RunsAreManned ==
  Quiet =>
    /\ \A p \in Product, s \in Session :
         run[p][s] # "none" /\ ~Decided(p, s) => IsAt(Main, {"work", "derive", "publish"}, p, s)
    /\ hand[Main].phase \in {"plan", "raw"} => ~Decided(hand[Main].p, hand[Main].s)

Inv ==
  /\ ProductTypeOK /\ InputsCover /\ RunsHaveRaw /\ TasksSound /\ DecisionsSound
  /\ RunsAreManned /\ MonitoringIsExact /\ ReportsFollow

\* What no step takes back.
Grows ==
  /\ \A n \in Session : gate[n] # 0 => gate'[n] = gate[n]
  /\ \A p \in Product : first[p] # 0 => first'[p] = first[p]
  /\ frozen \subseteq frozen'
  /\ \A p \in Product, s \in Session :
       /\ snapshot[p][s] # 0 => snapshot'[p][s] = snapshot[p][s]
       /\ raw[p][s] = "complete" => raw'[p][s] = "complete"
       /\ run[p][s] # "none" => run'[p][s] \in {run[p][s], "done"}
       /\ Decided(p, s) => decision'[p][s] = decision[p][s]
       /\ monitor[p][s] # {} => monitor'[p][s] = monitor[p][s]
  /\ Quiet' => Quiet

-----------------------------------------------------------------------------
(* Lemmas *)

\* What a worker holds, by its phase.
LEMMA HandShape ==
  ASSUME hand \in [Worker -> Hand], NEW w \in Worker
  PROVE  /\ hand[w].phase = "prepare" =>
              /\ hand[w].at \in Time /\ hand[w].todo \subseteq Product \X Session
              /\ \A S : [hand[w] EXCEPT !.todo = S] = [phase |-> "prepare", at |-> hand[w].at, todo |-> S]
         /\ OnTask(w) => hand[w].p \in Product /\ hand[w].s \in Session
         /\ hand[w].phase \in {"plan", "raw"} => \A new \in {"plan", "raw"} :
              [hand[w] EXCEPT !.phase = new] = [phase |-> new, p |-> hand[w].p, s |-> hand[w].s]
         /\ hand[w].phase \in {"publish", "monitor"} =>
              /\ hand[w].answer \in Outcome
              /\ [hand[w] EXCEPT !.phase = "monitor"]
                   = [phase |-> "monitor", p |-> hand[w].p, s |-> hand[w].s, answer |-> hand[w].answer]
         /\ hand[w].phase = "off" => hand[w] = Off
BY DEF Hand, Off, Down, Idle, OnTask

\* One cell of a table by product and session is written.
LEMMA Cell ==
  ASSUME NEW S, NEW f \in [Product -> [Session -> S]], NEW p \in Product, NEW s \in Session, NEW v \in S
  PROVE  /\ [f EXCEPT ![p][s] = v] \in [Product -> [Session -> S]]
         /\ \A q \in Product, r \in Session :
              [f EXCEPT ![p][s] = v][q][r] = IF q = p /\ r = s THEN v ELSE f[q][r]
OBVIOUS

LEMMA BindTypes ==
  ASSUME snapshot \in [Product -> [Session -> 0..N]],
         NEW p \in Product, NEW s \in Session, NEW n \in Session, Bind(p, s, n)
  PROVE  snapshot' \in [Product -> [Session -> 0..N]]
<1>1. n \in 0..N
  BY ProductAssumption DEF Session
<1> QED
  BY <1>1, Cell DEF Bind

LEMMA CountedInSessions ==
  ASSUME NEW p \in Product, NEW s \in Session
  PROVE  Counted(p, s) \in SUBSET Session
BY DEF Counted

\* The new task of a worker is the only one that changes.
LEMMA GoesOn ==
  ASSUME hand \in [Worker -> Hand], NEW w \in Worker, NEW h \in Hand, Goes(w, h)
  PROVE  hand' \in [Worker -> Hand] /\ hand'[w] = h /\ \A v \in Worker \ {w} : hand'[v] = hand[v]
BY DEF Goes

\* Where a worker goes when it has nothing to do.
LEMMA Resting ==
  ASSUME NEW w \in Worker
  PROVE  /\ Rest(w) \in {Idle, Down} /\ AfterException(w) \in {Idle, Down}
         /\ Idle \in Hand /\ Down \in Hand /\ Idle # Off /\ Down # Off
BY DEF Rest, AfterException, Hand, Idle, Down, Off

\* What the steps of the market and of the operators leave alone.
Outside ==
  \/ Tick \/ (\E n \in Session : PublishGate(n)) \/ Operate

LEMMA OutsideTypes ==
  ASSUME ProductTypeOK, Outside
  PROVE  ProductTypeOK' /\ UNCHANGED <<raw, run, decision, monitor, hand, faults>>
<1>a. ASSUME Tick
      PROVE  now' \in Time /\ UNCHANGED <<gate, first, frozen, life, snapshot, raw, run, decision, monitor, hand, faults>>
  BY <1>a, ProductAssumption DEF Tick, Time, ProductTypeOK, productVars, ledgerVars
<1>1. CASE Tick
  BY <1>a, <1>1 DEF ProductTypeOK
<1> USE ProductAssumption DEF marketVars, productVars, ledgerVars, Time, Session, ProductTypeOK
<1>2. CASE \E n \in Session : PublishGate(n)
  BY <1>2 DEF PublishGate
<1>3. CASE Operate
  <2>1. ASSUME NEW p \in Product, Enroll(p)
        PROVE  ProductTypeOK' /\ UNCHANGED <<raw, run, decision, monitor, hand, faults>>
    <3>1. Anchor[p] + 1 \in 0..N
      OBVIOUS
    <3>2. first' \in [Product -> 0..N]
      BY <2>1, <3>1 DEF Enroll
    <3> QED
      BY <2>1, <3>2 DEF Enroll
  <2>2. CASE \E p \in Product : FreezeState(p)
    BY <2>2 DEF FreezeState
  <2>3. ASSUME NEW p \in Product, NEW to \in Lifecycle, NEW at \in Time, ChangeLifecycle(p, to, at)
        PROVE  ProductTypeOK' /\ UNCHANGED <<raw, run, decision, monitor, hand, faults>>
    <3>1. [to |-> to, at |-> at] \in Event
      BY DEF Event
    <3>2. life' = [life EXCEPT ![p] = Append(life[p], [to |-> to, at |-> at])]
      BY <2>3 DEF ChangeLifecycle
    <3>3. Append(life[p], [to |-> to, at |-> at]) \in Seq(Event)
      BY <3>1
    <3>4. life' \in [Product -> Seq(Event)]
      BY <3>2, <3>3
    <3> QED
      BY <2>3, <3>4 DEF ChangeLifecycle
  <2>4. ASSUME NEW p \in Product, NEW s \in Session, NEW n \in Session, OperatorPrepare(p, s, n)
        PROVE  ProductTypeOK' /\ UNCHANGED <<raw, run, decision, monitor, hand, faults>>
    <3>1. snapshot' \in [Product -> [Session -> 0..N]]
      BY <2>4, BindTypes DEF OperatorPrepare
    <3> QED
      BY <2>4, <3>1 DEF OperatorPrepare
  <2> QED
    BY <1>3, <2>1, <2>2, <2>3, <2>4, ProductAssumption DEF Operate
<1> QED
  BY <1>1, <1>2, <1>3 DEF Outside

\* Every step of a worker keeps the types.
LEMMA WorkerTypes ==
  ASSUME ProductTypeOK, NEW w \in Worker, Join(w) \/ Start(w) \/ Cycle(w) \/ Raise(w) \/ Die(w)
  PROVE  ProductTypeOK'
<1> USE DEF marketVars, productVars, ledgerVars
<1>1. hand \in [Worker -> Hand] /\ UNCHANGED <<now, gate, first, frozen, life>>
  BY DEF ProductTypeOK, Join, Start, Cycle, Raise, Die, Observe, Prepare, Due, FindRaw, PublishRaw, Plan, Work, Derive, Publish, Monitor
<1>2. CASE Join(w) \/ Start(w) \/ Raise(w) \/ Die(w)
  <2>1. \E h \in {Idle, Down} : Goes(w, h)
    BY <1>2, Resting DEF Join, Start, Raise, Die
  <2>2. hand' \in [Worker -> Hand]
    BY <1>1, <2>1, Resting, GoesOn
  <2> QED
    BY <1>2, <2>2 DEF ProductTypeOK, Join, Start, Raise, Die
<1>3. CASE Observe(w)
  <2>1. PICK todo \in SUBSET (Product \X Session) : Goes(w, [phase |-> "prepare", at |-> now, todo |-> todo])
    BY <1>3 DEF Observe
  <2>2. [phase |-> "prepare", at |-> now, todo |-> todo] \in Hand
    BY <2>1 DEF Hand, ProductTypeOK
  <2>3. hand' \in [Worker -> Hand]
    BY <1>1, <2>1, <2>2, GoesOn
  <2> QED
    BY <1>3, <2>3 DEF ProductTypeOK, Observe
<1>4. CASE Prepare(w)
  <2>1. PICK i \in hand[w].todo, n \in Session :
          IF Preparable(i[1], i[2], n)
          THEN Bind(i[1], i[2], n) /\ Goes(w, [hand[w] EXCEPT !.todo = @ \ {i}])
          ELSE Goes(w, Down) /\ UNCHANGED snapshot
    BY <1>4 DEF Prepare
  <2>2. [hand[w] EXCEPT !.todo = @ \ {i}] \in Hand
    <3> DEFINE rest == hand[w].todo \ {i}
    <3>1. /\ hand[w].at \in Time /\ rest \subseteq Product \X Session
          /\ [hand[w] EXCEPT !.todo = rest] = [phase |-> "prepare", at |-> hand[w].at, todo |-> rest]
      BY <1>1, <1>4, HandShape DEF Prepare, InPhase
    <3>2. [phase |-> "prepare", at |-> hand[w].at, todo |-> rest] \in Hand
      BY <3>1 DEF Hand
    <3> QED
      BY <3>1, <3>2
  <2>3. hand' \in [Worker -> Hand]
    BY <1>1, <2>1, <2>2, GoesOn, Resting
  <2>4. i[1] \in Product /\ i[2] \in Session
    BY <1>1, <1>4, <2>1, HandShape DEF Prepare, InPhase
  <2>5. snapshot' \in [Product -> [Session -> 0..N]]
    BY <2>1, <2>4, BindTypes DEF ProductTypeOK
  <2> QED
    BY <1>4, <2>3, <2>5 DEF ProductTypeOK, Prepare
<1>5. CASE Due(w)
  <2>1. \/ Goes(w, Rest(w))
        \/ \E i \in Product \X Session : Goes(w, [phase |-> "plan", p |-> i[1], s |-> i[2]])
    BY <1>5 DEF Due, PreparedDue, DueAt
  <2>2. \A i \in Product \X Session : [phase |-> "plan", p |-> i[1], s |-> i[2]] \in Hand
    BY DEF Hand
  <2>3. hand' \in [Worker -> Hand]
    BY <1>1, <2>1, <2>2, GoesOn, Resting
  <2> QED
    BY <1>5, <2>3 DEF ProductTypeOK, Due
<1>8. CASE FindRaw(w) \/ PublishRaw(w)
  <2> DEFINE p == hand[w].p  s == hand[w].s
  <2>1. p \in Product /\ s \in Session /\ hand[w].phase \in {"plan", "raw"}
    BY <1>1, <1>8, HandShape DEF FindRaw, PublishRaw, InPhase, OnTask
  <2>2. \A new \in {"plan", "raw"} : [hand[w] EXCEPT !.phase = new] \in Hand
    <3>1. \A new \in {"plan", "raw"} : [phase |-> new, p |-> p, s |-> s] \in Hand
      BY <2>1 DEF Hand
    <3> QED
      BY <1>1, <2>1, <3>1, HandShape
  <2>3. hand' \in [Worker -> Hand]
    BY <1>1, <1>8, <2>2, Resting, GoesOn DEF FindRaw, PublishRaw
  <2>4. raw' \in [Product -> [Session -> Raw]]
    <3>1. "partial" \in Raw /\ "complete" \in Raw
      BY DEF Raw
    <3>2. raw \in [Product -> [Session -> Raw]]
      BY DEF ProductTypeOK
    <3>3. /\ [raw EXCEPT ![p][s] = "partial"] \in [Product -> [Session -> Raw]]
          /\ [raw EXCEPT ![p][s] = "complete"] \in [Product -> [Session -> Raw]]
      BY <2>1, <3>1, <3>2, Cell
    <3> QED
      BY <1>8, <3>2, <3>3 DEF FindRaw, PublishRaw
  <2> QED
    BY <1>8, <2>3, <2>4 DEF ProductTypeOK, FindRaw, PublishRaw
<1>6. CASE Plan(w) \/ Work(w) \/ Derive(w)
  <2> DEFINE p == hand[w].p  s == hand[w].s
  <2>1. p \in Product /\ s \in Session
    BY <1>1, <1>6, HandShape DEF Plan, Work, Derive, InPhase, OnTask
  <2>2. \E h \in Hand : Goes(w, h)
    <3>1. \A a \in Outcome : [phase |-> "publish", p |-> p, s |-> s, answer |-> a] \in Hand
      BY <2>1 DEF Hand
    <3>2. [phase |-> "work", p |-> p, s |-> s] \in Hand /\ [phase |-> "derive", p |-> p, s |-> s] \in Hand
      BY <2>1 DEF Hand
    <3>3. Derived(p, s) \in Outcome /\ "no_outputs" \in Outcome
      BY DEF Derived, Outcome, Missing
    <3> QED
      BY <1>6, <3>1, <3>2, <3>3, Resting DEF Plan, Work, Derive
  <2>3. hand' \in [Worker -> Hand]
    BY <1>1, <2>2, GoesOn
  <2>4. run' \in [Product -> [Session -> {"none", "open", "done"}]]
    <3>1. "open" \in {"none", "open", "done"} /\ "done" \in {"none", "open", "done"}
      OBVIOUS
    <3>2. run \in [Product -> [Session -> {"none", "open", "done"}]]
      BY DEF ProductTypeOK
    <3>3. /\ [run EXCEPT ![p][s] = "open"] \in [Product -> [Session -> {"none", "open", "done"}]]
          /\ [run EXCEPT ![p][s] = "done"] \in [Product -> [Session -> {"none", "open", "done"}]]
      BY <2>1, <3>1, <3>2, Cell
    <3> QED
      BY <1>6, <3>2, <3>3 DEF Plan, Work, Derive
  <2> QED
    BY <1>6, <2>3, <2>4 DEF ProductTypeOK, Plan, Work, Derive
<1>7. CASE Publish(w) \/ Monitor(w)
  <2> DEFINE p == hand[w].p  s == hand[w].s
  <2>1. p \in Product /\ s \in Session /\ hand[w].answer \in Outcome
    BY <1>1, <1>7, HandShape DEF Publish, Monitor, InPhase, OnTask
  <2>2. hand[w].phase = "publish" => [hand[w] EXCEPT !.phase = "monitor"] \in Hand
    <3>1. [phase |-> "monitor", p |-> p, s |-> s, answer |-> hand[w].answer] \in Hand
      BY <2>1 DEF Hand
    <3> QED
      BY <1>1, <3>1, HandShape
  <2>3. hand' \in [Worker -> Hand]
    BY <1>1, <1>7, <2>2, GoesOn, Resting DEF Publish, Monitor, Report, InPhase
  <2>4. decision' \in [Product -> [Session -> Outcome \cup {"none"}]]
    <3>1. decision \in [Product -> [Session -> Outcome \cup {"none"}]]
      BY DEF ProductTypeOK
    <3>2. [decision EXCEPT ![p][s] = hand[w].answer] \in [Product -> [Session -> Outcome \cup {"none"}]]
      BY <2>1, <3>1, Cell
    <3> QED
      BY <1>7, <3>1, <3>2 DEF Publish, Monitor
  <2>5. monitor' \in [Product -> [Session -> SUBSET Session]]
    <3>1. monitor \in [Product -> [Session -> SUBSET Session]] /\ Counted(p, s) \in SUBSET Session
      BY DEF ProductTypeOK, Counted
    <3>2. [monitor EXCEPT ![p][s] = Counted(p, s)] \in [Product -> [Session -> SUBSET Session]]
      BY <2>1, <3>1, Cell
    <3> QED
      BY <1>7, <3>1, <3>2 DEF Publish, Monitor, Report
  <2> QED
    BY <1>7, <2>3, <2>4, <2>5 DEF ProductTypeOK, Publish, Monitor
<1> QED
  BY <1>2, <1>3, <1>4, <1>5, <1>6, <1>7, <1>8 DEF Cycle

-----------------------------------------------------------------------------
(* What no step takes back *)

\* A worker that joined never leaves for good, and whatever it does is a task.
LEMMA WorkerGoes ==
  ASSUME ProductTypeOK, NEW w \in Worker, Join(w) \/ Start(w) \/ Cycle(w) \/ Raise(w) \/ Die(w)
  PROVE  /\ \A v \in Worker \ {w} : hand'[v] = hand[v]
         /\ hand'[w] # Off
         /\ hand[w] = Off => Join(w)
         /\ faults' = faults \/ (faults' = faults + 1 /\ (Raise(w) \/ Die(w)))
<1>1. \E h : Goes(w, h) /\ h # Off
  <2>1. CASE Join(w) \/ Start(w) \/ Raise(w) \/ Die(w) \/ Publish(w) \/ Monitor(w)
    <3>1. hand[w].phase = "publish" => [hand[w] EXCEPT !.phase = "monitor"] # Off
      BY HandShape DEF ProductTypeOK, Off
    <3> QED
      BY <2>1, <3>1, Resting DEF Join, Start, Raise, Die, Publish, Monitor, Report, InPhase
  <2>2. CASE Observe(w) \/ Due(w)
    <3>1. CASE Observe(w)
      BY <3>1 DEF Observe, Off
    <3>2. CASE Due(w)
      <4>1. (\E p, r : Goes(w, [phase |-> "plan", p |-> p, s |-> r])) \/ Goes(w, Rest(w))
        BY <3>2 DEF Due
      <4>2. \A p, r : [phase |-> "plan", p |-> p, s |-> r] # Off
        BY DEF Off
      <4> QED
        BY <4>1, <4>2, Resting
    <3> QED
      BY <2>2, <3>1, <3>2
  <2>3. CASE Prepare(w)
    <3>1. \A i : [hand[w] EXCEPT !.todo = @ \ {i}] # Off
      BY <2>3, HandShape DEF ProductTypeOK, Prepare, InPhase, Off
    <3> QED
      BY <2>3, <3>1, Resting DEF Prepare
  <2>4. CASE Plan(w) \/ Work(w) \/ Derive(w)
    BY <2>4, Resting DEF Plan, Work, Derive, Off
  <2>5. CASE FindRaw(w) \/ PublishRaw(w)
    <3>1. \A new \in {"plan", "raw"} : [hand[w] EXCEPT !.phase = new] # Off
      BY <2>5, HandShape DEF ProductTypeOK, FindRaw, PublishRaw, InPhase, Off
    <3>2. hand \in [Worker -> Hand] /\ hand[w].phase \in {"plan", "raw"}
      BY <2>5 DEF ProductTypeOK, FindRaw, PublishRaw, InPhase
    <3>3. UNCHANGED hand => Goes(w, hand[w]) /\ hand[w] # Off
      BY <3>2 DEF Goes, Off
    <3>4. CASE FindRaw(w)
      BY <3>1, <3>4, Resting DEF FindRaw
    <3>5. CASE PublishRaw(w)
      BY <3>1, <3>3, <3>5 DEF PublishRaw
    <3> QED
      BY <2>5, <3>4, <3>5
  <2> QED
    BY <2>1, <2>2, <2>3, <2>4, <2>5 DEF Cycle
<1>2. hand \in [Worker -> Hand]
  BY DEF ProductTypeOK
<1>3. hand[w] = Off => Join(w)
  BY DEF Start, Cycle, Raise, Die, Observe, Prepare, Due, FindRaw, PublishRaw, Plan, Work, Derive, Publish, Monitor, InPhase, Off
<1>4. faults' = faults \/ (faults' = faults + 1 /\ (Raise(w) \/ Die(w)))
  BY DEF Join, Start, Cycle, Raise, Die, Observe, Prepare, Due, FindRaw, PublishRaw, Plan, Work, Derive, Publish, Monitor
<1> QED
  BY <1>1, <1>2, <1>3, <1>4 DEF Goes

LEMMA QuietBefore ==
  ASSUME ProductTypeOK, [Next]_vars
  PROVE  Quiet' => Quiet
<1>1. CASE UNCHANGED vars
  BY <1>1 DEF vars, Quiet
<1>2. CASE Outside
  BY <1>2, OutsideTypes DEF Quiet
<1>3. ASSUME NEW w \in Worker, Join(w) \/ Start(w) \/ Cycle(w) \/ Raise(w) \/ Die(w)
      PROVE  Quiet' => Quiet
  <2>1. faults' = 0 => faults = 0
    BY <1>3, WorkerGoes DEF ProductTypeOK
  <2> QED
    BY <1>3, <2>1, WorkerGoes DEF Quiet
<1> QED
  BY <1>1, <1>2, <1>3 DEF Next, Outside

\* Decisions, runs, inputs, reports and gates are written once.
LEMMA StepGrows ==
  ASSUME ProductTypeOK, [Next]_vars
  PROVE  Grows
<1> USE DEF marketVars, productVars, ledgerVars
<1> DEFINE Tables ==
      \A p \in Product, s \in Session :
        /\ snapshot[p][s] # 0 => snapshot'[p][s] = snapshot[p][s]
        /\ raw[p][s] = "complete" => raw'[p][s] = "complete"
        /\ run[p][s] # "none" => run'[p][s] \in {run[p][s], "done"}
        /\ Decided(p, s) => decision'[p][s] = decision[p][s]
        /\ monitor[p][s] # {} => monitor'[p][s] = monitor[p][s]
<1>a. /\ snapshot \in [Product -> [Session -> 0..N]]
      /\ raw \in [Product -> [Session -> Raw]]
      /\ run \in [Product -> [Session -> {"none", "open", "done"}]]
      /\ decision \in [Product -> [Session -> Outcome \cup {"none"}]]
      /\ monitor \in [Product -> [Session -> SUBSET Session]]
      /\ hand \in [Worker -> Hand]
  BY DEF ProductTypeOK
<1>b. Quiet' => Quiet
  BY QuietBefore
<1>c. ASSUME NEW p \in Product, NEW s \in Session, NEW n \in Session,
             Preparable(p, s, n), Bind(p, s, n)
      PROVE  \A q \in Product, r \in Session : snapshot[q][r] # 0 => snapshot'[q][r] = snapshot[q][r]
  BY <1>a, <1>c DEF Preparable, Bind
<1>1. CASE UNCHANGED vars
  BY <1>1, <1>b DEF vars, Grows, Decided
<1>2. CASE Outside
  <2>1. UNCHANGED <<raw, run, decision, monitor>>
    BY <1>2, OutsideTypes
  <2>2. CASE Tick \/ \E n \in Session : PublishGate(n)
    BY <2>1, <2>2, <1>b DEF Tick, PublishGate, Grows, Decided, ProductTypeOK
  <2>3. CASE \E p \in Product : Enroll(p) \/ FreezeState(p)
    BY <2>1, <2>3, <1>b DEF Enroll, FreezeState, Grows, Decided, ProductTypeOK
  <2>4. CASE \E p \in Product, to \in Lifecycle, at \in Time : ChangeLifecycle(p, to, at)
    BY <2>1, <2>4, <1>b DEF ChangeLifecycle, Grows, Decided
  <2>5. CASE \E p \in Product, s \in Session, n \in Session : OperatorPrepare(p, s, n)
    BY <2>1, <2>5, <1>b, <1>c DEF OperatorPrepare, Grows, Decided
  <2> QED
    BY <1>2, <2>2, <2>3, <2>4, <2>5, ProductAssumption DEF Outside, Operate
<1>3. ASSUME NEW w \in Worker, Join(w) \/ Start(w) \/ Cycle(w) \/ Raise(w) \/ Die(w)
      PROVE  Grows
  <2>1. UNCHANGED <<now, gate, first, frozen, life>>
    BY <1>3 DEF Join, Start, Cycle, Raise, Die, Observe, Prepare, Due, FindRaw, PublishRaw, Plan, Work, Derive, Publish, Monitor
  <2>2. Tables
    <3>1. CASE Join(w) \/ Start(w) \/ Raise(w) \/ Die(w) \/ Observe(w) \/ Due(w) \/ FindRaw(w) \/ Derive(w)
      BY <3>1 DEF Join, Start, Raise, Die, Observe, Due, FindRaw, Derive, Decided
    <3>2. CASE Prepare(w)
      <4>1. PICK i \in hand[w].todo, n \in Session :
              (Preparable(i[1], i[2], n) /\ Bind(i[1], i[2], n)) \/ UNCHANGED snapshot
        BY <3>2 DEF Prepare
      <4>2. i[1] \in Product /\ i[2] \in Session
        <5>1. hand \in [Worker -> Hand] /\ hand[w].phase = "prepare"
          BY <1>a, <3>2 DEF Prepare, InPhase
        <5>2. hand[w].todo \subseteq Product \X Session
          BY <5>1, HandShape
        <5> QED
          BY <4>1, <5>2
      <4> QED
        BY <3>2, <4>1, <4>2, <1>c DEF Prepare, Decided
    <3>4. CASE PublishRaw(w)
      <4>1. hand[w].p \in Product /\ hand[w].s \in Session
        BY <1>a, <3>4, HandShape DEF PublishRaw, InPhase, OnTask
      <4>2. \A p \in Product, s \in Session : raw[p][s] = "complete" => raw'[p][s] = "complete"
        <5>1. "partial" \in Raw /\ "complete" \in Raw
          BY DEF Raw
        <5>2. CASE raw[hand[w].p][hand[w].s] = "none" /\ raw' = [raw EXCEPT ![hand[w].p][hand[w].s] = "partial"]
          BY <1>a, <4>1, <5>1, <5>2, Cell
        <5>3. CASE raw' = [raw EXCEPT ![hand[w].p][hand[w].s] = "complete"]
          BY <1>a, <4>1, <5>1, <5>3, Cell
        <5> QED
          BY <3>4, <5>2, <5>3 DEF PublishRaw
      <4> QED
        BY <3>4, <4>2 DEF PublishRaw, Decided
    <3>3. CASE Plan(w) \/ Work(w) \/ Publish(w) \/ Monitor(w)
      <4>1. hand[w].p \in Product /\ hand[w].s \in Session
        BY <1>a, <3>3, HandShape DEF Plan, Work, Publish, Monitor, InPhase, OnTask
      <4>2. CASE Plan(w) \/ Work(w)
        <5>1. \A p \in Product, s \in Session : run[p][s] # "none" => run'[p][s] \in {run[p][s], "done"}
          <6>1. "open" \in {"none", "open", "done"} /\ "done" \in {"none", "open", "done"}
            OBVIOUS
          <6>2. CASE run' = [run EXCEPT ![hand[w].p][hand[w].s] = "done"]
            BY <1>a, <4>1, <6>1, <6>2, Cell
          <6>3. CASE run[hand[w].p][hand[w].s] = "none" /\ run' = [run EXCEPT ![hand[w].p][hand[w].s] = "open"]
            BY <1>a, <4>1, <6>1, <6>3, Cell
          <6> QED
            BY <4>2, <6>2, <6>3 DEF Plan, Work
        <5> QED
          BY <4>2, <5>1 DEF Plan, Work, Decided
      <4>3. CASE Publish(w)
        <5>1. \A p \in Product, s \in Session : Decided(p, s) => decision'[p][s] = decision[p][s]
          <6>1. CASE decision' = [decision EXCEPT ![hand[w].p][hand[w].s] = hand[w].answer]
                     /\ decision[hand[w].p][hand[w].s] \in {"none", hand[w].answer}
            <7>1. hand[w].answer \in Outcome \cup {"none"}
              BY <1>a, <4>3, HandShape DEF Publish, InPhase
            <7> QED
              BY <1>a, <4>1, <6>1, <7>1, Cell DEF Decided
          <6> QED
            BY <4>3, <6>1 DEF Publish
        <5> QED
          BY <4>3, <5>1 DEF Publish
      <4>4. CASE Monitor(w)
        <5>1. \A p \in Product, s \in Session : monitor[p][s] # {} => monitor'[p][s] = monitor[p][s]
          <6>1. CASE monitor' = [monitor EXCEPT ![hand[w].p][hand[w].s] = Counted(hand[w].p, hand[w].s)]
                     /\ monitor[hand[w].p][hand[w].s] \in {{}, Counted(hand[w].p, hand[w].s)}
            BY <1>a, <4>1, <6>1, CountedInSessions, Cell
          <6> QED
            BY <4>4, <6>1 DEF Monitor, Report
        <5> QED
          BY <4>4, <5>1 DEF Monitor, Decided
      <4> QED
        BY <3>3, <4>2, <4>3, <4>4
    <3> QED
      BY <1>3, <3>1, <3>2, <3>3, <3>4 DEF Cycle
  <2> QED
    BY <2>1, <2>2, <1>b DEF Grows
<1> QED
  BY <1>1, <1>2, <1>3 DEF Next, Outside

-----------------------------------------------------------------------------
(* What follows for the invariant *)

LEMMA InitInv == Init => Inv
<1> SUFFICES ASSUME Init PROVE Inv
  OBVIOUS
<1>1. ProductTypeOK
  BY ProductAssumption, Resting DEF Init, ProductTypeOK, Time, Session, Hand, Raw
<1>2. \A w \in Worker : hand[w].phase \in {"off", "down"}
  BY DEF Init, Off, Down
<1>3. TasksSound
  BY <1>2 DEF TasksSound, TaskSound, OnTask
<1>4. InputsCover /\ RunsHaveRaw /\ DecisionsSound /\ MonitoringIsExact /\ ReportsFollow
  BY DEF Init, InputsCover, RunsHaveRaw, DecisionsSound, Decided, MonitoringIsExact, ReportsFollow
<1>5. RunsAreManned
  BY <1>2, ProductAssumption DEF Init, RunsAreManned
<1> QED
  BY <1>1, <1>3, <1>4, <1>5 DEF Inv

\* A task that its worker still has is as sound as it was.
LEMMA TaskKept ==
  ASSUME ProductTypeOK, Grows, NEW w \in Worker, TaskSound(w), hand'[w] = hand[w]
  PROVE  TaskSound(w)'
<1> SUFFICES ASSUME OnTask(w) PROVE TaskSound(w)'
  BY DEF TaskSound, OnTask
<1> DEFINE p == hand[w].p  s == hand[w].s
<1>1. p \in Product /\ s \in Session
  BY HandShape DEF ProductTypeOK
<1>2. first'[p] = first[p] /\ Eligible(p, s)
  BY <1>1 DEF TaskSound, Eligible, Grows
<1>3. \A r \in Session : first[p] <= r /\ r < s => decision'[p][r] = decision[p][r] /\ decision[p][r] # "none"
  BY <1>1 DEF TaskSound, EarlierDecided, Decided, Grows
<1>4. snapshot'[p][s] # 0
  BY <1>1 DEF TaskSound, Grows
<1>5. /\ hand[w].phase = "work" => run'[p][s] # "none"
      /\ hand[w].phase \in {"derive", "publish", "monitor"} => run'[p][s] = "done"
  <2>1. run[p][s] # "none" => run'[p][s] \in {run[p][s], "done"}
    BY <1>1 DEF Grows
  <2> QED
    BY <2>1 DEF TaskSound
<1>6. hand[w].phase \in {"publish", "monitor"} => AnswerSound(p, s, hand[w].answer)
  BY DEF TaskSound
<1>7. hand[w].phase = "monitor" => decision'[p][s] = hand[w].answer
  <2>1. hand[w].phase = "monitor" => decision[p][s] = hand[w].answer /\ hand[w].answer # "none"
    BY HandShape DEF TaskSound, ProductTypeOK, Outcome, Missing
  <2> QED
    BY <1>1, <2>1 DEF Grows, Decided
<1>8. frozen \subseteq frozen' /\ (Quiet' => Quiet)
  BY DEF Grows
<1> QED
  BY <1>2, <1>3, <1>4, <1>5, <1>6, <1>7, <1>8 DEF TaskSound, OnTask, Eligible, EarlierDecided, Decided, AnswerSound

\* A decision that was sound stays sound.
LEMMA DecisionKept ==
  ASSUME ProductTypeOK, Grows, DecisionsSound, NEW p \in Product, NEW s \in Session, Decided(p, s)
  PROVE  /\ Eligible(p, s)' /\ EarlierDecided(p, s)' /\ snapshot'[p][s] # 0 /\ run'[p][s] = "done"
         /\ AnswerSound(p, s, decision[p][s])' /\ decision'[p][s] = decision[p][s]
<1>1. first'[p] = first[p] /\ Eligible(p, s)
  BY DEF DecisionsSound, Eligible, Grows
<1>2. \A r \in Session : first[p] <= r /\ r < s => decision'[p][r] = decision[p][r] /\ decision[p][r] # "none"
  BY DEF DecisionsSound, EarlierDecided, Decided, Grows
<1>3. snapshot'[p][s] # 0 /\ run'[p][s] = "done" /\ decision'[p][s] = decision[p][s]
  BY DEF DecisionsSound, Grows
<1>4. AnswerSound(p, s, decision[p][s])
  BY DEF DecisionsSound
<1>5. frozen \subseteq frozen' /\ (Quiet' => Quiet)
  BY DEF Grows
<1> QED
  BY <1>1, <1>2, <1>3, <1>4, <1>5 DEF Eligible, EarlierDecided, Decided, AnswerSound

\* What the tables keep when no decision and no report is written.
LEMMA LedgerUndisturbed ==
  ASSUME Inv, Grows
  PROVE  /\ (UNCHANGED decision => DecisionsSound')
         /\ (UNCHANGED monitor => MonitoringIsExact')
<1> USE DEF Inv
<1>1. UNCHANGED decision => DecisionsSound'
  BY DecisionKept DEF DecisionsSound, Decided
<1>2. ASSUME UNCHANGED monitor, NEW p \in Product, NEW s \in Session, monitor[p][s] # {}
      PROVE  monitor'[p][s] = first'[p]..s
  <2>1. monitor[p][s] = first[p]..s /\ monitor[p][s] \subseteq Session /\ first[p] \in Nat
    BY <1>2, ProductAssumption DEF MonitoringIsExact, ProductTypeOK
  <2>2. first[p] # 0
    <3>1. first[p] = 0 => 0 \in first[p]..s
      BY <1>2, ProductAssumption DEF Session
    <3> QED
      BY <2>1, <3>1, ProductAssumption DEF Session
  <2> QED
    BY <1>2, <2>1, <2>2 DEF Grows
<1>3. UNCHANGED monitor => MonitoringIsExact'
  BY <1>2 DEF MonitoringIsExact
<1> QED
  BY <1>1, <1>3

\* An input that is bound is never taken back, and only what covers is bound.
LEMMA InputsStep ==
  ASSUME Inv, [Next]_vars
  PROVE  InputsCover'
<1>a. Grows
  BY StepGrows DEF Inv
<1>b. /\ snapshot \in [Product -> [Session -> 0..N]] /\ hand \in [Worker -> Hand]
      /\ gate \in [Session -> Time]
  BY DEF Inv, ProductTypeOK
<1>1. ASSUME NEW p \in Product, NEW s \in Session, snapshot[p][s] # 0
      PROVE  snapshot'[p][s] >= s /\ gate'[snapshot'[p][s]] >= s
  <2>1. /\ snapshot[p][s] >= s /\ gate[snapshot[p][s]] >= s /\ snapshot'[p][s] = snapshot[p][s]
        /\ snapshot[p][s] \in Session
    <3>1. snapshot[p][s] \in 0..N
      BY <1>b
    <3>2. snapshot[p][s] \in Session
      BY <1>1, <3>1, ProductAssumption DEF Session
    <3> QED
      BY <1>a, <1>1, <3>2 DEF Inv, InputsCover, Grows
  <2>2. gate[snapshot[p][s]] # 0
    BY <1>b, <2>1, ProductAssumption DEF Session
  <2> QED
    BY <1>a, <2>1, <2>2 DEF Grows
<1>2. ASSUME NEW p \in Product, NEW s \in Session, NEW n \in Session,
             Preparable(p, s, n), Bind(p, s, n), UNCHANGED gate
      PROVE  InputsCover'
  <2>1. n >= s /\ gate'[n] >= s
    BY <1>2 DEF Preparable, Session
  <2>2. n \in 0..N
    BY ProductAssumption DEF Session
  <2>3. \A q \in Product, r \in Session : snapshot'[q][r] = IF q = p /\ r = s THEN n ELSE snapshot[q][r]
    BY <1>b, <1>2, <2>2, Cell DEF Bind
  <2> QED
    BY <1>1, <2>1, <2>3 DEF InputsCover
<1>3. CASE UNCHANGED snapshot
  BY <1>1, <1>3 DEF InputsCover
<1>4. CASE \E p \in Product, s \in Session, n \in Session : OperatorPrepare(p, s, n)
  BY <1>2, <1>4 DEF OperatorPrepare, marketVars
<1>5. ASSUME NEW w \in Worker, Prepare(w)
      PROVE  InputsCover'
  <2>1. PICK i \in hand[w].todo, n \in Session :
          (Preparable(i[1], i[2], n) /\ Bind(i[1], i[2], n)) \/ UNCHANGED snapshot
    BY <1>5 DEF Prepare
  <2>2. hand[w].todo \subseteq Product \X Session
    BY <1>b, <1>5, HandShape DEF Prepare, InPhase
  <2>3. i[1] \in Product /\ i[2] \in Session /\ UNCHANGED gate
    BY <1>5, <2>1, <2>2 DEF Prepare, marketVars
  <2> QED
    BY <1>2, <1>3, <2>1, <2>3
<1>6. \/ UNCHANGED snapshot
      \/ \E p \in Product, s \in Session, n \in Session : OperatorPrepare(p, s, n)
      \/ \E w \in Worker : Prepare(w)
  BY DEF Next, Operate, Cycle, vars, marketVars, productVars, ledgerVars, Tick, PublishGate, Enroll, FreezeState,
         ChangeLifecycle, Join, Start, Observe, Due, FindRaw, PublishRaw, Plan, Work,
         Derive, Publish, Monitor, Raise, Die
<1> QED
  BY <1>3, <1>4, <1>5, <1>6

\* A run is only planned when the raw payloads are whole, and they stay so.
LEMMA RawStep ==
  ASSUME Inv, [Next]_vars
  PROVE  RunsHaveRaw'
<1>a. Grows
  BY StepGrows DEF Inv
<1>b. run \in [Product -> [Session -> {"none", "open", "done"}]] /\ hand \in [Worker -> Hand]
  BY DEF Inv, ProductTypeOK
<1>1. CASE UNCHANGED run
  BY <1>a, <1>1 DEF Inv, RunsHaveRaw, Grows
<1>2. ASSUME NEW w \in Worker, Plan(w) \/ Work(w), ~UNCHANGED run
      PROVE  RunsHaveRaw'
  <2> DEFINE p == hand[w].p  s == hand[w].s
  <2>1. p \in Product /\ s \in Session
    BY <1>b, <1>2, HandShape DEF Plan, Work, InPhase, OnTask
  <2>2. raw[p][s] = "complete" \/ Work(w)
    BY <1>2 DEF Plan
  <2>3. \E v \in {"open", "done"} : run' = [run EXCEPT ![p][s] = v]
    BY <1>2 DEF Plan, Work
  <2>4. \A q \in Product, r \in Session : run'[q][r] # "none" => run[q][r] # "none" \/ (q = p /\ r = s)
    BY <1>b, <2>1, <2>3, Cell
  <2>5. raw[p][s] = "complete"
    BY <1>b, <1>2, <2>1, <2>2 DEF Inv, TasksSound, TaskSound, OnTask, Work, InPhase, RunsHaveRaw
  <2> QED
    BY <1>a, <2>1, <2>4, <2>5 DEF Inv, RunsHaveRaw, Grows
<1>3. UNCHANGED run \/ \E w \in Worker : Plan(w) \/ Work(w)
  BY DEF Next, Operate, Cycle, vars, marketVars, productVars, ledgerVars, Tick, PublishGate, Enroll, FreezeState,
         ChangeLifecycle, OperatorPrepare, Join, Start, Observe, Prepare, Due, FindRaw, PublishRaw, Derive, Publish,
         Monitor, Raise, Die
<1> QED
  BY <1>1, <1>2, <1>3

-----------------------------------------------------------------------------
(* The invariant, step by step *)

\* The market and the operators: no task, run, decision or report changes.
LEMMA OutsideSteps ==
  ASSUME Inv, Outside
  PROVE  Inv'
<1>1. [Next]_vars
  BY DEF Outside, Next
<1>2. ProductTypeOK' /\ UNCHANGED <<raw, run, decision, monitor, hand, faults>>
  BY OutsideTypes DEF Inv
<1>3. Grows /\ InputsCover' /\ RunsHaveRaw' /\ DecisionsSound' /\ MonitoringIsExact'
  BY <1>1, <1>2, StepGrows, InputsStep, RawStep, LedgerUndisturbed DEF Inv
<1>4. TasksSound'
  BY <1>2, <1>3, TaskKept DEF Inv, TasksSound
<1>5. RunsAreManned'
  BY <1>2 DEF Inv, RunsAreManned, Quiet, Decided, IsAt
<1>6. ReportsFollow'
  BY <1>2 DEF Inv, ReportsFollow, Decided, InPhase, At
<1> QED
  BY <1>2, <1>3, <1>4, <1>5, <1>6 DEF Inv

\* What only one worker's task changes for; the task itself is left to show.
LEMMA OthersKept ==
  ASSUME Inv, NEW w \in Worker, Join(w) \/ Start(w) \/ Cycle(w) \/ Raise(w) \/ Die(w)
  PROVE  /\ ProductTypeOK' /\ Grows /\ InputsCover' /\ RunsHaveRaw'
         /\ (UNCHANGED decision => DecisionsSound') /\ (UNCHANGED monitor => MonitoringIsExact')
         /\ (TaskSound(w)' => TasksSound')
         /\ \A v \in Worker \ {w} : hand'[v] = hand[v]
         /\ (Quiet' => Quiet /\ w = Main /\ ~Raise(w) /\ ~Die(w))
<1>1. [Next]_vars
  BY DEF Next
<1>2. ProductTypeOK' /\ Grows /\ InputsCover' /\ RunsHaveRaw'
  BY <1>1, WorkerTypes, StepGrows, InputsStep, RawStep DEF Inv
<1>3. (UNCHANGED decision => DecisionsSound') /\ (UNCHANGED monitor => MonitoringIsExact')
  BY <1>2, LedgerUndisturbed
<1>4. \A v \in Worker \ {w} : hand'[v] = hand[v]
  BY WorkerGoes DEF Inv
<1>5. TaskSound(w)' => TasksSound'
  <2>1. \A v \in Worker \ {w} : TaskSound(v)'
    BY <1>2, <1>4, TaskKept DEF Inv, TasksSound
  <2> QED
    BY <2>1 DEF TasksSound
<1>6. Quiet' => Quiet /\ w = Main /\ ~Raise(w) /\ ~Die(w)
  <2>1. Quiet' => Quiet
    BY <1>2 DEF Grows
  <2>2. Quiet' => w = Main
    BY WorkerGoes DEF Inv, Quiet
  <2>3. Raise(w) \/ Die(w) => faults' = faults + 1
    BY DEF Raise, Die
  <2>4. faults \in Nat
    BY DEF Inv, ProductTypeOK
  <2> QED
    BY <2>1, <2>2, <2>3, <2>4 DEF Quiet
<1> QED
  BY <1>2, <1>3, <1>4, <1>5, <1>6

\* A report is due from the worker that has it, or nothing is said.
LEMMA ReportersStay ==
  ASSUME Inv, NEW w \in Worker, \A v \in Worker \ {w} : hand'[v] = hand[v],
         UNCHANGED <<decision, monitor>>, hand[w].phase # "monitor" \/ faults' > 0, faults' = 0 => faults = 0
  PROVE  ReportsFollow'
<1> SUFFICES ASSUME NEW p \in Product, NEW s \in Session, Decided(p, s)', monitor'[p][s] = {}, faults' = 0
             PROVE  \E v \in Worker : hand'[v].phase = "monitor" /\ hand'[v].p = p /\ hand'[v].s = s
  BY DEF ReportsFollow, InPhase, At
<1>1. PICK v \in Worker : hand[v].phase = "monitor" /\ hand[v].p = p /\ hand[v].s = s
  BY DEF Inv, ReportsFollow, Decided, InPhase, At
<1>2. v # w
  BY <1>1
<1> QED
  BY <1>1, <1>2

\* A worker that starts, looks, prepares, picks a session, fails or dies.
LEMMA MoveSteps ==
  ASSUME Inv, NEW w \in Worker,
         Join(w) \/ Start(w) \/ Observe(w) \/ Prepare(w) \/ Due(w) \/ Raise(w) \/ Die(w)
  PROVE  Inv'
<1>1. Join(w) \/ Start(w) \/ Cycle(w) \/ Raise(w) \/ Die(w)
  BY DEF Cycle
<1>2. UNCHANGED <<run, decision, monitor>> /\ hand \in [Worker -> Hand] /\ faults \in Nat
  BY DEF Inv, ProductTypeOK, ledgerVars, Join, Start, Observe, Prepare, Due, Raise, Die
<1>3. ProductTypeOK' /\ Grows /\ InputsCover' /\ RunsHaveRaw' /\ DecisionsSound' /\ MonitoringIsExact'
  BY <1>1, <1>2, OthersKept
<1>4. \/ OnTask(w)' = FALSE
      \/ /\ Due(w) /\ hand'[w].phase = "plan"
         /\ \E i \in PreparedDue(hand[w].at) : hand'[w].p = i[1] /\ hand'[w].s = i[2]
  <2>1. CASE Join(w) \/ Start(w) \/ Raise(w) \/ Die(w)
    BY <1>2, <2>1, Resting, GoesOn DEF Join, Start, Raise, Die, OnTask, Idle, Down
  <2>2. CASE Observe(w)
    BY <1>2, <2>2 DEF Observe, Goes, OnTask
  <2>3. CASE Prepare(w)
    <3>1. hand[w].phase = "prepare"
      BY <2>3 DEF Prepare, InPhase
    <3>2. \A i : [hand[w] EXCEPT !.todo = @ \ {i}].phase = "prepare"
      BY <1>2, <3>1, HandShape
    <3>3. \E h : Goes(w, h) /\ h.phase \in {"prepare", "down"}
      <4>1. (\E i : Goes(w, [hand[w] EXCEPT !.todo = @ \ {i}])) \/ Goes(w, Down)
        BY <2>3 DEF Prepare
      <4>2. Down.phase = "down"
        BY DEF Down
      <4> QED
        BY <3>2, <4>1, <4>2
    <3> QED
      BY <1>2, <3>3 DEF Goes, OnTask
  <2>4. CASE Due(w)
    <3>1. \/ Goes(w, Rest(w))
          \/ \E i \in PreparedDue(hand[w].at) : Goes(w, [phase |-> "plan", p |-> i[1], s |-> i[2]])
      BY <2>4 DEF Due
    <3>2. CASE Goes(w, Rest(w))
      BY <1>2, <3>2, Resting, GoesOn DEF OnTask, Idle, Down
    <3>3. CASE \E i \in PreparedDue(hand[w].at) : Goes(w, [phase |-> "plan", p |-> i[1], s |-> i[2]])
      BY <1>2, <2>4, <3>3 DEF Goes
    <3> QED
      BY <3>1, <3>2, <3>3
  <2> QED
    BY <2>1, <2>2, <2>3, <2>4
<1>5. \A t, i : i \in PreparedDue(t) =>
        /\ i[1] \in Product /\ i[2] \in Session /\ Eligible(i[1], i[2]) /\ ~Decided(i[1], i[2])
        /\ EarlierDecided(i[1], i[2]) /\ snapshot[i[1]][i[2]] # 0
  BY DEF PreparedDue, DueAt, IsDue, Pending, EarlierDecided
<1>6. TasksSound'
  <2>1. CASE OnTask(w)' = FALSE
    BY <1>1, <2>1, OthersKept DEF TaskSound
  <2>2. CASE Due(w) /\ hand'[w].phase = "plan"
             /\ \E i \in PreparedDue(hand[w].at) : hand'[w].p = i[1] /\ hand'[w].s = i[2]
    <3>1. UNCHANGED <<first, snapshot, decision>>
      BY <2>2 DEF Due, productVars, ledgerVars
    <3>2. TaskSound(w)'
      BY <1>5, <2>2, <3>1 DEF TaskSound, Eligible, EarlierDecided, Decided
    <3> QED
      BY <1>1, <3>2, OthersKept
  <2> QED
    BY <1>4, <2>1, <2>2
<1>7. RunsAreManned'
  <2> SUFFICES ASSUME Quiet' PROVE RunsAreManned'
    BY DEF RunsAreManned
  <2>1. Quiet /\ w = Main /\ ~Raise(w) /\ ~Die(w)
    BY <1>1, OthersKept
  <2>2. hand[Main].phase \notin {"work", "derive", "publish"}
    BY <2>1 DEF Join, Start, Observe, Prepare, Due, InPhase, Off
  <2>3. hand'[Main].phase \in {"plan", "raw"} => ~Decided(hand'[Main].p, hand'[Main].s)
    BY <1>4, <1>5, <2>1 DEF OnTask
  <2> QED
    BY <1>2, <2>1, <2>2, <2>3 DEF Inv, RunsAreManned, IsAt, Decided
<1>8. ReportsFollow'
  <2>1. hand[w].phase # "monitor" \/ faults' > 0
    BY <1>2 DEF Join, Start, Observe, Prepare, Due, Raise, Die, InPhase, Off
  <2>2. faults' = 0 => faults = 0
    BY <1>1, <1>2, WorkerGoes DEF Inv
  <2> QED
    BY <1>1, <1>2, <2>1, <2>2, OthersKept, ReportersStay
<1> QED
  BY <1>3, <1>6, <1>7, <1>8 DEF Inv

\* The raw payloads are looked for, and published one after the other.
LEMMA RawSteps ==
  ASSUME Inv, NEW w \in Worker, FindRaw(w) \/ PublishRaw(w)
  PROVE  Inv'
<1> DEFINE p == hand[w].p  s == hand[w].s
<1>1. Join(w) \/ Start(w) \/ Cycle(w) \/ Raise(w) \/ Die(w)
  BY DEF Cycle
<1>2. /\ UNCHANGED <<first, snapshot, run, decision, monitor, faults>>
      /\ hand \in [Worker -> Hand] /\ hand[w].phase \in {"plan", "raw"}
  <2>1. UNCHANGED <<first, snapshot, run, decision, monitor, faults>>
    BY DEF productVars, ledgerVars, FindRaw, PublishRaw
  <2>2. hand[w].phase \in {"plan", "raw"}
    BY DEF FindRaw, PublishRaw, InPhase
  <2> QED
    BY <2>1, <2>2 DEF Inv, ProductTypeOK
<1>3. ProductTypeOK' /\ Grows /\ InputsCover' /\ RunsHaveRaw' /\ DecisionsSound' /\ MonitoringIsExact'
  BY <1>1, <1>2, OthersKept
<1>4. p \in Product /\ s \in Session /\ Eligible(p, s) /\ EarlierDecided(p, s) /\ snapshot[p][s] # 0
  BY <1>2, HandShape DEF Inv, TasksSound, TaskSound, OnTask
<1>5. /\ \A v \in Worker \ {w} : hand'[v] = hand[v]
      /\ Quiet' => Quiet /\ w = Main
  BY <1>1, OthersKept
<1>6. \/ hand'[w] \in {Idle, Down}
      \/ \E new \in {"plan", "raw"} : hand'[w] = [phase |-> new, p |-> p, s |-> s]
  <2>1. \/ Goes(w, Rest(w))
        \/ \E new \in {"plan", "raw"} : Goes(w, [hand[w] EXCEPT !.phase = new])
        \/ UNCHANGED hand
    BY DEF FindRaw, PublishRaw
  <2>2. \A new \in {"plan", "raw"} : [hand[w] EXCEPT !.phase = new] = [phase |-> new, p |-> p, s |-> s]
    BY <1>2, HandShape
  <2>3. hand[w] = [hand[w] EXCEPT !.phase = hand[w].phase]
    BY <1>2 DEF Hand, Off, Down, Idle
  <2> QED
    BY <1>2, <2>1, <2>2, <2>3, Resting DEF Goes
<1>7. TaskSound(w)'
  <2>1. CASE hand'[w] \in {Idle, Down}
    BY <2>1 DEF TaskSound, OnTask, Idle, Down
  <2>2. CASE \E new \in {"plan", "raw"} : hand'[w] = [phase |-> new, p |-> p, s |-> s]
    BY <1>2, <1>4, <2>2 DEF TaskSound, OnTask, Eligible, EarlierDecided, Decided
  <2> QED
    BY <1>6, <2>1, <2>2
<1>8. RunsAreManned'
  <2> SUFFICES ASSUME Quiet' PROVE RunsAreManned'
    BY DEF RunsAreManned
  <2>1. \A q \in Product, r \in Session : ~(run[q][r] # "none" /\ ~Decided(q, r))
    BY <1>2, <1>5 DEF Inv, RunsAreManned, IsAt
  <2>2. ~Decided(p, s)
    BY <1>2, <1>5 DEF Inv, RunsAreManned
  <2> QED
    BY <1>2, <1>5, <1>6, <2>1, <2>2 DEF RunsAreManned, Decided, Idle, Down
<1>9. ReportsFollow'
  BY <1>2, <1>5, ReportersStay
<1> QED
  BY <1>1, <1>3, <1>7, <1>8, <1>9, OthersKept DEF Inv

\* The run of the session is planned, worked on, and its outputs are derived.
LEMMA RunSteps ==
  ASSUME Inv, NEW w \in Worker, Plan(w) \/ Work(w) \/ Derive(w)
  PROVE  Inv'
<1> DEFINE p == hand[w].p  s == hand[w].s
<1>1. Join(w) \/ Start(w) \/ Cycle(w) \/ Raise(w) \/ Die(w)
  BY DEF Cycle
<1>2. /\ UNCHANGED <<first, frozen, snapshot, decision, monitor, faults>>
      /\ hand \in [Worker -> Hand] /\ run \in [Product -> [Session -> {"none", "open", "done"}]]
      /\ hand[w].phase \in {"plan", "work", "derive"}
  <2>1. UNCHANGED <<first, frozen, snapshot, decision, monitor, faults>>
    BY DEF productVars, ledgerVars, Plan, Work, Derive
  <2>2. hand[w].phase \in {"plan", "work", "derive"}
    BY DEF Plan, Work, Derive, InPhase
  <2> QED
    BY <2>1, <2>2 DEF Inv, ProductTypeOK
<1>3. ProductTypeOK' /\ Grows /\ InputsCover' /\ RunsHaveRaw' /\ DecisionsSound' /\ MonitoringIsExact'
  BY <1>1, <1>2, OthersKept
<1>4. p \in Product /\ s \in Session /\ Eligible(p, s) /\ EarlierDecided(p, s) /\ snapshot[p][s] # 0
  BY <1>2, HandShape DEF Inv, TasksSound, TaskSound, OnTask
<1>5. hand[w].phase = "derive" => run[p][s] = "done"
  BY <1>2 DEF Inv, TasksSound, TaskSound, OnTask
<1>6. ASSUME Quiet, w = Main, hand[w].phase = "plan"
      PROVE  ~Decided(p, s) /\ run[p][s] = "none"
  BY <1>4, <1>6 DEF Inv, RunsAreManned, IsAt
<1>7. /\ \A v \in Worker \ {w} : hand'[v] = hand[v]
      /\ Quiet' => Quiet /\ w = Main
  BY <1>1, OthersKept
<1>8. \/ hand'[w] \in {Idle, Down} /\ hand[w].phase = "plan" /\ run[p][s] = "open" /\ UNCHANGED run
      \/ /\ hand'[w] = [phase |-> "work", p |-> p, s |-> s] /\ hand[w].phase = "plan"
         /\ run' = [run EXCEPT ![p][s] = "open"]
      \/ /\ hand'[w] = [phase |-> "derive", p |-> p, s |-> s] /\ hand[w].phase = "work"
         /\ run' = [run EXCEPT ![p][s] = "done"]
      \/ /\ hand'[w] = [phase |-> "publish", p |-> p, s |-> s, answer |-> "no_outputs"]
         /\ hand[w].phase = "plan" /\ run[p][s] = "done" /\ UNCHANGED run
      \/ /\ hand'[w] = [phase |-> "publish", p |-> p, s |-> s, answer |-> Derived(p, s)]
         /\ hand[w].phase = "derive" /\ UNCHANGED run
  BY <1>2, Resting DEF Plan, Work, Derive, Goes, InPhase, ledgerVars
<1>9. TaskSound(w)'
  <2>1. CASE hand'[w] \in {Idle, Down}
    BY <2>1 DEF TaskSound, OnTask, Idle, Down
  <2>2. CASE hand'[w] = [phase |-> "work", p |-> p, s |-> s] /\ run' = [run EXCEPT ![p][s] = "open"]
    <3>1. run'[p][s] = "open"
      BY <1>2, <1>4, <2>2
    <3> QED
      BY <1>2, <1>4, <2>2, <3>1 DEF TaskSound, OnTask, Eligible, EarlierDecided, Decided
  <2>3. CASE hand'[w] = [phase |-> "derive", p |-> p, s |-> s] /\ run' = [run EXCEPT ![p][s] = "done"]
    <3>1. run'[p][s] = "done"
      BY <1>2, <1>4, <2>3
    <3> QED
      BY <1>2, <1>4, <2>3, <3>1 DEF TaskSound, OnTask, Eligible, EarlierDecided, Decided
  <2>4. CASE /\ hand'[w] = [phase |-> "publish", p |-> p, s |-> s, answer |-> "no_outputs"]
             /\ hand[w].phase = "plan" /\ run[p][s] = "done" /\ UNCHANGED run
    <3>1. ~Quiet'
      BY <1>6, <1>7, <2>4
    <3> QED
      BY <1>2, <1>4, <2>4, <3>1 DEF TaskSound, OnTask, Eligible, EarlierDecided, Decided, AnswerSound
  <2>5. CASE /\ hand'[w] = [phase |-> "publish", p |-> p, s |-> s, answer |-> Derived(p, s)]
             /\ hand[w].phase = "derive" /\ UNCHANGED run
    <3>1. AnswerSound(p, s, Derived(p, s)) /\ Derived(p, s) # "no_outputs"
      BY DEF AnswerSound, Derived
    <3> QED
      BY <1>2, <1>4, <1>5, <2>5, <3>1 DEF TaskSound, OnTask, Eligible, EarlierDecided, Decided, AnswerSound
  <2> QED
    BY <1>8, <2>1, <2>2, <2>3, <2>4, <2>5
<1>10. RunsAreManned'
  <2> SUFFICES ASSUME Quiet' PROVE RunsAreManned'
    BY DEF RunsAreManned
  <2>1. Quiet /\ w = Main
    BY <1>7
  <2>2. \A q \in Product, r \in Session :
          run'[q][r] # "none" /\ ~Decided(q, r) =>
            (run[q][r] # "none" /\ ~Decided(q, r)) \/ (q = p /\ r = s)
    <3>1. "open" \in {"none", "open", "done"} /\ "done" \in {"none", "open", "done"}
      OBVIOUS
    <3>2. CASE UNCHANGED run
      BY <3>2
    <3>3. CASE run' = [run EXCEPT ![p][s] = "open"]
      BY <1>2, <1>4, <3>1, <3>3, Cell
    <3>4. CASE run' = [run EXCEPT ![p][s] = "done"]
      BY <1>2, <1>4, <3>1, <3>4, Cell
    <3> QED
      BY <1>8, <3>2, <3>3, <3>4
  <2>3. \A q \in Product, r \in Session :
          run[q][r] # "none" /\ ~Decided(q, r) => hand[w].phase # "plan" /\ q = p /\ r = s
    BY <2>1 DEF Inv, RunsAreManned, IsAt
  <2>4. \/ hand'[w].phase \in {"work", "derive", "publish"} /\ hand'[w].p = p /\ hand'[w].s = s
        \/ hand'[w] \in {Idle, Down} /\ hand[w].phase = "plan" /\ run[p][s] = "open"
    BY <1>8
  <2>5. /\ hand'[w].phase \in {"work", "derive", "publish"} /\ hand'[w].p = p /\ hand'[w].s = s
    BY <1>6, <2>1, <2>4
  <2> QED
    BY <1>2, <2>1, <2>2, <2>3, <2>5 DEF RunsAreManned, IsAt, Decided
<1>11. ReportsFollow'
  BY <1>2, <1>7, ReportersStay
<1> QED
  BY <1>1, <1>3, <1>9, <1>10, <1>11, OthersKept DEF Inv

\* The decision of the session is written, or found to be another.
LEMMA PublishStep ==
  ASSUME Inv, NEW w \in Worker, Publish(w)
  PROVE  Inv'
<1> DEFINE p == hand[w].p  s == hand[w].s  answer == hand[w].answer
<1>1. Join(w) \/ Start(w) \/ Cycle(w) \/ Raise(w) \/ Die(w)
  BY DEF Cycle
<1>2. /\ UNCHANGED <<first, frozen, snapshot, run, monitor, faults>>
      /\ hand \in [Worker -> Hand] /\ hand[w].phase = "publish"
      /\ decision \in [Product -> [Session -> Outcome \cup {"none"}]]
  BY DEF Inv, ProductTypeOK, productVars, Publish, InPhase
<1>3. ProductTypeOK' /\ Grows /\ InputsCover' /\ RunsHaveRaw' /\ MonitoringIsExact'
  BY <1>1, <1>2, OthersKept
<1>4. /\ p \in Product /\ s \in Session /\ answer \in Outcome /\ answer # "none"
      /\ [hand[w] EXCEPT !.phase = "monitor"] = [phase |-> "monitor", p |-> p, s |-> s, answer |-> answer]
  BY <1>2, HandShape DEF OnTask, Outcome, Missing
<1>5. /\ Eligible(p, s) /\ EarlierDecided(p, s) /\ snapshot[p][s] # 0 /\ run[p][s] = "done"
      /\ AnswerSound(p, s, answer)
  BY <1>2 DEF Inv, TasksSound, TaskSound, OnTask
<1>6. /\ \A v \in Worker \ {w} : hand'[v] = hand[v]
      /\ Quiet' => Quiet /\ w = Main
  BY <1>1, OthersKept
<1>7. CASE decision[p][s] \notin {"none", answer}
  <2>1. UNCHANGED decision /\ hand'[w] \in {Idle, Down}
    BY <1>2, <1>7, Resting, GoesOn DEF Publish
  <2>2. TaskSound(w)'
    BY <2>1 DEF TaskSound, OnTask, Idle, Down
  <2>3. RunsAreManned'
    <3> SUFFICES ASSUME Quiet' PROVE RunsAreManned'
      BY DEF RunsAreManned
    <3>1. \A q \in Product, r \in Session : run[q][r] # "none" => Decided(q, r)
      BY <1>6, <1>7, <1>2 DEF Inv, RunsAreManned, IsAt, Decided
    <3> QED
      BY <1>2, <1>6, <2>1, <3>1 DEF RunsAreManned, Decided, Idle, Down
  <2>4. ReportsFollow'
    BY <1>2, <1>6, <2>1, ReportersStay
  <2> QED
    BY <1>1, <1>3, <2>1, <2>2, <2>3, <2>4, OthersKept DEF Inv
<1>8. CASE decision[p][s] \in {"none", answer}
  <2>1. /\ decision' = [decision EXCEPT ![p][s] = answer]
        /\ hand'[w] = [phase |-> "monitor", p |-> p, s |-> s, answer |-> answer]
    BY <1>2, <1>4, <1>8 DEF Publish, Goes
  <2>2. \A q \in Product, r \in Session : decision'[q][r] = IF q = p /\ r = s THEN answer ELSE decision[q][r]
    BY <1>2, <1>4, <2>1, Cell
  <2>3. \A r \in Session : first[p] <= r /\ r < s => decision'[p][r] # "none"
    BY <1>4, <1>5, <2>2 DEF EarlierDecided, Decided
  <2>4. AnswerSound(p, s, answer) /\ frozen' = frozen /\ (Quiet' => Quiet)
    BY <1>2, <1>5, <1>6
  <2>5. TaskSound(w)'
    BY <1>2, <1>4, <1>5, <2>1, <2>2, <2>3, <2>4 DEF TaskSound, OnTask, Eligible, EarlierDecided, Decided, AnswerSound
  <2>6. DecisionsSound'
    <3> SUFFICES ASSUME NEW q \in Product, NEW r \in Session, Decided(q, r)'
                 PROVE  /\ Eligible(q, r)' /\ EarlierDecided(q, r)' /\ snapshot'[q][r] # 0 /\ run'[q][r] = "done"
                        /\ AnswerSound(q, r, decision[q][r])'
      BY DEF DecisionsSound
    <3>1. CASE q = p /\ r = s
      BY <1>2, <1>4, <1>5, <2>2, <2>3, <2>4, <3>1 DEF Eligible, EarlierDecided, Decided, AnswerSound
    <3>2. CASE ~(q = p /\ r = s)
      <4>1. Decided(q, r)
        BY <2>2, <3>2 DEF Decided
      <4> QED
        BY <1>3, <4>1, DecisionKept DEF Inv
    <3> QED
      BY <3>1, <3>2
  <2>7. RunsAreManned'
    <3> SUFFICES ASSUME Quiet' PROVE RunsAreManned'
      BY DEF RunsAreManned
    <3>1. \A q \in Product, r \in Session : run[q][r] # "none" => decision'[q][r] # "none"
      BY <1>2, <1>4, <1>6, <2>2 DEF Inv, RunsAreManned, IsAt, Decided
    <3> QED
      BY <1>2, <1>6, <2>1, <3>1 DEF RunsAreManned, Decided
  <2>8. ReportsFollow'
    <3> SUFFICES ASSUME NEW q \in Product, NEW r \in Session, Decided(q, r)', monitor'[q][r] = {}, faults' = 0
                 PROVE  \E v \in Worker : hand'[v].phase = "monitor" /\ hand'[v].p = q /\ hand'[v].s = r
      BY DEF ReportsFollow, InPhase, At
    <3>1. CASE q = p /\ r = s
      BY <2>1, <3>1
    <3>2. CASE ~(q = p /\ r = s)
      <4>1. PICK v \in Worker : hand[v].phase = "monitor" /\ hand[v].p = q /\ hand[v].s = r
        BY <1>2, <2>2, <3>2 DEF Inv, ReportsFollow, Decided, InPhase, At
      <4> QED
        BY <1>2, <1>6, <4>1
    <3> QED
      BY <3>1, <3>2
  <2> QED
    BY <1>1, <1>3, <2>5, <2>6, <2>7, <2>8, OthersKept DEF Inv
<1> QED
  BY <1>7, <1>8

\* The sessions up to a decided one are decided, so a report counts them all.
LEMMA CountIsExact ==
  ASSUME Inv, NEW p \in Product, NEW s \in Session, Eligible(p, s), EarlierDecided(p, s), Decided(p, s)
  PROVE  Counted(p, s) = first[p]..s /\ Counted(p, s) # {}
<1>1. first[p] \in 1..s /\ s \in 1..N /\ N \in Nat
  BY ProductAssumption DEF Inv, ProductTypeOK, Eligible, Session
<1>2. ASSUME NEW r \in first[p]..s
      PROVE  r \in Counted(p, s)
  <2>1. r \in Session /\ first[p] <= r /\ r <= s
    BY <1>1 DEF Session
  <2>2. r < s \/ r = s
    BY <1>1, <2>1 DEF Session
  <2> QED
    BY <2>1, <2>2 DEF Counted, EarlierDecided
<1>3. Counted(p, s) \subseteq first[p]..s
  BY <1>1 DEF Counted, Session
<1>4. s \in first[p]..s
  BY <1>1
<1> QED
  BY <1>2, <1>3, <1>4

\* The report of the decision is written, or found.
LEMMA MonitorStep ==
  ASSUME Inv, NEW w \in Worker, Monitor(w)
  PROVE  Inv'
<1> DEFINE p == hand[w].p  s == hand[w].s
<1>1. Join(w) \/ Start(w) \/ Cycle(w) \/ Raise(w) \/ Die(w)
  BY DEF Cycle
<1>2. /\ UNCHANGED <<first, frozen, snapshot, run, decision, faults>>
      /\ hand \in [Worker -> Hand] /\ hand[w].phase = "monitor"
      /\ monitor \in [Product -> [Session -> SUBSET Session]]
  BY DEF Inv, ProductTypeOK, productVars, Monitor, InPhase
<1>3. ProductTypeOK' /\ Grows /\ InputsCover' /\ RunsHaveRaw' /\ DecisionsSound'
  BY <1>1, <1>2, OthersKept
<1>4. p \in Product /\ s \in Session /\ hand[w].answer \in Outcome /\ hand[w].answer # "none"
  BY <1>2, HandShape DEF OnTask, Outcome, Missing
<1>5. Eligible(p, s) /\ EarlierDecided(p, s) /\ Decided(p, s)
  BY <1>2, <1>4 DEF Inv, TasksSound, TaskSound, OnTask, Decided
<1>6. Counted(p, s) = first[p]..s /\ Counted(p, s) # {}
  BY <1>4, <1>5, CountIsExact
<1>7. /\ \A v \in Worker \ {w} : hand'[v] = hand[v]
      /\ Quiet' => Quiet /\ w = Main
  BY <1>1, OthersKept
<1>8. hand'[w] \in {Idle, Down}
  BY <1>2, Resting, GoesOn DEF Monitor, Report
<1>9. \/ monitor' = [monitor EXCEPT ![p][s] = Counted(p, s)]
      \/ UNCHANGED monitor /\ monitor[p][s] # {}
  BY DEF Monitor, Report
<1>10. /\ monitor'[p][s] # {}
       /\ \A q \in Product, r \in Session :
            monitor'[q][r] = monitor[q][r] \/ (q = p /\ r = s /\ monitor'[q][r] = first[p]..s)
  <2>1. CASE monitor' = [monitor EXCEPT ![p][s] = Counted(p, s)]
    <3>1. Counted(p, s) \in SUBSET Session
      BY <1>4, CountedInSessions
    <3>2. \A q \in Product, r \in Session :
            monitor'[q][r] = IF q = p /\ r = s THEN Counted(p, s) ELSE monitor[q][r]
      BY <1>2, <1>4, <2>1, <3>1, Cell
    <3> QED
      BY <1>4, <1>6, <3>2
  <2> QED
    BY <1>9, <2>1
<1>11. MonitoringIsExact'
  BY <1>2, <1>10 DEF Inv, MonitoringIsExact
<1>12. TaskSound(w)'
  BY <1>8 DEF TaskSound, OnTask, Idle, Down
<1>13. RunsAreManned'
  <2> SUFFICES ASSUME Quiet' PROVE RunsAreManned'
    BY DEF RunsAreManned
  <2>1. \A q \in Product, r \in Session : run[q][r] # "none" => Decided(q, r)
    BY <1>2, <1>7 DEF Inv, RunsAreManned, IsAt
  <2> QED
    BY <1>2, <1>7, <1>8, <2>1 DEF RunsAreManned, Decided, Idle, Down
<1>14. ReportsFollow'
  <2> SUFFICES ASSUME NEW q \in Product, NEW r \in Session, Decided(q, r)', monitor'[q][r] = {}, faults' = 0
               PROVE  \E v \in Worker : hand'[v].phase = "monitor" /\ hand'[v].p = q /\ hand'[v].s = r
    BY DEF ReportsFollow, InPhase, At
  <2>1. monitor[q][r] = {}
    BY <1>6, <1>10
  <2>2. PICK v \in Worker : hand[v].phase = "monitor" /\ hand[v].p = q /\ hand[v].s = r
    BY <1>2, <2>1 DEF Inv, ReportsFollow, Decided, InPhase, At
  <2>3. v # w
    BY <1>10, <2>2
  <2> QED
    BY <1>7, <2>2, <2>3
<1> QED
  BY <1>1, <1>3, <1>11, <1>12, <1>13, <1>14, OthersKept DEF Inv

LEMMA StutterStep ==
  ASSUME Inv, UNCHANGED vars
  PROVE  Inv'
<1> USE DEF Inv, vars, marketVars, productVars, ledgerVars
<1>1. ProductTypeOK' /\ InputsCover' /\ RunsHaveRaw' /\ MonitoringIsExact'
  BY DEF ProductTypeOK, InputsCover, RunsHaveRaw, MonitoringIsExact
<1>2. DecisionsSound'
  BY DEF DecisionsSound, Decided, Eligible, EarlierDecided, AnswerSound, Quiet
<1>3. TasksSound'
  BY DEF TasksSound, TaskSound, OnTask, Decided, Eligible, EarlierDecided, AnswerSound, Quiet
<1>4. RunsAreManned' /\ ReportsFollow'
  BY DEF RunsAreManned, ReportsFollow, Decided, IsAt, Quiet, InPhase, At
<1> QED
  BY <1>1, <1>2, <1>3, <1>4

LEMMA InvStep == Inv /\ [Next]_vars => Inv'
<1> SUFFICES ASSUME Inv, [Next]_vars PROVE Inv'
  OBVIOUS
<1>1. CASE Outside
  BY <1>1, OutsideSteps
<1>2. ASSUME NEW w \in Worker, Join(w) \/ Start(w) \/ Cycle(w) \/ Raise(w) \/ Die(w)
      PROVE  Inv'
  BY <1>2, MoveSteps, RawSteps, RunSteps, PublishStep, MonitorStep DEF Cycle
<1>3. CASE UNCHANGED vars
  BY <1>3, StutterStep
<1> QED
  BY <1>1, <1>2, <1>3 DEF Next, Outside

-----------------------------------------------------------------------------
(* Theorems *)

\* Tasks, runs, decisions and reports fit together in every reachable state.
THEOREM ProductInvariance == Spec => []Inv
<1> QED
  BY InitInv, InvStep, PTL DEF Spec

\* Every variable keeps its type: tables, clock, lifecycles and processes.
THEOREM ProductTypeCorrect == Spec => []ProductTypeOK
<1>1. Inv => ProductTypeOK
  BY DEF Inv
<1> QED
  BY <1>1, ProductInvariance, PTL

\* The sessions of a product are decided in order, by however many workers.
THEOREM DecisionsComeInOrder == Spec => []DecidedInOrder
<1>1. Inv => DecidedInOrder
  BY DEF Inv, DecisionsSound, DecidedInOrder, EarlierDecided
<1> QED
  BY <1>1, ProductInvariance, PTL

\* A report counts exactly the sessions up to its own.
THEOREM ReportsAreExact == Spec => []MonitoringIsExact
<1>1. Inv => MonitoringIsExact
  BY DEF Inv
<1> QED
  BY <1>1, ProductInvariance, PTL

\* A completed decision has its input, all its raw payloads, its run and its state.
THEOREM CompletedHasEvidence == Spec => []DecisionHasEvidence
<1>1. Inv => DecisionHasEvidence
  BY DEF Inv, DecisionsSound, InputsCover, RunsHaveRaw, DecisionHasEvidence, AnswerSound, Decided
<1> QED
  BY <1>1, ProductInvariance, PTL

\* A worker that runs alone and undisturbed misses a session only for a reason.
THEOREM MissingHasReason == Spec => []MissingIsExplained
<1>1. Inv => MissingIsExplained
  <2> SUFFICES ASSUME Inv, NEW p \in Product, NEW s \in Session
               PROVE  /\ decision[p][s] = "no_state" => p \in Supervised
                      /\ decision[p][s] = "no_data" => <<p, s>> \in Gappy
                      /\ decision[p][s] = "no_outputs" =>
                           faults > 0 \/ \E w \in Worker \ {Main} : hand[w] # Off
    BY DEF MissingIsExplained
  <2>1. ~Quiet => faults > 0 \/ \E w \in Worker \ {Main} : hand[w] # Off
    BY DEF Quiet, Inv, ProductTypeOK
  <2>2. Decided(p, s) => AnswerSound(p, s, decision[p][s])
    BY DEF Inv, DecisionsSound
  <2> QED
    BY <2>1, <2>2 DEF AnswerSound, Decided
<1> QED
  BY <1>1, ProductInvariance, PTL

\* Without a fault a decision is reported by the worker that published it.
THEOREM DecisionsAreReported == Spec => []ReportsFollow
<1>1. Inv => ReportsFollow
  BY DEF Inv
<1> QED
  BY <1>1, ProductInvariance, PTL

\* Inputs, decisions and reports are never rewritten.
THEOREM LedgerStands == Spec => LedgerIsFinal
<1>1. Inv /\ [Next]_vars =>
        [\A p \in Product, s \in Session :
           /\ snapshot[p][s] # 0 => snapshot'[p][s] = snapshot[p][s]
           /\ Decided(p, s) => decision'[p][s] = decision[p][s]
           /\ monitor[p][s] # {} => monitor'[p][s] = monitor[p][s]]_vars
  BY StepGrows DEF Inv, Grows
<1> QED
  BY <1>1, ProductInvariance, PTL DEF Spec, LedgerIsFinal
-----------------------------------------------------------------------------
(* The ledger *)

tables == <<first, snapshot, decision, monitor>>

LEMMA EnrollEnters ==
  ASSUME Inv, NEW p \in Product, Enroll(p)
  PROVE  Ledger!Enroll(p)
<1>1. Anchor[p] + 1 \in 1..N
  BY ProductAssumption
<1> QED
  BY <1>1 DEF Enroll, ledgerVars, Ledger!Enroll, Ledger!Session

\* A gate is bound before the decision, or it is the one that is bound.
LEMMA BindEnters ==
  ASSUME Inv, NEW p \in Product, NEW s \in Session, NEW n \in Session,
         Preparable(p, s, n), Bind(p, s, n), UNCHANGED <<first, decision, monitor>>
  PROVE  Ledger!Bind(p, s, n) \/ UNCHANGED tables
<1>1. snapshot \in [Product -> [Session -> 0..N]]
  BY DEF Inv, ProductTypeOK
<1>2. CASE snapshot[p][s] = 0
  <2>1. s \in Ledger!UpTo(p, n)
    BY DEF Preparable, Eligible, Ledger!UpTo, Ledger!Session, Session
  <2>2. decision[p][s] = "none"
    BY <1>2 DEF Inv, DecisionsSound, Decided
  <2> QED
    BY <1>2, <2>1, <2>2 DEF Ledger!Bind, Bind
<1>3. CASE snapshot[p][s] = n
  BY <1>1, <1>3 DEF Bind, tables
<1> QED
  BY <1>2, <1>3 DEF Preparable

LEMMA PublishEnters ==
  ASSUME Inv, NEW w \in Worker, Publish(w), NEW p \in Product, NEW s \in Session,
         p = hand[w].p, s = hand[w].s
  PROVE  (\E answer \in Outcome : Ledger!Decide(p, s, answer)) \/ UNCHANGED tables
<1> DEFINE answer == hand[w].answer
<1>1. /\ UNCHANGED <<first, snapshot, monitor>> /\ hand \in [Worker -> Hand] /\ hand[w].phase = "publish"
      /\ decision \in [Product -> [Session -> Outcome \cup {"none"}]]
  BY DEF Inv, ProductTypeOK, productVars, Publish, InPhase
<1>2. answer \in Outcome /\ answer # "none"
  BY <1>1, HandShape DEF Outcome, Missing
<1>3. Eligible(p, s) /\ EarlierDecided(p, s) /\ snapshot[p][s] # 0
  BY <1>1 DEF Inv, TasksSound, TaskSound, OnTask
<1>4. CASE decision[p][s] = "none" /\ decision' = [decision EXCEPT ![p][s] = answer]
  <2>1. s \in Ledger!UpTo(p, s)
    BY <1>3 DEF Eligible, Ledger!UpTo, Ledger!Session, Session
  <2>2. {r \in Ledger!UpTo(p, s) : decision[p][r] = "none"} = {s}
    <3>1. ASSUME NEW r \in Ledger!UpTo(p, s), r # s
          PROVE  decision[p][r] # "none"
      <4>1. r \in Session /\ first[p] <= r /\ r < s
        BY <3>1, ProductAssumption DEF Ledger!UpTo, Ledger!Session, Session
      <4> QED
        BY <1>3, <4>1 DEF EarlierDecided, Decided
    <3> QED
      BY <1>4, <2>1, <3>1
  <2> QED
    BY <1>1, <1>2, <1>3, <1>4, <2>1, <2>2 DEF Ledger!Decide
<1>5. CASE UNCHANGED decision
  BY <1>1, <1>5 DEF tables
<1>6. CASE decision[p][s] = answer /\ decision' = [decision EXCEPT ![p][s] = answer]
  BY <1>1, <1>6 DEF tables
<1> QED
  BY <1>2, <1>4, <1>5, <1>6 DEF Publish

LEMMA MonitorEnters ==
  ASSUME Inv, NEW w \in Worker, Monitor(w), NEW p \in Product, NEW s \in Session,
         p = hand[w].p, s = hand[w].s
  PROVE  Ledger!Report(p, s) \/ UNCHANGED tables
<1>1. /\ UNCHANGED <<first, snapshot, decision>> /\ hand \in [Worker -> Hand] /\ hand[w].phase = "monitor"
      /\ monitor \in [Product -> [Session -> SUBSET Session]]
  BY DEF Inv, ProductTypeOK, productVars, Monitor, InPhase
<1>2. hand[w].answer \in Outcome /\ hand[w].answer # "none"
  BY <1>1, HandShape DEF Outcome, Missing
<1>3. Eligible(p, s) /\ EarlierDecided(p, s) /\ Decided(p, s)
  BY <1>1, <1>2 DEF Inv, TasksSound, TaskSound, OnTask, Decided
<1>4. Counted(p, s) = first[p]..s /\ Counted(p, s) # {}
  BY <1>3, CountIsExact
<1>5. Counted(p, s) = Ledger!UpTo(p, s)
  <2>1. first[p] \in 1..N /\ s \in 1..N
    BY <1>3, ProductAssumption DEF Inv, ProductTypeOK, Eligible, Session
  <2> QED
    BY <1>4, <2>1, ProductAssumption DEF Ledger!UpTo, Ledger!Session
<1>6. CASE monitor[p][s] = {} /\ monitor' = [monitor EXCEPT ![p][s] = Counted(p, s)]
  BY <1>1, <1>3, <1>5, <1>6 DEF Ledger!Report, Decided
<1>7. CASE UNCHANGED monitor
  BY <1>1, <1>7 DEF tables
<1>8. CASE monitor[p][s] = Counted(p, s) /\ monitor' = [monitor EXCEPT ![p][s] = Counted(p, s)]
  BY <1>1, <1>8 DEF tables
<1> QED
  BY <1>6, <1>7, <1>8 DEF Monitor, Report

LEMMA LedgerStep ==
  ASSUME Inv, [Next]_vars
  PROVE  [Ledger!Next]_tables
<1> USE DEF marketVars, productVars, ledgerVars
<1>1. CASE UNCHANGED vars
  BY <1>1 DEF vars, tables
<1>2. CASE Tick \/ \E n \in Session : PublishGate(n)
  BY <1>2 DEF Tick, PublishGate, tables
<1>3. CASE Operate
  <2>1. ASSUME NEW p \in Product, Enroll(p)
        PROVE  Ledger!Next
    BY <2>1, EnrollEnters DEF Ledger!Next
  <2>2. ASSUME NEW p \in Product, NEW s \in Session, NEW n \in Session, OperatorPrepare(p, s, n)
        PROVE  Ledger!Next \/ UNCHANGED tables
    <3>1. Ledger!Bind(p, s, n) \/ UNCHANGED tables
      BY <2>2, BindEnters DEF OperatorPrepare
    <3> QED
      BY <3>1 DEF Ledger!Next, Ledger!Session, Session
  <2>3. ASSUME NEW p \in Product, \/ FreezeState(p)
                                  \/ \E to \in Lifecycle, at \in Time : ChangeLifecycle(p, to, at)
        PROVE  UNCHANGED tables
    BY <2>3 DEF FreezeState, ChangeLifecycle, tables
  <2> QED
    BY <1>3, <2>1, <2>2, <2>3, ProductAssumption DEF Operate
<1>4. ASSUME NEW w \in Worker, Join(w) \/ Start(w) \/ Observe(w) \/ Due(w) \/ FindRaw(w) \/ PublishRaw(w)
                               \/ Plan(w) \/ Work(w) \/ Derive(w) \/ Raise(w) \/ Die(w)
      PROVE  UNCHANGED tables
  BY <1>4 DEF Join, Start, Observe, Due, FindRaw, PublishRaw, Plan, Work, Derive, Raise, Die, tables
<1>5. ASSUME NEW w \in Worker, Prepare(w)
      PROVE  Ledger!Next \/ UNCHANGED tables
  <2>1. PICK i \in hand[w].todo, n \in Session :
          IF Preparable(i[1], i[2], n) THEN Bind(i[1], i[2], n) ELSE UNCHANGED snapshot
    BY <1>5 DEF Prepare
  <2>2. i[1] \in Product /\ i[2] \in Session /\ UNCHANGED <<first, decision, monitor>>
    <3>1. hand \in [Worker -> Hand] /\ hand[w].phase = "prepare"
      BY <1>5 DEF Inv, ProductTypeOK, Prepare, InPhase
    <3>2. hand[w].todo \subseteq Product \X Session
      BY <3>1, HandShape
    <3> QED
      BY <1>5, <3>2 DEF Prepare
  <2>3. CASE Preparable(i[1], i[2], n)
    <3>1. Ledger!Bind(i[1], i[2], n) \/ UNCHANGED tables
      BY <2>1, <2>2, <2>3, BindEnters
    <3> QED
      BY <2>2, <3>1 DEF Ledger!Next, Ledger!Session, Session
  <2> QED
    BY <2>1, <2>2, <2>3 DEF tables
<1>6. ASSUME NEW w \in Worker, Publish(w) \/ Monitor(w)
      PROVE  Ledger!Next \/ UNCHANGED tables
  <2>1. PICK p \in Product, s \in Session : p = hand[w].p /\ s = hand[w].s
    BY <1>6, HandShape DEF Inv, ProductTypeOK, Publish, Monitor, InPhase, OnTask
  <2>2. \/ \E answer \in Outcome : Ledger!Decide(p, s, answer)
        \/ Ledger!Report(p, s)
        \/ UNCHANGED tables
    BY <1>6, <2>1, PublishEnters, MonitorEnters
  <2> QED
    BY <2>2 DEF Ledger!Next, Ledger!Session, Session
<1> QED
  BY <1>1, <1>2, <1>3, <1>4, <1>5, <1>6 DEF Next, Cycle

\* However many workers overlap, with whatever clocks, faults and suspensions,
\* the tables are those of one orderly book-keeper.
THEOREM LedgerIsKept == Spec => KeepsLedger
<1>1. Init => Ledger!Init
  BY DEF Init, Ledger!Init, Ledger!Session, Session
<1>2. Inv /\ [Next]_vars => [Ledger!Next]_<<first, snapshot, decision, monitor>>
  BY LedgerStep DEF tables
<1> QED
  BY <1>1, <1>2, ProductInvariance, PTL DEF Spec, KeepsLedger, Ledger!Spec, Ledger!ledger

=============================================================================
