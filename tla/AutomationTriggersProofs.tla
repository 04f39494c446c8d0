---------------------- MODULE AutomationTriggersProofs ----------------------
(***************************************************************************)
(* Proofs about the triggers: their types, that a sweep leaves out nobody  *)
(* it concerns, and that no run is left to the next sweep without a reason *)
(* the code can give.                                                      *)
(***************************************************************************)
EXTENDS AutomationTriggers, FiniteSetTheorems, TLAPS

-----------------------------------------------------------------------------
(* The inductive invariant.                                                *)

\* A task writes under a key, in a stage that enqueues, looks at the targets of
\* its scan and knows as on only what is on.  A fire writes under its own event.
Writing ==
  \A i \in Works :
    LET t == task[i]
    IN /\ t.writes # {} => t.key \in Keys
       /\ t.stage \in {"idle", "push", "over"} => t.calls = {} /\ t.writes = {}
       /\ t.steady \subseteq enabled
       /\ t.stage \in IF i \in Sweeps THEN {"idle", "scheduled", "recurring", "push"}
                                      ELSE {"idle", "fire", "push", "over"}
       /\ t.stage = "scheduled" => t.targets \subseteq Scheduled
       /\ t.stage = "recurring" => t.targets \subseteq Recurring
       /\ i \notin Sweeps => /\ t.calls \subseteq {<<"event", i[2]>>}
                            /\ (t.writes # {} => t.key = <<"event", i[2]>>)

\* A drain took or will take rows there are, in a batch it may have.
Draining ==
  \A p \in Procs :
    /\ drain[p].cand \subseteq runs
    /\ drain[p].step \in {"select", "stamp"} => drain[p].batches < MaxBatches

KindInv == TypeOK /\ Writing /\ Draining

\* The run of a under key is there, or the task i is at it.
AtIt(i, a, key) ==
  \/ Opened(a, key)
  \/ key \in task[i].calls
  \/ a \in task[i].writes /\ task[i].key = key

\* A fire leaves out nobody it concerns.
FireAt(i, a) ==
  task[i].stage \in {"fire", "push"} /\ a \in task[i].steady =>
    AtIt(i, a, <<"event", i[2]>>)

\* Nor does the scan of the scheduled trigger, unless it failed.
ScheduledAt(i, a, d) ==
  LET t == task[i]
      key == <<"scheduled", d, Offset[a]>>
  IN a \in t.steady /\ Start[d] + Offset[a] = hojeEm(t.now) =>
       /\ t.stage = "scheduled" => a \in t.targets \/ AtIt(i, a, key)
       /\ t.stage \in {"recurring", "push"} /\ "scheduled" \notin t.failed => Opened(a, key)

\* Nor does the scan of the recurring trigger.
RecurringAt(i, a) ==
  LET t == task[i]
      key == <<"recurring", janelaDe(a, t.now)>>
  IN a \in t.steady =>
       /\ t.stage = "recurring" => a \in t.targets \/ AtIt(i, a, key)
       /\ t.stage = "push" /\ "recurring" \notin t.failed => Opened(a, key)

Complete(i) ==
  /\ i \notin Sweeps => \A a \in Wants[i[2]] : FireAt(i, a)
  /\ i \in Sweeps => \A a \in Scheduled, d \in Departures : ScheduledAt(i, a, d)
  /\ i \in Sweeps => \A a \in Recurring : RecurringAt(i, a)

SweepInv == KindInv /\ \A i \in Works : Complete(i)

\* The sweep i will push for what was due when it began, the fire i for its own.
WillPush(i, r) ==
  /\ task[i].stage \notin {"idle", "over"} /\ Pushes(i) /\ r.wake <= task[i].now
  /\ i \notin Sweeps => r.key = <<"event", i[2]>>

\* The drain of p takes r in this batch, in another one, or when it repeats.
WillTake(p, r) ==
  /\ r.wake <= drain[p].now
  /\ \/ drain[p].step = "select"
     \/ drain[p].step = "stamp" /\ (r \in drain[p].cand \/ Cardinality(drain[p].cand) = Limit)
     \/ drain[p].step = "check" /\ More(p)
     \/ drain[p].step # "rest" /\ drain[p].pendente

\* Somebody is at every run nobody took, or it was left for a reason.
Cared ==
  \A r \in runs \ taken : \/ r \in left
                          \/ \E i \in Works : WillPush(i, r)
                          \/ \E p \in Procs : WillTake(p, r)

CareInv == KindInv /\ Cared

-----------------------------------------------------------------------------
(* Types.                                                                  *)

\* What a key looks like, and whom it may concern.
LEMMA KeyKinds ==
  /\ \A o \in Occurrences : <<"event", o>> \in Keys
  /\ \A d \in Departures, a \in Scheduled : <<"scheduled", d, Offset[a]>> \in Keys
  /\ \A n \in 0 .. MaxTime : <<"recurring", n>> \in Keys
  /\ \A key \in Keys : \/ key[1] = "event" /\ key[2] \in Occurrences
                       \/ key[1] = "scheduled"
                       \/ key[1] = "recurring"
BY DEF Keys

LEMMA Concerned ==
  ASSUME NEW key \in Keys
  PROVE  interessadas(key) \subseteq enabled \cap Autos
BY KeyKinds, TriggersAssumption DEF interessadas, Autos

\* The part of the time and the day an instant is in.
LEMMA DayParts ==
  ASSUME NEW t \in 0 .. MaxTime
  PROVE  /\ \A a \in Recurring : janelaDe(a, t) \in 0 .. MaxTime
         /\ hojeEm(t) \in Nat
<1>1. t \in Nat /\ MaxTime \in Nat /\ DayLength \in Nat \ {0} /\ Period \in [Recurring -> Nat \ {0}]
  BY TriggersAssumption
<1>2. \A q \in Nat \ {0} : t \div q \in Nat /\ t \div q <= t BY <1>1
<1>3. \A a \in Recurring : Period[a] \in Nat \ {0} BY <1>1
<1> QED BY <1>1, <1>2, <1>3 DEF janelaDe, hojeEm

\* Replacing one task by another keeps the types.
LEMMA TaskReplaced ==
  ASSUME TypeOK, NEW i \in Works, NEW t \in Task, task' = [task EXCEPT ![i] = t]
  PROVE  /\ task' \in [Works -> Task] /\ task'[i] = t
         /\ \A k \in Works : k # i => task'[k] = task[k]
BY DEF TypeOK

LEMMA SmallTasks == Idle \in Task /\ Over \in Task /\ Rest \in Drain
<1>1. 0 \in 0 .. MaxTime /\ 0 \in 0 .. MaxBatches BY TriggersAssumption
<1>2. Idle \in Task BY <1>1 DEF Idle, Task, Stages
<1>3. Rest \in Drain BY <1>1 DEF Rest, Drain
<1>4. Over \in Task BY <1>2 DEF Over, Task, Stages
<1> QED BY <1>2, <1>3, <1>4

\* What every step of a task may rely on.
LEMMA TaskFields ==
  ASSUME TypeOK, NEW i \in Works
  PROVE  /\ task[i] \in Task /\ task[i].stage \in Stages /\ task[i].now \in 0 .. MaxTime
         /\ task[i].targets \subseteq Autos /\ task[i].calls \subseteq Keys
         /\ task[i].key \in Keys \cup {<<>>} /\ task[i].writes \subseteq Autos
         /\ task[i].opened \in BOOLEAN /\ task[i].steady \subseteq Autos
         /\ task[i].failed \subseteq Stages
BY DEF TypeOK, Task

\* The task a sweep or a fire begins with.
LEMMA Begun ==
  ASSUME TypeOK, NEW s \in Stages, NEW x \in SUBSET Autos, NEW c \in SUBSET Keys
  PROVE  [Idle EXCEPT !.stage = s, !.now = clock, !.targets = x, !.calls = c,
                      !.steady = enabled] \in Task
BY SmallTasks DEF TypeOK, Task, Idle

\* The task that goes on to the scan that follows.
LEMMA FollowingTask ==
  ASSUME NEW t \in Task, enabled \subseteq Autos
  PROVE  /\ Following(t) \in Task
         /\ Following(t).now = t.now /\ Following(t).steady = t.steady
         /\ Following(t).calls = {} /\ Following(t).writes = {} /\ Following(t).key = t.key
         /\ Following(t).opened = t.opened /\ Following(t).failed = t.failed
         /\ t.stage = "scheduled" => /\ Following(t).stage = "recurring"
                                     /\ Following(t).targets = Targets("recurring")
         /\ t.stage # "scheduled" => Following(t).stage = "push"
<1>1. CASE t.stage = "scheduled"
  <2>1. Following(t) = [t EXCEPT !.stage = "recurring", !.targets = Targets("recurring"),
                                 !.calls = {}, !.writes = {}]
    BY <1>1 DEF Following
  <2>2. Targets("recurring") \subseteq Autos BY DEF Targets
  <2> HIDE DEF Targets
  <2> QED BY <1>1, <2>1, <2>2 DEF Task, Stages
<1>2. CASE t.stage # "scheduled"
  <2>1. Following(t) = [t EXCEPT !.stage = "push", !.targets = {}, !.calls = {}, !.writes = {}]
    BY <1>2 DEF Following
  <2> QED BY <1>2, <2>1 DEF Task, Stages
<1> QED BY <1>1, <1>2

\* A step that moves one task and perhaps opens runs.
LEMMA TaskMoves ==
  ASSUME KindInv, NEW i \in Works, NEW t \in Task, task' = [task EXCEPT ![i] = t],
         UNCHANGED <<clock, enabled, taken, drain>>,
         runs \subseteq runs', runs' \subseteq Run,
         faults' \in 0 .. MaxFaults, left' \subseteq runs' \ taken',
         t.writes # {} => t.key \in Keys,
         t.stage \in {"idle", "push", "over"} => t.calls = {} /\ t.writes = {},
         t.steady \subseteq enabled,
         t.stage \in IF i \in Sweeps THEN {"idle", "scheduled", "recurring", "push"}
                                     ELSE {"idle", "fire", "push", "over"},
         t.stage = "scheduled" => t.targets \subseteq Scheduled,
         t.stage = "recurring" => t.targets \subseteq Recurring,
         i \notin Sweeps => /\ t.calls \subseteq {<<"event", i[2]>>}
                           /\ (t.writes # {} => t.key = <<"event", i[2]>>)
  PROVE  KindInv'
<1>1. /\ task' \in [Works -> Task] /\ task'[i] = t
      /\ \A k \in Works : k # i => task'[k] = task[k]
  BY TaskReplaced DEF KindInv
<1>2. TypeOK' BY <1>1 DEF KindInv, TypeOK
<1>3. Writing' BY <1>1 DEF KindInv, Writing
<1>4. Draining' BY DEF KindInv, Draining
<1> QED BY <1>2, <1>3, <1>4 DEF KindInv

\* A step of the drain of one process, which may take rows it holds.
LEMMA DrainMoves ==
  ASSUME KindInv, NEW p \in Procs, NEW d \in Drain, drain' = [drain EXCEPT ![p] = d],
         UNCHANGED <<clock, enabled, runs, task>>,
         taken' \subseteq runs, faults' \in 0 .. MaxFaults, left' \subseteq runs' \ taken',
         d.cand \subseteq runs,
         d.step \in {"select", "stamp"} => d.batches < MaxBatches
  PROVE  KindInv' /\ drain'[p] = d /\ \A q \in Procs : q # p => drain'[q] = drain[q]
<1>1. drain' \in [Procs -> Drain] /\ drain'[p] = d /\ \A q \in Procs : q # p => drain'[q] = drain[q]
  BY DEF KindInv, TypeOK
<1>2. TypeOK' BY <1>1 DEF KindInv, TypeOK
<1>3. Writing' BY DEF KindInv, Writing
<1>4. Draining' BY <1>1 DEF KindInv, Draining
<1> QED BY <1>1, <1>2, <1>3, <1>4 DEF KindInv

\* The drain a push leaves.
LEMMA PushedKind ==
  ASSUME KindInv, NEW p \in Procs, NEW now \in 0 .. MaxTime
  PROVE  /\ Pushed(p, now) \in Drain /\ Pushed(p, now).cand \subseteq runs
         /\ Pushed(p, now).step \in {"select", "stamp"} => Pushed(p, now).batches < MaxBatches
         /\ drain[p].step = "rest" =>
              Pushed(p, now).step = "select" /\ Pushed(p, now).now = now
         /\ drain[p].step # "rest" =>
              /\ Pushed(p, now).pendente /\ Pushed(p, now).step = drain[p].step
              /\ Pushed(p, now).now = drain[p].now /\ Pushed(p, now).cand = drain[p].cand
              /\ Pushed(p, now).full = drain[p].full /\ Pushed(p, now).batches = drain[p].batches
<1>1. drain[p] \in Drain BY DEF KindInv, TypeOK
<1>2. CASE drain[p].step = "rest"
  <2>1. Pushed(p, now) = [Rest EXCEPT !.step = "select", !.now = now] BY <1>2 DEF Pushed
  <2>2. 0 < MaxBatches /\ 0 \in 0 .. MaxBatches BY TriggersAssumption
  <2>3. Pushed(p, now) = [step |-> "select", pendente |-> FALSE, now |-> now, cand |-> {},
                          full |-> FALSE, batches |-> 0]
    BY <2>1 DEF Rest
  <2>4. Pushed(p, now) \in Drain BY <2>2, <2>3 DEF Drain
  <2> QED BY <1>2, <2>2, <2>3, <2>4
<1>3. CASE drain[p].step # "rest"
  <2>1. Pushed(p, now) = [drain[p] EXCEPT !.pendente = TRUE] BY <1>3 DEF Pushed
  <2> QED BY <1>1, <1>3, <2>1 DEF Drain, KindInv, Draining
<1> QED BY <1>2, <1>3

\* Steps of one task, which only Push lets go of the drain.
LEMMA PushKind ==
  ASSUME KindInv, NEW i \in Works, Push(i)
  PROVE  KindInv'
<1> DEFINE p == i[1]
           t == IF i \in Sweeps THEN Idle ELSE Over
           d == IF Pushes(i) THEN Pushed(p, task[i].now) ELSE drain[p]
<1>1. p \in Procs /\ task[i].now \in 0 .. MaxTime /\ drain[p] \in Drain
  BY TaskFields DEF Works, KindInv, TypeOK
<1>2. t \in Task BY SmallTasks
<1>3. d \in Drain /\ d.cand \subseteq runs /\ (d.step \in {"select", "stamp"} => d.batches < MaxBatches)
  BY <1>1, PushedKind DEF KindInv, Draining
<1>4. /\ task' = [task EXCEPT ![i] = t] /\ drain' = [drain EXCEPT ![p] = d]
      /\ UNCHANGED <<clock, enabled, runs, taken, faults>> /\ left' \subseteq runs' \ taken'
  BY DEF Push, KindInv, TypeOK, Due
<1>5. /\ t.calls = {} /\ t.writes = {} /\ t.steady = {}
      /\ t.stage = IF i \in Sweeps THEN "idle" ELSE "over"
  BY DEF Over, Idle
<1> HIDE DEF t, d, p
<1>6. /\ task' \in [Works -> Task] /\ task'[i] = t
      /\ \A k \in Works : k # i => task'[k] = task[k]
  BY <1>2, <1>4 DEF KindInv, TypeOK
<1>7. /\ drain' \in [Procs -> Drain] /\ drain'[p] = d
      /\ \A q \in Procs : q # p => drain'[q] = drain[q]
  BY <1>1, <1>3, <1>4 DEF KindInv, TypeOK
<1>8. TypeOK' BY <1>4, <1>6, <1>7 DEF KindInv, TypeOK
<1>9. Writing' BY <1>4, <1>5, <1>6 DEF KindInv, Writing
<1>10. Draining' BY <1>3, <1>4, <1>7 DEF KindInv, Draining
<1> QED BY <1>8, <1>9, <1>10 DEF KindInv

\* The steps of a task that enqueue.
LEMMA EnqueueKind ==
  ASSUME KindInv, NEW i \in Works
  PROVE  /\ \A key \in Keys : EnqueueLists(i, key) => KindInv'
         /\ \A a \in Autos : EnqueueWrites(i, a) => KindInv'
         /\ \A a \in Autos : ScheduledTurn(i, a) => KindInv'
         /\ \A a \in Autos : RecurringTurn(i, a) => KindInv'
<1>0. TypeOK BY DEF KindInv
<1>1. ASSUME NEW key \in Keys, EnqueueLists(i, key) PROVE KindInv'
  <2> DEFINE x == interessadas(key)
             t == [task[i] EXCEPT !.calls = @ \ {key}, !.key = key, !.writes = x]
  <2>1. x \subseteq Autos BY Concerned
  <2>2. /\ key \in task[i].calls /\ task' = [task EXCEPT ![i] = t]
        /\ UNCHANGED <<clock, enabled, runs, taken, drain, faults, left>>
    BY <1>1 DEF EnqueueLists
  <2> HIDE DEF x
  <2>3. /\ t \in Task /\ t.stage = task[i].stage /\ t.key = key /\ t.steady = task[i].steady
        /\ t.targets = task[i].targets /\ t.calls \subseteq task[i].calls
    BY <1>0, <2>1, TaskFields DEF Task
  <2>4. t.stage \notin {"idle", "push", "over"} BY <2>2, <2>3 DEF KindInv, Writing
  <2> HIDE DEF t
  <2> QED BY <2>2, <2>3, <2>4, TaskMoves DEF KindInv, Writing, TypeOK
<1>2. ASSUME NEW a \in Autos, EnqueueWrites(i, a) PROVE KindInv'
  <2> DEFINE new == [auto |-> a, key |-> task[i].key, wake |-> task[i].now]
             isNew == ~ \E r \in runs : r.auto = a /\ r.key = new.key
             t == [task[i] EXCEPT !.writes = @ \ {a}, !.opened = @ \/ isNew]
  <2>1. a \in task[i].writes /\ task[i].key \in Keys
    BY <1>2 DEF EnqueueWrites, KindInv, Writing
  <2>2. new \in Run BY <1>0, <2>1, TaskFields DEF Run
  <2>3. runs' = (IF isNew THEN runs \cup {new} ELSE runs) /\ task' = [task EXCEPT ![i] = t]
        /\ UNCHANGED <<clock, enabled, taken, drain, faults, left>>
    BY <1>2 DEF EnqueueWrites
  <2> HIDE DEF new, isNew
  <2>4. /\ t \in Task /\ t.stage = task[i].stage /\ t.key = task[i].key
        /\ t.steady = task[i].steady /\ t.targets = task[i].targets
        /\ t.calls = task[i].calls
    BY <1>0, TaskFields DEF Task
  <2>5. t.stage \notin {"idle", "push", "over"} BY <2>1, <2>4 DEF KindInv, Writing
  <2> HIDE DEF t
  <2>6. runs \subseteq runs' /\ runs' \subseteq Run BY <1>0, <2>2, <2>3 DEF TypeOK
  <2> QED BY <2>1, <2>3, <2>4, <2>5, <2>6, TaskMoves DEF KindInv, Writing, TypeOK
<1>3. ASSUME NEW a \in Autos, ScheduledTurn(i, a) PROVE KindInv'
  <2> DEFINE c == {<<"scheduled", d, Offset[a]>> : d \in
                     {x \in Departures : a \in enabled /\ Start[x] = hojeEm(task[i].now) - Offset[a]}}
             t == [task[i] EXCEPT !.targets = @ \ {a}, !.calls = c]
  <2>1. task[i].stage = "scheduled" /\ a \in task[i].targets /\ Free(i) BY <1>3 DEF ScheduledTurn
  <2>2. task' = [task EXCEPT ![i] = t] /\ UNCHANGED <<clock, enabled, runs, taken, drain, faults, left>>
    BY <1>3 DEF ScheduledTurn
  <2>3. i \in Sweeps BY <2>1 DEF KindInv, Writing
  <2>4. a \in Scheduled /\ c \subseteq Keys
    <3>1. a \in Scheduled BY <2>1 DEF KindInv, Writing
    <3> QED BY <3>1, KeyKinds
  <2> HIDE DEF c
  <2>5. /\ t \in Task /\ t.stage = "scheduled" /\ t.writes = {} /\ t.steady = task[i].steady
        /\ t.targets \subseteq task[i].targets
    BY <1>0, <2>1, <2>4, TaskFields DEF Task, Free
  <2> HIDE DEF t
  <2> QED BY <2>1, <2>2, <2>3, <2>5, TaskMoves DEF KindInv, Writing, TypeOK
<1>4. ASSUME NEW a \in Autos, RecurringTurn(i, a) PROVE KindInv'
  <2> DEFINE key == <<"recurring", janelaDe(a, task[i].now)>>
             x == interessadas(key)
             t == [task[i] EXCEPT !.targets = @ \ {a}, !.key = key, !.writes = x]
  <2>1. /\ task[i].stage = "recurring" /\ a \in task[i].targets
        /\ task' = [task EXCEPT ![i] = t]
        /\ UNCHANGED <<clock, enabled, runs, taken, drain, faults, left>>
    BY <1>4 DEF RecurringTurn
  <2>2. i \in Sweeps /\ a \in Recurring BY <2>1 DEF KindInv, Writing
  <2>3. key \in Keys BY <1>0, <2>2, KeyKinds, DayParts, TaskFields
  <2>4. x \subseteq Autos BY <2>3, Concerned
  <2> HIDE DEF x, key
  <2>5. /\ t \in Task /\ t.stage = "recurring" /\ t.key = key /\ t.steady = task[i].steady
        /\ t.targets \subseteq task[i].targets
    BY <1>0, <2>1, <2>3, <2>4, TaskFields DEF Task
  <2> HIDE DEF t
  <2> QED BY <2>1, <2>2, <2>3, <2>5, TaskMoves DEF KindInv, Writing, TypeOK
<1> QED BY <1>1, <1>2, <1>3, <1>4

\* The other steps of a task that move nothing but it.
LEMMA StageKind ==
  ASSUME KindInv, NEW i \in Works
  PROVE  /\ i \in Sweeps /\ SweepBegins(i) => KindInv'
         /\ Happens(i) => KindInv'
         /\ ScanEnds(i) => KindInv'
         /\ ScanFails(i) => KindInv'
         /\ FireEnds(i) => KindInv'
         /\ FireFails(i) => KindInv'
<1>0. TypeOK BY DEF KindInv
<1>1. ASSUME i \in Sweeps, SweepBegins(i) PROVE KindInv'
  <2> DEFINE x == Targets("scheduled")
             t == [Idle EXCEPT !.stage = "scheduled", !.now = clock, !.targets = x,
                               !.steady = enabled]
  <2>1. task' = [task EXCEPT ![i] = t] /\ UNCHANGED <<clock, enabled, runs, taken, drain, faults, left>>
    BY <1>1 DEF SweepBegins
  <2>2. x \subseteq Autos \cap Scheduled BY DEF Targets, Autos
  <2> HIDE DEF x
  <2>3. /\ t \in Task /\ t.stage = "scheduled" /\ t.writes = {} /\ t.steady = enabled
        /\ t.targets \subseteq Scheduled
    BY <1>0, <2>2, SmallTasks DEF Task, Idle, TypeOK, Stages
  <2> HIDE DEF t
  <2> QED BY <1>1, <2>1, <2>3, TaskMoves DEF KindInv, TypeOK
<1>2. ASSUME Happens(i) PROVE KindInv'
  <2> DEFINE c == {<<"event", i[2]>>}
             t == [Idle EXCEPT !.stage = "fire", !.now = clock, !.calls = c, !.steady = enabled]
  <2>1. /\ task' = [task EXCEPT ![i] = t] /\ i \notin Sweeps
        /\ UNCHANGED <<clock, enabled, runs, taken, drain, faults, left>>
    BY <1>2 DEF Happens
  <2>2. c \subseteq Keys BY <2>1, KeyKinds DEF Works, Sweeps
  <2> HIDE DEF c
  <2>3. /\ t \in Task /\ t.stage = "fire" /\ t.writes = {} /\ t.steady = enabled
        /\ t.calls = c
    BY <1>0, <2>2, SmallTasks DEF Task, Idle, TypeOK, Stages
  <2> HIDE DEF t
  <2> QED BY <2>1, <2>3, TaskMoves DEF KindInv, TypeOK, c
<1>3. ASSUME NEW u \in Task, task[i].stage \in {"scheduled", "recurring"},
             u.stage = task[i].stage, u.steady = task[i].steady,
             task' = [task EXCEPT ![i] = Following(u)],
             UNCHANGED <<clock, enabled, runs, taken, drain>>,
             faults' \in 0 .. MaxFaults, left' \subseteq runs' \ taken'
      PROVE  KindInv'
  <2> DEFINE t == Following(u)
  <2>1. i \in Sweeps BY <1>3 DEF KindInv, Writing
  <2>2. /\ t \in Task /\ t.writes = {} /\ t.calls = {} /\ t.steady = task[i].steady
        /\ u.stage = "scheduled" => t.stage = "recurring" /\ t.targets = Targets("recurring")
        /\ u.stage # "scheduled" => t.stage = "push"
    BY <1>0, <1>3, FollowingTask DEF TypeOK
  <2>3. Targets("recurring") \subseteq Recurring BY DEF Targets
  <2> HIDE DEF t
  <2>4. task' = [task EXCEPT ![i] = t] BY <1>3 DEF t
  <2>5. t.steady \subseteq enabled BY <2>2 DEF KindInv, Writing
  <2>6. t.stage \in {"recurring", "push"} /\ (t.stage = "recurring" => t.targets \subseteq Recurring)
    BY <1>3, <2>2, <2>3
  <2>7. runs \subseteq Run BY <1>0 DEF TypeOK
  <2> QED BY <1>3, <2>1, <2>2, <2>4, <2>5, <2>6, <2>7, TaskMoves
<1>4. ASSUME ScanEnds(i) PROVE KindInv'
  BY <1>0, <1>3, <1>4, TaskFields DEF ScanEnds, TypeOK
<1>5. ASSUME ScanFails(i) PROVE KindInv'
  <2> DEFINE u == [task[i] EXCEPT !.failed = @ \cup {task[i].stage}]
  <2>1. /\ task[i].stage \in {"scheduled", "recurring"}
        /\ task' = [task EXCEPT ![i] = Following(u)]
        /\ UNCHANGED <<clock, enabled, runs, taken, drain, left>>
    BY <1>5 DEF ScanFails
  <2>2. u \in Task /\ u.stage = task[i].stage /\ u.steady = task[i].steady
    BY <1>0, TaskFields DEF Task
  <2>3. faults' \in 0 .. MaxFaults BY <1>0, <1>5, TriggersAssumption DEF ScanFails, TypeOK
  <2> HIDE DEF u
  <2> QED BY <1>0, <1>3, <2>1, <2>2, <2>3 DEF TypeOK
<1>6. ASSUME FireEnds(i) PROVE KindInv'
  <2> DEFINE t == [task[i] EXCEPT !.stage = "push"]
  <2>1. /\ task' = [task EXCEPT ![i] = t] /\ task[i].stage = "fire" /\ Free(i)
        /\ UNCHANGED <<clock, enabled, runs, taken, drain, faults, left>>
    BY <1>6 DEF FireEnds
  <2>2. /\ t \in Task /\ t.stage = "push" /\ t.steady = task[i].steady
        /\ t.calls = {} /\ t.writes = {}
    BY <1>0, <2>1, TaskFields DEF Task, Stages, Free
  <2> HIDE DEF t
  <2> QED BY <2>1, <2>2, TaskMoves DEF KindInv, Writing, TypeOK
<1>7. ASSUME FireFails(i) PROVE KindInv'
  <2>1. /\ task' = [task EXCEPT ![i] = Over] /\ task[i].stage = "fire"
        /\ left' \subseteq runs' \ taken'
        /\ UNCHANGED <<clock, enabled, runs, taken, drain>>
    BY <1>0, <1>7 DEF FireFails, TypeOK
  <2>2. faults' \in 0 .. MaxFaults BY <1>0, <1>7, TriggersAssumption DEF FireFails, TypeOK
  <2>3. Over.stage = "over" /\ Over.writes = {} /\ Over.calls = {} /\ Over.steady = {}
    BY DEF Over, Idle
  <2>4. i \notin Sweeps BY <2>1 DEF KindInv, Writing
  <2> QED BY <2>1, <2>2, <2>3, <2>4, SmallTasks, TaskMoves DEF KindInv, TypeOK
<1> QED BY <1>1, <1>2, <1>4, <1>5, <1>6, <1>7

\* The steps of a drain.
LEMMA DrainKind ==
  ASSUME KindInv, NEW p \in Procs, Drains(p) \/ DrainFails(p)
  PROVE  KindInv'
<1>0. TypeOK /\ drain[p] \in Drain BY DEF KindInv, TypeOK
<1>1. CASE Selects(p)
  <2>1. PICK c \in SUBSET Due(drain[p].now) :
          drain' = [drain EXCEPT ![p].cand = c, ![p].step = "stamp"]
    BY <1>1 DEF Selects
  <2> DEFINE d == [drain[p] EXCEPT !.cand = c, !.step = "stamp"]
  <2>2. c \subseteq runs BY DEF Due
  <2>3. d \in Drain /\ d.cand = c /\ d.batches < MaxBatches
    BY <1>0, <1>1, <2>2 DEF Drain, Selects, TypeOK, KindInv, Draining
  <2>4. drain' = [drain EXCEPT ![p] = d] BY <2>1
  <2> HIDE DEF d
  <2> QED BY <1>0, <1>1, <2>2, <2>3, <2>4, DrainMoves DEF Selects, TypeOK
<1>2. CASE Stamps(p)
  <2> DEFINE won == drain[p].cand \ taken
             d == [drain[p] EXCEPT !.step = "check", !.cand = {}, !.batches = @ + 1,
                                   !.full = Cardinality(won) = Limit]
  <2>1. drain[p].batches < MaxBatches /\ won \subseteq runs /\ MaxBatches \in Nat
    BY <1>2, TriggersAssumption DEF Stamps, KindInv, Draining
  <2>2. drain' = [drain EXCEPT ![p] = d] /\ taken' = taken \cup won /\ left' \subseteq runs' \ taken'
        /\ UNCHANGED <<clock, enabled, runs, task, faults>>
    BY <1>0, <1>2, <2>1 DEF Stamps, TypeOK, Due
  <2>3. d \in Drain /\ d.cand = {} /\ d.step = "check"
    <3>1. drain[p].batches + 1 \in 0 .. MaxBatches BY <1>0, <2>1 DEF Drain
    <3> DEFINE n == drain[p].batches + 1
               f == Cardinality(won) = Limit
    <3>2. d = [drain[p] EXCEPT !.step = "check", !.cand = {}, !.batches = n, !.full = f]
      OBVIOUS
    <3>3. n \in 0 .. MaxBatches /\ f \in BOOLEAN BY <3>1
    <3> HIDE DEF n, f, d
    <3> QED BY <1>0, <3>2, <3>3 DEF Drain
  <2> HIDE DEF d, won
  <2> QED BY <1>0, <2>1, <2>2, <2>3, DrainMoves DEF TypeOK
<1>3. CASE NextBatch(p)
  <2> DEFINE d == [drain[p] EXCEPT !.step = "select"]
  <2>1. drain' = [drain EXCEPT ![p] = d] /\ drain[p].batches < MaxBatches
        /\ UNCHANGED <<clock, enabled, runs, taken, task, faults, left>>
    BY <1>3 DEF NextBatch, More
  <2>2. d \in Drain /\ d.cand \subseteq runs /\ d.batches < MaxBatches
    BY <1>0, <2>1 DEF Drain, KindInv, Draining
  <2> HIDE DEF d
  <2> QED BY <1>0, <2>1, <2>2, DrainMoves DEF TypeOK
<1>4. CASE Repeats(p)
  <2> DEFINE d == [Rest EXCEPT !.step = "select", !.now = drain[p].now]
  <2>1. drain' = [drain EXCEPT ![p] = d]
        /\ UNCHANGED <<clock, enabled, runs, taken, task, faults>> /\ left' \subseteq left
    BY <1>4 DEF Repeats
  <2>2. d \in Drain /\ d.cand = {} /\ d.batches < MaxBatches
    <3>1. drain[p].now \in 0 .. MaxTime /\ 0 < MaxBatches /\ 0 \in 0 .. MaxBatches
      BY <1>0, TriggersAssumption DEF Drain
    <3> QED BY <3>1 DEF Drain, Rest
  <2> HIDE DEF d
  <2> QED BY <1>0, <2>1, <2>2, DrainMoves DEF TypeOK
<1>5. ASSUME drain' = [drain EXCEPT ![p] = Rest], UNCHANGED <<clock, enabled, runs, taken, task>>,
             faults' \in 0 .. MaxFaults, left' \subseteq runs' \ taken'
      PROVE  KindInv'
  <2>1. Rest.cand = {} /\ Rest.step = "rest" BY DEF Rest
  <2> QED BY <1>0, <1>5, <2>1, SmallTasks, DrainMoves DEF TypeOK
<1>6. CASE Rests(p) BY <1>0, <1>5, <1>6 DEF Rests, TypeOK
<1>7. CASE DrainFails(p)
  BY <1>0, <1>5, <1>7, TriggersAssumption DEF DrainFails, TypeOK, Due
<1> QED BY <1>1, <1>2, <1>3, <1>4, <1>6, <1>7 DEF Drains

\* The desk switches an automation: no task counts on it any more.
LEMMA ToggleKind ==
  ASSUME KindInv, NEW a \in Autos, Toggle(a)
  PROVE  /\ KindInv'
         /\ \A i \in Works : task'[i] = [task[i] EXCEPT !.steady = @ \ {a}]
<1>0. TypeOK BY DEF KindInv
<1>1. \A i \in Works : task'[i] = [task[i] EXCEPT !.steady = @ \ {a}] BY DEF Toggle
<1>2. \A i \in Works :
        /\ task'[i] \in Task /\ task'[i].steady = task[i].steady \ {a}
        /\ task'[i].stage = task[i].stage /\ task'[i].writes = task[i].writes
        /\ task'[i].key = task[i].key /\ task'[i].calls = task[i].calls
        /\ task'[i].targets = task[i].targets
  <2>1. ASSUME NEW t \in Task, NEW u, u = [t EXCEPT !.steady = @ \ {a}]
        PROVE  /\ u \in Task /\ u.steady = t.steady \ {a}
               /\ u.stage = t.stage /\ u.writes = t.writes
               /\ u.key = t.key /\ u.calls = t.calls /\ u.targets = t.targets
    BY <2>1 DEF Task
  <2>2. \A i \in Works : task[i] \in Task BY <1>0 DEF TypeOK
  <2> QED BY <1>1, <2>1, <2>2
<1>3. task' \in [Works -> Task] BY <1>2 DEF Toggle
<1>4. enabled' = (enabled \ {a}) \cup ({a} \ enabled) /\ faults' \in 0 .. MaxFaults
      /\ UNCHANGED <<clock, runs, taken, drain, left>>
  BY <1>0, TriggersAssumption DEF Toggle, TypeOK
<1>5. TypeOK' BY <1>3, <1>4 DEF KindInv, TypeOK
<1>6. Writing' BY <1>2, <1>4 DEF KindInv, Writing
<1>7. Draining' BY <1>4 DEF KindInv, Draining
<1> QED BY <1>1, <1>5, <1>6, <1>7 DEF KindInv

\* A process starts again with nothing in memory.
LEMMA CrashKind ==
  ASSUME KindInv, NEW p \in Procs, Crash(p)
  PROVE  /\ KindInv'
         /\ \A i \in Works : task'[i] \in {task[i], Idle, Over}
         /\ \A i \in Sweeps : task'[i] \in {task[i], Idle}
<1>0. TypeOK BY DEF KindInv
<1>1. \A i \in Works :
        task'[i] = IF i[1] # p \/ task[i].stage = "idle" THEN task[i]
                   ELSE IF i \in Sweeps THEN Idle ELSE Over
  BY DEF Crash
<1>2. task' \in [Works -> Task] BY <1>1, <1>0, SmallTasks DEF Crash, TypeOK
<1>3. drain' = [drain EXCEPT ![p] = Rest] /\ faults' \in 0 .. MaxFaults /\ left' \subseteq runs' \ taken'
      /\ UNCHANGED <<clock, enabled, runs, taken>>
  BY <1>0, TriggersAssumption DEF Crash, TypeOK, Due
<1>4. TypeOK' BY <1>0, <1>2, <1>3, SmallTasks DEF TypeOK
<1>5. /\ Idle.stage = "idle" /\ Over.stage = "over"
      /\ Idle.writes = {} /\ Over.writes = {} /\ Idle.calls = {} /\ Over.calls = {}
      /\ Idle.steady = {} /\ Over.steady = {}
  BY DEF Idle, Over
<1>6. Writing' BY <1>1, <1>3, <1>5 DEF KindInv, Writing
<1>7. Rest.cand = {} /\ Rest.step = "rest" BY DEF Rest
<1>8. Draining' BY <1>0, <1>3, <1>7 DEF KindInv, Draining, TypeOK
<1>9. \A i \in Sweeps : i \in Works BY DEF Works, Sweeps
<1> QED BY <1>1, <1>4, <1>6, <1>8, <1>9 DEF KindInv

LEMMA KindInit == Init => KindInv
<1> SUFFICES ASSUME Init PROVE KindInv OBVIOUS
<1>1. TypeOK
  <2>1. 0 \in 0 .. MaxTime /\ 0 \in 0 .. MaxFaults BY TriggersAssumption
  <2>2. task \in [Works -> Task] /\ drain \in [Procs -> Drain] BY SmallTasks DEF Init
  <2> QED BY <2>1, <2>2 DEF Init, TypeOK
<1>2. Writing BY DEF Init, Idle, Writing
<1>3. Draining BY DEF Init, Rest, Draining
<1> QED BY <1>1, <1>2, <1>3 DEF KindInv

LEMMA KindStep ==
  ASSUME KindInv, [Next]_vars
  PROVE  KindInv'
<1>1. ASSUME Tick \/ UNCHANGED vars PROVE KindInv'
  <2>1. UNCHANGED <<enabled, runs, taken, task, drain, faults, left>> BY <1>1 DEF Tick, vars
  <2>2. clock' \in 0 .. MaxTime BY <1>1, TriggersAssumption DEF Tick, vars, KindInv, TypeOK
  <2> QED BY <2>1, <2>2 DEF KindInv, TypeOK, Writing, Draining
<1>2. ASSUME NEW i \in Works, Advances(i) \/ Happens(i) \/ ScanFails(i) \/ FireFails(i)
      PROVE  KindInv'
  BY <1>2, StageKind, EnqueueKind, PushKind DEF Advances
<1> QED BY <1>1, <1>2, ToggleKind, DrainKind, CrashKind DEF Next

\* Every task and every drain is in a state the code can be in: rows are opened
\* under a key there is, at an instant that came, and no pass of a drain has
\* more batches than LOTES_POR_PASSADA.
THEOREM TriggersTypes == Spec => []TypeOK
<1>1. KindInv /\ [Next]_vars => KindInv' BY KindStep
<1>2. KindInv => TypeOK BY DEF KindInv
<1> QED BY <1>1, <1>2, KindInit, PTL DEF Spec

-----------------------------------------------------------------------------
(* A sweep leaves out nobody.                                              *)

\* What is opened stays opened, and a task nobody moves misses no more.
LEMMA CompleteKept ==
  ASSUME NEW k \in Works, Complete(k), runs \subseteq runs',
         task'[k].stage = task[k].stage, task'[k].targets = task[k].targets,
         task'[k].calls = task[k].calls, task'[k].key = task[k].key,
         task'[k].writes = task[k].writes, task'[k].now = task[k].now,
         task'[k].failed = task[k].failed, task'[k].steady \subseteq task[k].steady
  PROVE  Complete(k)'
<1>1. ASSUME NEW a, FireAt(k, a) PROVE FireAt(k, a)'
  BY <1>1 DEF FireAt, AtIt, Opened
<1>2. ASSUME NEW a, NEW d, ScheduledAt(k, a, d) PROVE ScheduledAt(k, a, d)'
  BY <1>2 DEF ScheduledAt, AtIt, Opened, hojeEm
<1>3. ASSUME NEW a, RecurringAt(k, a) PROVE RecurringAt(k, a)'
  BY <1>3 DEF RecurringAt, AtIt, Opened, janelaDe
<1> QED BY <1>1, <1>2, <1>3 DEF Complete

\* A task that rests misses nothing.
LEMMA CompleteAtRest ==
  ASSUME NEW k \in Works, task'[k].stage \in {"idle", "over"}
  PROVE  Complete(k)'
BY DEF Complete, FireAt, ScheduledAt, RecurringAt

\* Who is to be written is, or was already.
LEMMA WritesOpens ==
  ASSUME KindInv, NEW i \in Works, NEW b, EnqueueWrites(i, b)
  PROVE  /\ Opened(b, task[i].key)' /\ runs \subseteq runs'
         /\ task'[i].writes = task[i].writes \ {b}
         /\ task'[i].stage = task[i].stage /\ task'[i].targets = task[i].targets
         /\ task'[i].calls = task[i].calls /\ task'[i].key = task[i].key
         /\ task'[i].now = task[i].now /\ task'[i].failed = task[i].failed
         /\ task'[i].steady = task[i].steady
         /\ \A k \in Works : k # i => task'[k] = task[k]
         /\ \/ runs' = runs
            \/ /\ task'[i].opened
               /\ runs' = runs \cup {[auto |-> b, key |-> task[i].key, wake |-> task[i].now]}
         /\ task[i].opened => task'[i].opened
<1> DEFINE new == [auto |-> b, key |-> task[i].key, wake |-> task[i].now]
           isNew == ~ \E r \in runs : r.auto = b /\ r.key = new.key
           t == [task[i] EXCEPT !.writes = @ \ {b}, !.opened = @ \/ isNew]
<1>1. /\ isNew => runs' = runs \cup {new}
      /\ ~ isNew => runs' = runs
      /\ task' = [task EXCEPT ![i] = t]
  BY DEF EnqueueWrites
<1>2. new.auto = b /\ new.key = task[i].key OBVIOUS
<1>3. Opened(b, task[i].key)'
  <2>1. CASE isNew
    <3>1. new \in runs' BY <1>1, <2>1
    <3>2. task'[i].key = task[i].key
      <4>1. task[i] \in Task /\ task'[i] = t BY <1>1 DEF KindInv, TypeOK
      <4> HIDE DEF isNew
      <4> QED BY <4>1 DEF Task
    <3> QED BY <1>2, <3>1, <3>2 DEF Opened
  <2>2. CASE ~ isNew BY <1>1, <1>2, <2>2 DEF Opened
  <2> QED BY <2>1, <2>2
<1> HIDE DEF new, isNew
<1>4. task[i] \in Task BY DEF KindInv, TypeOK
<1>5. /\ t.writes = task[i].writes \ {b} /\ t.stage = task[i].stage
      /\ t.targets = task[i].targets /\ t.calls = task[i].calls /\ t.key = task[i].key
      /\ t.now = task[i].now /\ t.failed = task[i].failed /\ t.steady = task[i].steady
      /\ t.opened = (task[i].opened \/ isNew)
  BY <1>4 DEF Task
<1> HIDE DEF t
<1>6. task'[i] = t /\ \A k \in Works : k # i => task'[k] = task[k]
  BY <1>1 DEF KindInv, TypeOK
<1>7. task[i].opened \in BOOLEAN BY <1>4 DEF Task
<1>8. runs' = runs \/ (t.opened /\ runs' = runs \cup {new}) BY <1>1, <1>5, <1>7
<1> QED BY <1>1, <1>3, <1>5, <1>6, <1>7, <1>8 DEF new

\* The task at a run is still at it, or opened it.
LEMMA WritesComplete ==
  ASSUME SweepInv, NEW i \in Works, NEW b, EnqueueWrites(i, b)
  PROVE  Complete(i)'
<1>0. KindInv BY DEF SweepInv
<1>1. /\ \E r \in runs' : r.auto = b /\ r.key = task[i].key
      /\ \A r \in runs : r \in runs'
      /\ task'[i].writes = task[i].writes \ {b}
      /\ task'[i].stage = task[i].stage /\ task'[i].targets = task[i].targets
      /\ task'[i].calls = task[i].calls /\ task'[i].key = task[i].key
      /\ task'[i].now = task[i].now /\ task'[i].failed = task[i].failed
      /\ task'[i].steady = task[i].steady
  BY <1>0, WritesOpens DEF Opened
<1>2. ASSUME NEW a, FireAt(i, a) PROVE FireAt(i, a)'
  BY <1>1, <1>2 DEF FireAt, AtIt, Opened
<1>3. ASSUME NEW a, NEW d, ScheduledAt(i, a, d) PROVE ScheduledAt(i, a, d)'
  BY <1>1, <1>3 DEF ScheduledAt, AtIt, Opened, hojeEm
<1>4. ASSUME NEW a, RecurringAt(i, a) PROVE RecurringAt(i, a)'
  BY <1>1, <1>4 DEF RecurringAt, AtIt, Opened, janelaDe
<1> QED BY <1>2, <1>3, <1>4 DEF SweepInv, Complete

\* Whoever a key of a task concerns is on the list.
LEMMA ListsComplete ==
  ASSUME SweepInv, NEW i \in Works, NEW key \in Keys, EnqueueLists(i, key)
  PROVE  Complete(i)'
<1>0. TypeOK /\ Writing /\ Complete(i) BY DEF SweepInv, KindInv
<1> DEFINE x == interessadas(key)
           t == [task[i] EXCEPT !.calls = @ \ {key}, !.key = key, !.writes = x]
<1>1. /\ key \in task[i].calls /\ task[i].writes = {}
      /\ task' = [task EXCEPT ![i] = t] /\ UNCHANGED <<runs, enabled>>
  BY DEF EnqueueLists
<1>2. /\ key[1] = "event" => enabled \cap Wants[key[2]] \subseteq x
      /\ key[1] = "scheduled" => enabled \cap Scheduled \subseteq x
      /\ key[1] = "recurring" => enabled \cap Recurring \subseteq x
  BY DEF interessadas
<1> HIDE DEF x
<1>3. /\ task'[i].writes = x /\ task'[i].key = key /\ task'[i].calls = task[i].calls \ {key}
      /\ task'[i].stage = task[i].stage /\ task'[i].targets = task[i].targets
      /\ task'[i].now = task[i].now /\ task'[i].failed = task[i].failed
      /\ task'[i].steady = task[i].steady
  <2>1. task[i] \in Task /\ task'[i] = t BY <1>0, <1>1 DEF TypeOK
  <2> QED BY <2>1 DEF Task
<1>4. task[i].steady \subseteq enabled BY <1>0 DEF Writing
<1>5. ASSUME NEW a \in Wants[i[2]], FireAt(i, a) PROVE FireAt(i, a)'
  <2>1. key = <<"event", i[2]>> => enabled \cap Wants[i[2]] \subseteq x BY <1>2
  <2> QED BY <1>1, <1>3, <1>4, <1>5, <2>1 DEF FireAt, AtIt, Opened
<1>6. ASSUME NEW a \in Scheduled, NEW d \in Departures, ScheduledAt(i, a, d)
      PROVE  ScheduledAt(i, a, d)'
  <2>1. key = <<"scheduled", d, Offset[a]>> => enabled \cap Scheduled \subseteq x BY <1>2
  <2> QED BY <1>1, <1>3, <1>4, <1>6, <2>1 DEF ScheduledAt, AtIt, Opened, hojeEm
<1>7. ASSUME NEW a \in Recurring, RecurringAt(i, a) PROVE RecurringAt(i, a)'
  <2>1. key = <<"recurring", janelaDe(a, task[i].now)>> => enabled \cap Recurring \subseteq x
    BY <1>2
  <2> QED BY <1>1, <1>3, <1>4, <1>7, <2>1 DEF RecurringAt, AtIt, Opened, janelaDe
<1> QED BY <1>0, <1>5, <1>6, <1>7 DEF Complete

\* The departures an automation waits for are called for.
LEMMA ScheduledTurnComplete ==
  ASSUME SweepInv, NEW i \in Works, NEW b \in Autos, ScheduledTurn(i, b)
  PROVE  Complete(i)'
<1>0. TypeOK /\ Writing /\ Complete(i) BY DEF SweepInv, KindInv
<1> DEFINE c == {<<"scheduled", d, Offset[b]>> : d \in
                   {x \in Departures : b \in enabled /\ Start[x] = hojeEm(task[i].now) - Offset[b]}}
           t == [task[i] EXCEPT !.targets = @ \ {b}, !.calls = c]
<1>1. /\ task[i].stage = "scheduled" /\ task[i].calls = {} /\ task[i].writes = {}
      /\ b \in task[i].targets /\ task' = [task EXCEPT ![i] = t] /\ UNCHANGED <<runs, enabled>>
  BY DEF ScheduledTurn, Free
<1>2. i \in Sweeps /\ b \in Scheduled BY <1>0, <1>1 DEF Writing
<1>3. \A d \in Departures : b \in enabled /\ Start[d] + Offset[b] = hojeEm(task[i].now) =>
        <<"scheduled", d, Offset[b]>> \in c
  <2>1. \A d \in Departures : Start[d] \in Int /\ Offset[b] \in Int
    BY <1>2, TriggersAssumption
  <2> QED BY <2>1
<1> HIDE DEF c
<1>4. /\ task'[i].writes = {} /\ task'[i].calls = c
      /\ task'[i].stage = "scheduled" /\ task'[i].targets = task[i].targets \ {b}
      /\ task'[i].now = task[i].now /\ task'[i].steady = task[i].steady
  <2>1. task[i] \in Task /\ task'[i] = t BY <1>0, <1>1 DEF TypeOK
  <2>2. /\ t.writes = task[i].writes /\ t.calls = c /\ t.stage = task[i].stage
        /\ t.targets = task[i].targets \ {b} /\ t.now = task[i].now
        /\ t.steady = task[i].steady
    BY <2>1 DEF Task
  <2> HIDE DEF t
  <2> QED BY <1>1, <2>1, <2>2
<1>5. task[i].steady \subseteq enabled BY <1>0 DEF Writing
<1>6. ASSUME NEW a \in Scheduled, NEW d \in Departures, ScheduledAt(i, a, d)
      PROVE  ScheduledAt(i, a, d)'
  <2>1. CASE a = b BY <1>3, <1>4, <1>5, <2>1 DEF ScheduledAt, AtIt, hojeEm
  <2>2. CASE a # b
    BY <1>1, <1>4, <1>6, <2>2 DEF ScheduledAt, AtIt, Opened, hojeEm
  <2> QED BY <2>1, <2>2
<1>7. \A a \in Recurring : RecurringAt(i, a)' BY <1>4 DEF RecurringAt
<1> QED BY <1>0, <1>2, <1>6, <1>7 DEF Complete

\* Who is on is written for its part of the time.
LEMMA RecurringTurnComplete ==
  ASSUME SweepInv, NEW i \in Works, NEW b \in Autos, RecurringTurn(i, b)
  PROVE  Complete(i)'
<1>0. TypeOK /\ Writing /\ Complete(i) BY DEF SweepInv, KindInv
<1> DEFINE key == <<"recurring", janelaDe(b, task[i].now)>>
           x == interessadas(key)
           t == [task[i] EXCEPT !.targets = @ \ {b}, !.key = key, !.writes = x]
<1>1. /\ task[i].stage = "recurring" /\ task[i].calls = {} /\ task[i].writes = {}
      /\ b \in task[i].targets /\ task' = [task EXCEPT ![i] = t] /\ UNCHANGED <<runs, enabled>>
  BY DEF RecurringTurn, Free
<1>2. i \in Sweeps /\ b \in Recurring BY <1>0, <1>1 DEF Writing
<1>3. x = enabled \cap Recurring BY DEF interessadas
<1> HIDE DEF x, key
<1>4. /\ task'[i].writes = x /\ task'[i].key = key /\ task'[i].calls = {}
      /\ task'[i].stage = "recurring" /\ task'[i].targets = task[i].targets \ {b}
      /\ task'[i].now = task[i].now /\ task'[i].steady = task[i].steady
      /\ task'[i].failed = task[i].failed
  <2>1. task[i] \in Task /\ task'[i] = t BY <1>0, <1>1 DEF TypeOK
  <2>2. /\ t.writes = x /\ t.key = key /\ t.calls = task[i].calls
        /\ t.stage = task[i].stage /\ t.targets = task[i].targets \ {b}
        /\ t.now = task[i].now /\ t.steady = task[i].steady /\ t.failed = task[i].failed
    BY <2>1 DEF Task
  <2> HIDE DEF t
  <2> QED BY <1>1, <2>1, <2>2
<1>5. task[i].steady \subseteq enabled BY <1>0 DEF Writing
<1>6. ASSUME NEW a \in Recurring, RecurringAt(i, a) PROVE RecurringAt(i, a)'
  <2>1. CASE a = b BY <1>3, <1>4, <1>5, <2>1 DEF RecurringAt, AtIt, janelaDe, key
  <2>2. CASE a # b
    BY <1>1, <1>4, <1>6, <2>2 DEF RecurringAt, AtIt, Opened, janelaDe
  <2> QED BY <2>1, <2>2
<1>7. ASSUME NEW a \in Scheduled, NEW d \in Departures, ScheduledAt(i, a, d)
      PROVE  ScheduledAt(i, a, d)'
  BY <1>1, <1>4, <1>7 DEF ScheduledAt, Opened, hojeEm
<1> QED BY <1>0, <1>2, <1>6, <1>7 DEF Complete

\* A sweep looks at every automation its scan is about.
LEMMA BeginsComplete ==
  ASSUME SweepInv, NEW i \in Works, (i \in Sweeps /\ SweepBegins(i)) \/ Happens(i)
  PROVE  Complete(i)'
<1>0. TypeOK BY DEF SweepInv, KindInv
<1>1. CASE i \in Sweeps /\ SweepBegins(i)
  <2> DEFINE t == [Idle EXCEPT !.stage = "scheduled", !.now = clock,
                               !.targets = Targets("scheduled"), !.steady = enabled]
  <2>1. task'[i] = t BY <1>0, <1>1 DEF SweepBegins, TypeOK
  <2>2. /\ t.stage = "scheduled" /\ t.steady = enabled
        /\ t.targets = enabled \cap Scheduled
    BY DEF Idle, Targets
  <2> HIDE DEF t
  <2> QED BY <1>1, <2>1, <2>2 DEF Complete, ScheduledAt, RecurringAt
<1>2. CASE Happens(i)
  <2> DEFINE t == [Idle EXCEPT !.stage = "fire", !.now = clock,
                               !.calls = {<<"event", i[2]>>}, !.steady = enabled]
  <2>1. task'[i] = t /\ i \notin Sweeps BY <1>0, <1>2 DEF Happens, TypeOK
  <2>2. t.calls = {<<"event", i[2]>>} BY DEF Idle
  <2> HIDE DEF t
  <2> QED BY <2>1, <2>2 DEF Complete, FireAt, AtIt
<1> QED BY <1>1, <1>2

\* A scan that ended left nobody out; one that failed takes nobody of the other.
LEMMA EndsComplete ==
  ASSUME SweepInv, NEW i \in Works, NEW u \in Task,
         task[i].stage \in {"scheduled", "recurring"},
         u.stage = task[i].stage, u.steady = task[i].steady, u.now = task[i].now,
         \/ task[i].targets = {} /\ Free(i) /\ u.failed = task[i].failed
         \/ u.failed = task[i].failed \cup {task[i].stage},
         task' = [task EXCEPT ![i] = Following(u)], UNCHANGED <<runs, enabled>>
  PROVE  Complete(i)'
<1>0. TypeOK /\ Writing /\ Complete(i) BY DEF SweepInv, KindInv
<1>1. task'[i] = Following(u) BY <1>0 DEF TypeOK
<1>2. /\ task'[i].steady = task[i].steady /\ task'[i].now = task[i].now
      /\ task'[i].failed = u.failed
      /\ task[i].stage = "scheduled" => /\ task'[i].stage = "recurring"
                                        /\ task'[i].targets = enabled \cap Recurring
      /\ task[i].stage = "recurring" => task'[i].stage = "push"
  BY <1>0, <1>1, FollowingTask DEF TypeOK, Targets
<1>3. i \in Sweeps /\ task[i].steady \subseteq enabled BY <1>0 DEF Writing
<1>4. ASSUME NEW a \in Scheduled, NEW d \in Departures, ScheduledAt(i, a, d)
      PROVE  ScheduledAt(i, a, d)'
  BY <1>2, <1>4 DEF ScheduledAt, AtIt, Opened, Free, hojeEm
<1>5. ASSUME NEW a \in Recurring, RecurringAt(i, a) PROVE RecurringAt(i, a)'
  BY <1>2, <1>3, <1>5 DEF RecurringAt, AtIt, Opened, Free, janelaDe
<1> QED BY <1>0, <1>3, <1>4, <1>5 DEF Complete

\* A step of the task i keeps what it owes.
LEMMA AdvanceComplete ==
  ASSUME SweepInv, NEW i \in Works, Advances(i) \/ Happens(i) \/ ScanFails(i) \/ FireFails(i)
  PROVE  /\ Complete(i)' /\ runs \subseteq runs'
         /\ \A k \in Works : k # i => task'[k] = task[k]
<1>0. TypeOK /\ KindInv /\ Complete(i) BY DEF SweepInv, KindInv
<1>1. ASSUME NEW t, task' = [task EXCEPT ![i] = t], runs' = runs
      PROVE  /\ task'[i] = t /\ runs \subseteq runs'
             /\ \A k \in Works : k # i => task'[k] = task[k]
  BY <1>0, <1>1 DEF TypeOK
<1>2. ASSUME NEW b \in Autos, EnqueueWrites(i, b)
      PROVE  /\ Complete(i)' /\ runs \subseteq runs'
             /\ \A k \in Works : k # i => task'[k] = task[k]
  BY <1>0, <1>2, WritesComplete, WritesOpens
<1>3. ASSUME NEW key \in Keys, EnqueueLists(i, key)
      PROVE  /\ Complete(i)' /\ runs \subseteq runs'
             /\ \A k \in Works : k # i => task'[k] = task[k]
  BY <1>1, <1>3, ListsComplete DEF EnqueueLists
<1>4. ASSUME NEW b \in Autos, ScheduledTurn(i, b) \/ RecurringTurn(i, b)
      PROVE  /\ Complete(i)' /\ runs \subseteq runs'
             /\ \A k \in Works : k # i => task'[k] = task[k]
  BY <1>1, <1>4, ScheduledTurnComplete, RecurringTurnComplete DEF ScheduledTurn, RecurringTurn
<1>5. ASSUME (i \in Sweeps /\ SweepBegins(i)) \/ Happens(i)
      PROVE  /\ Complete(i)' /\ runs \subseteq runs'
             /\ \A k \in Works : k # i => task'[k] = task[k]
  BY <1>1, <1>5, BeginsComplete DEF SweepBegins, Happens
<1>6. ASSUME ScanEnds(i)
      PROVE  /\ Complete(i)' /\ runs \subseteq runs'
             /\ \A k \in Works : k # i => task'[k] = task[k]
  <2>1. task[i] \in Task BY <1>0 DEF TypeOK
  <2> QED BY <1>1, <1>6, <2>1, EndsComplete DEF ScanEnds
<1>7. ASSUME ScanFails(i)
      PROVE  /\ Complete(i)' /\ runs \subseteq runs'
             /\ \A k \in Works : k # i => task'[k] = task[k]
  <2> DEFINE u == [task[i] EXCEPT !.failed = @ \cup {task[i].stage}]
  <2>1. /\ task[i].stage \in {"scheduled", "recurring"} /\ task' = [task EXCEPT ![i] = Following(u)]
        /\ UNCHANGED <<enabled, runs>>
    BY <1>7 DEF ScanFails
  <2>2. /\ u \in Task /\ u.stage = task[i].stage /\ u.steady = task[i].steady
        /\ u.now = task[i].now /\ u.failed = task[i].failed \cup {task[i].stage}
    BY <1>0, TaskFields DEF Task
  <2> HIDE DEF u
  <2> QED BY <1>1, <2>1, <2>2, EndsComplete
<1>8. ASSUME FireEnds(i)
      PROVE  /\ Complete(i)' /\ runs \subseteq runs'
             /\ \A k \in Works : k # i => task'[k] = task[k]
  <2> DEFINE t == [task[i] EXCEPT !.stage = "push"]
  <2>1. task' = [task EXCEPT ![i] = t] /\ runs' = runs /\ task[i].stage = "fire"
    BY <1>8 DEF FireEnds
  <2>2. /\ t.calls = task[i].calls /\ t.writes = task[i].writes /\ t.key = task[i].key
        /\ t.steady = task[i].steady
    BY <1>0, TaskFields DEF Task
  <2> HIDE DEF t
  <2>3. i \notin Sweeps BY <1>0, <2>1 DEF KindInv, Writing
  <2>4. ASSUME NEW a, FireAt(i, a) PROVE FireAt(i, a)'
    BY <1>1, <2>1, <2>2, <2>4 DEF FireAt, AtIt, Opened
  <2> QED BY <1>0, <1>1, <2>1, <2>3, <2>4 DEF Complete
<1>9. ASSUME FireFails(i) \/ Push(i)
      PROVE  /\ Complete(i)' /\ runs \subseteq runs'
             /\ \A k \in Works : k # i => task'[k] = task[k]
  <2>1. \E t \in {Idle, Over} : task' = [task EXCEPT ![i] = t] /\ runs' = runs
    BY <1>9 DEF FireFails, Push
  <2>2. \A t \in {Idle, Over} : t.stage \in {"idle", "over"} BY DEF Idle, Over
  <2> QED BY <1>1, <2>1, <2>2, CompleteAtRest
<1> QED BY <1>2, <1>3, <1>4, <1>5, <1>6, <1>7, <1>8, <1>9 DEF Advances

LEMMA SweepStep ==
  ASSUME SweepInv, [Next]_vars
  PROVE  SweepInv'
<1>0. KindInv' /\ TypeOK BY KindStep DEF SweepInv, KindInv
<1>1. ASSUME NEW i \in Works, Advances(i) \/ Happens(i) \/ ScanFails(i) \/ FireFails(i)
      PROVE  \A k \in Works : Complete(k)'
  <2> TAKE k \in Works
  <2>1. CASE k = i BY <1>1, <2>1, AdvanceComplete
  <2>2. CASE k # i
    <3>1. task'[k] = task[k] /\ runs \subseteq runs' BY <1>1, <2>2, AdvanceComplete
    <3> QED BY <3>1, CompleteKept DEF SweepInv
  <2> QED BY <2>1, <2>2
<1>2. ASSUME UNCHANGED <<task, runs>> PROVE \A k \in Works : Complete(k)'
  BY <1>2, CompleteKept DEF SweepInv
<1>3. ASSUME NEW a \in Autos, Toggle(a) PROVE \A k \in Works : Complete(k)'
  <2> TAKE k \in Works
  <2>1. task'[k] = [task[k] EXCEPT !.steady = @ \ {a}] /\ runs' = runs
    BY <1>3, ToggleKind DEF SweepInv, Toggle
  <2>2. task[k] \in Task BY <1>0 DEF TypeOK
  <2>3. /\ task'[k].steady \subseteq task[k].steady
        /\ task'[k].stage = task[k].stage /\ task'[k].targets = task[k].targets
        /\ task'[k].calls = task[k].calls /\ task'[k].key = task[k].key
        /\ task'[k].writes = task[k].writes /\ task'[k].now = task[k].now
        /\ task'[k].failed = task[k].failed
    BY <2>1, <2>2 DEF Task
  <2> QED BY <2>1, <2>3, CompleteKept DEF SweepInv
<1>4. ASSUME NEW p \in Procs, Crash(p) PROVE \A k \in Works : Complete(k)'
  <2> TAKE k \in Works
  <2>1. task'[k] \in {task[k], Idle, Over} /\ runs' = runs
    BY <1>4, CrashKind DEF SweepInv, Crash
  <2>2. Idle.stage = "idle" /\ Over.stage = "over" BY DEF Idle, Over
  <2>3. CASE task'[k] = task[k] BY <2>1, <2>3, CompleteKept DEF SweepInv
  <2>4. CASE task'[k] # task[k] BY <2>1, <2>2, <2>4, CompleteAtRest
  <2> QED BY <2>3, <2>4
<1>5. ASSUME NEW p \in Procs, Drains(p) \/ DrainFails(p) PROVE \A k \in Works : Complete(k)'
  BY <1>2, <1>5 DEF Drains, Selects, Stamps, NextBatch, Repeats, Rests, DrainFails
<1> QED BY <1>0, <1>1, <1>2, <1>3, <1>4, <1>5 DEF SweepInv, Next, Tick, vars

\* When a sweep comes to its push, every automation that was on all along has
\* its run, unless its own scan failed; a fire that did not fail left out nobody.
THEOREM SweepsMissNothing == Spec => []SweepMissesNothing
<1>1. Init => SweepInv
  <2> SUFFICES ASSUME Init PROVE SweepInv OBVIOUS
  <2>1. \A i \in Works : task[i].stage = "idle" BY DEF Init, Idle
  <2>2. \A i \in Works : Complete(i)
    BY <2>1 DEF Complete, FireAt, ScheduledAt, RecurringAt
  <2> QED BY <2>2, KindInit DEF SweepInv
<1>2. SweepInv /\ [Next]_vars => SweepInv' BY SweepStep
<1>3. SweepInv => SweepMissesNothing
  <2> SUFFICES ASSUME SweepInv, NEW i \in Works, task[i].stage = "push"
               PROVE  /\ i \notin Sweeps =>
                           \A a \in task[i].steady \cap Wants[i[2]] : Opened(a, <<"event", i[2]>>)
                      /\ i \in Sweeps /\ "recurring" \notin task[i].failed =>
                           \A a \in task[i].steady \cap Recurring :
                             Opened(a, <<"recurring", janelaDe(a, task[i].now)>>)
                      /\ i \in Sweeps /\ "scheduled" \notin task[i].failed =>
                           \A a \in task[i].steady \cap Scheduled, d \in Departures :
                             Start[d] + Offset[a] = hojeEm(task[i].now) =>
                               Opened(a, <<"scheduled", d, Offset[a]>>)
    BY DEF SweepMissesNothing
  <2>1. Complete(i) /\ task[i].calls = {} /\ task[i].writes = {}
    BY DEF SweepInv, KindInv, Writing
  <2>2. \A a, key : AtIt(i, a, key) => Opened(a, key) BY <2>1 DEF AtIt
  <2> QED BY <2>1, <2>2 DEF Complete, FireAt, ScheduledAt, RecurringAt
<1> QED BY <1>1, <1>2, <1>3, PTL DEF Spec

-----------------------------------------------------------------------------
(* No run is left to the next sweep without a reason.                      *)

\* A task under way that goes on pushes as it would.
LEMMA TaskGoesOn ==
  ASSUME KindInv, NEW i \in Works,
         (Advances(i) /\ ~Push(i)) \/ Happens(i) \/ ScanFails(i)
  PROVE  /\ task[i].stage \notin {"idle", "over"} =>
              /\ task'[i].stage \notin {"idle", "over"} /\ task'[i].now = task[i].now
              /\ task[i].opened => task'[i].opened
         /\ \A k \in Works : k # i => task'[k] = task[k]
         /\ UNCHANGED <<taken, drain, left>> /\ runs \subseteq runs'
         /\ \A r \in runs' \ runs :
              /\ task'[i].stage \notin {"idle", "over"} /\ task'[i].opened
              /\ r.wake = task'[i].now /\ (i \notin Sweeps => r.key = <<"event", i[2]>>)
<1> DEFINE Good == /\ task[i].stage \notin {"idle", "over"} =>
                        /\ task'[i].stage \notin {"idle", "over"} /\ task'[i].now = task[i].now
                        /\ task[i].opened => task'[i].opened
                   /\ \A k \in Works : k # i => task'[k] = task[k]
                   /\ UNCHANGED <<taken, drain, left>> /\ runs \subseteq runs'
                   /\ \A r \in runs' \ runs :
                        /\ task'[i].stage \notin {"idle", "over"} /\ task'[i].opened
                        /\ r.wake = task'[i].now /\ (i \notin Sweeps => r.key = <<"event", i[2]>>)
<1>0. task \in [Works -> Task] /\ task[i] \in Task BY DEF KindInv, TypeOK
<1>1. ASSUME (i \in Sweeps /\ SweepBegins(i)) \/ Happens(i) PROVE Good
  <2>1. \A p \in Procs : i = <<p, i[2]>> => task[i].stage = "idle"
    BY <1>1 DEF SweepBegins, Happens
  <2>2. task[i].stage = "idle" BY <1>1, <2>1 DEF SweepBegins, Happens, Works
  <2>3. /\ runs' = runs /\ UNCHANGED <<taken, drain, left>>
        /\ \E t : task' = [task EXCEPT ![i] = t]
    BY <1>1 DEF SweepBegins, Happens
  <2> QED BY <1>0, <2>2, <2>3
<1>2. ASSUME NEW key \in Keys, EnqueueLists(i, key) PROVE Good
  <2>1. /\ task' = [task EXCEPT ![i].calls = @ \ {key}, ![i].key = key,
                                ![i].writes = interessadas(key)]
        /\ UNCHANGED <<runs, taken, drain, left>>
    BY <1>2 DEF EnqueueLists
  <2> QED BY <1>0, <2>1 DEF Task
<1>3. ASSUME NEW a \in Autos, ScheduledTurn(i, a) PROVE Good
  <2>1. /\ \E c : task' = [task EXCEPT ![i].targets = @ \ {a}, ![i].calls = c]
        /\ UNCHANGED <<runs, taken, drain, left>>
    BY <1>3 DEF ScheduledTurn
  <2> QED BY <1>0, <2>1 DEF Task
<1>4. ASSUME NEW a \in Autos, RecurringTurn(i, a) PROVE Good
  <2>1. /\ \E key, x : task' = [task EXCEPT ![i].targets = @ \ {a}, ![i].key = key,
                                            ![i].writes = x]
        /\ UNCHANGED <<runs, taken, drain, left>>
    BY <1>4 DEF RecurringTurn
  <2> QED BY <1>0, <2>1 DEF Task
<1>5. ASSUME NEW a \in Autos, EnqueueWrites(i, a) PROVE Good
  <2>1. /\ task'[i].stage = task[i].stage /\ task'[i].now = task[i].now
        /\ task[i].opened => task'[i].opened
        /\ \A k \in Works : k # i => task'[k] = task[k]
    BY <1>5, WritesOpens
  <2>2. UNCHANGED <<taken, drain, left>> /\ a \in task[i].writes
    BY <1>5 DEF EnqueueWrites
  <2>3. task[i].stage \notin {"idle", "over"} BY <2>2 DEF KindInv, Writing
  <2>4. \A r \in runs' \ runs : task'[i].opened /\ r.wake = task[i].now /\ r.key = task[i].key
    <3> DEFINE new == [auto |-> a, key |-> task[i].key, wake |-> task[i].now]
    <3>1. new.wake = task[i].now /\ new.key = task[i].key OBVIOUS
    <3>2. \/ runs' = runs
          \/ task'[i].opened /\ runs' = runs \cup {new}
      BY <1>5, WritesOpens
    <3> HIDE DEF new
    <3> QED BY <3>1, <3>2
  <2>5. runs \subseteq runs' BY <1>5, WritesOpens
  <2>6. i \notin Sweeps => task[i].key = <<"event", i[2]>> BY <2>2 DEF KindInv, Writing
  <2> QED BY <2>1, <2>2, <2>3, <2>4, <2>5, <2>6
<1>6. ASSUME NEW u \in Task, u.now = task[i].now, u.opened = task[i].opened,
             task' = [task EXCEPT ![i] = Following(u)],
             UNCHANGED <<runs, taken, drain, left>>
      PROVE  Good
  <2>1. task'[i] = Following(u) /\ \A k \in Works : k # i => task'[k] = task[k]
    BY <1>0, <1>6
  <2>2. /\ Following(u).now = task[i].now /\ Following(u).opened = task[i].opened
        /\ Following(u).stage \in {"recurring", "push"}
    BY <1>6, FollowingTask DEF KindInv, TypeOK
  <2> QED BY <1>6, <2>1, <2>2
<1>7. ASSUME ScanEnds(i) PROVE Good BY <1>0, <1>6, <1>7 DEF ScanEnds
<1>8. ASSUME ScanFails(i) PROVE Good
  <2> DEFINE u == [task[i] EXCEPT !.failed = @ \cup {task[i].stage}]
  <2>1. /\ task' = [task EXCEPT ![i] = Following(u)]
        /\ UNCHANGED <<runs, taken, drain, left>>
    BY <1>8 DEF ScanFails
  <2>2. u \in Task /\ u.now = task[i].now /\ u.opened = task[i].opened
    BY TaskFields DEF Task, KindInv
  <2> HIDE DEF u
  <2> QED BY <1>6, <2>1, <2>2
<1>9. ASSUME FireEnds(i) PROVE Good
  <2>1. /\ task' = [task EXCEPT ![i].stage = "push"]
        /\ UNCHANGED <<runs, taken, drain, left>>
    BY <1>9 DEF FireEnds
  <2> QED BY <1>0, <2>1 DEF Task
<1> QED BY <1>1, <1>2, <1>3, <1>4, <1>5, <1>7, <1>8, <1>9 DEF Advances

\* A drain goes on as it was, but for the mark.
LEMMA DrainStays ==
  ASSUME NEW p \in Procs, NEW r, WillTake(p, r),
         drain'[p].step = drain[p].step, drain'[p].now = drain[p].now,
         drain'[p].cand = drain[p].cand, drain'[p].full = drain[p].full,
         drain'[p].batches = drain[p].batches, drain[p].pendente => drain'[p].pendente
  PROVE  WillTake(p, r)'
BY DEF WillTake, More

\* A push serves what is due at the instant of its drain and leaves the newer.
LEMMA PushCares ==
  ASSUME CareInv, NEW i \in Works, Push(i)
  PROVE  Cared'
<1> DEFINE p == i[1]
           now == task[i].now
<1>0. p \in Procs /\ now \in 0 .. MaxTime /\ KindInv /\ drain[p].now \in 0 .. MaxTime
  BY TaskFields DEF Works, CareInv, KindInv, TypeOK, Drain
<1>1. /\ UNCHANGED <<runs, taken>>
      /\ left' = IF Pushes(i) THEN (left \cup Due(now)) \ Due(Instant(p, now)) ELSE left
      /\ \A k \in Works : k # i => task'[k] = task[k]
      /\ \A q \in Procs : q # p => drain'[q] = drain[q]
      /\ ~ Pushes(i) => drain'[p] = drain[p]
      /\ Pushes(i) => drain'[p] = Pushed(p, now)
  BY <1>0 DEF Push, KindInv, TypeOK
<1>2. ASSUME NEW r \in runs \ taken, Pushes(i), r.wake <= Instant(p, now)
      PROVE  WillTake(p, r)'
  <2>1. CASE drain[p].step = "rest"
    <3>1. drain'[p].step = "select" /\ drain'[p].now = now BY <1>0, <1>1, <1>2, <2>1, PushedKind
    <3> QED BY <1>2, <2>1, <3>1 DEF Instant, WillTake
  <2>2. CASE drain[p].step # "rest"
    <3>1. /\ drain'[p].step = drain[p].step /\ drain'[p].now = drain[p].now
          /\ drain'[p].pendente
      BY <1>0, <1>1, <1>2, <2>2, PushedKind
    <3> QED BY <1>2, <2>2, <3>1 DEF Instant, WillTake
  <2> QED BY <2>1, <2>2
<1> HIDE DEF now
<1>3. ASSUME NEW r \in runs \ taken, r \in left \/ WillPush(i, r)
      PROVE  r \in left' \/ WillTake(p, r)'
  <2>1. CASE ~ Pushes(i) BY <1>1, <1>3, <2>1 DEF WillPush
  <2>2. CASE Pushes(i) /\ r.wake <= Instant(p, now) BY <1>2, <2>2
  <2>3. CASE Pushes(i) /\ ~ r.wake <= Instant(p, now)
    BY <1>1, <1>3, <2>3 DEF WillPush, Due, now
  <2> QED BY <2>1, <2>2, <2>3
<1>4. ASSUME NEW r, NEW k \in Works, k # i, WillPush(k, r) PROVE WillPush(k, r)'
  BY <1>1, <1>4 DEF WillPush, Pushes
<1>5. ASSUME NEW r, NEW q \in Procs, WillTake(q, r) PROVE WillTake(q, r)'
  <2>1. CASE drain'[q] = drain[q] BY <1>5, <2>1, DrainStays
  <2>2. CASE drain'[q] # drain[q]
    <3>1. q = p /\ Pushes(i) /\ drain[p].step # "rest" /\ drain'[p] = Pushed(p, now)
      BY <1>1, <1>5, <2>2 DEF WillTake
    <3>2. /\ drain'[p].step = drain[p].step /\ drain'[p].now = drain[p].now
          /\ drain'[p].pendente
      BY <1>0, <3>1, PushedKind
    <3> QED BY <1>5, <3>1, <3>2 DEF WillTake
  <2> QED BY <2>1, <2>2
<1> HIDE DEF p
<1> QED BY <1>0, <1>1, <1>3, <1>4, <1>5 DEF CareInv, Cared

\* A pass takes what is due, in as many batches as it needs, or is cut.
LEMMA DrainTakes ==
  ASSUME CareInv, NEW p \in Procs, Drains(p), NEW r \in runs \ taken', WillTake(p, r)
  PROVE  r \in left' \/ WillTake(p, r)'
<1>0. /\ drain \in [Procs -> Drain] /\ drain[p] \in Drain /\ r \in runs
      /\ drain[p].now \in 0 .. MaxTime /\ MaxBatches \in Nat /\ drain[p].batches \in Nat
  BY TriggersAssumption DEF CareInv, KindInv, TypeOK, Drain
<1>1. CASE Selects(p)
  <2>1. PICK c \in SUBSET Due(drain[p].now) :
          /\ Cardinality(c) = Limit \/ (c = Due(drain[p].now) /\ Cardinality(c) < Limit)
          /\ drain' = [drain EXCEPT ![p].cand = c, ![p].step = "stamp"]
    BY <1>1 DEF Selects
  <2>2. drain'[p].cand = c /\ drain'[p].step = "stamp" /\ drain'[p].now = drain[p].now
    BY <1>0, <2>1 DEF Drain
  <2>3. r.wake <= drain[p].now /\ r \in Due(drain[p].now)
    BY <1>1 DEF Selects, WillTake, Due
  <2> QED BY <2>1, <2>2, <2>3 DEF WillTake
<1>2. CASE Stamps(p)
  <2> DEFINE cand == drain[p].cand
             won == cand \ taken
             cut == /\ Cardinality(cand) = Limit
                    /\ won # cand \/ drain[p].batches + 1 = MaxBatches
  <2>1. /\ taken' = taken \cup won /\ drain[p].step = "stamp"
        /\ left' = (IF cut THEN left \cup Due(drain[p].now) ELSE left) \ won
    BY <1>2 DEF Stamps
  <2>2. drain'[p].step = "check" /\ drain'[p].now = drain[p].now
        /\ drain'[p].full = (Cardinality(won) = Limit)
        /\ drain'[p].batches = drain[p].batches + 1 /\ drain'[p].pendente = drain[p].pendente
    BY <1>0, <1>2 DEF Stamps, Drain
  <2>3. r.wake <= drain[p].now /\ r \notin won /\ r \notin cand /\ r \in Due(drain[p].now)
    BY <1>0, <2>1 DEF WillTake, Due
  <2>4. CASE cut BY <2>1, <2>3, <2>4
  <2>5. CASE ~ cut /\ Cardinality(cand) = Limit
    <3>1. won = cand /\ drain[p].batches + 1 # MaxBatches BY <2>5
    <3>2. drain[p].batches < MaxBatches BY <2>1 DEF CareInv, KindInv, Draining
    <3>3. drain[p].batches + 1 < MaxBatches BY <1>0, <3>1, <3>2
    <3>4. Cardinality(won) = Limit BY <2>5, <3>1
    <3> HIDE DEF won
    <3> QED BY <2>2, <2>3, <3>3, <3>4 DEF WillTake, More
  <2>6. CASE drain[p].pendente BY <2>2, <2>3, <2>6 DEF WillTake
  <2> QED BY <2>1, <2>3, <2>4, <2>5, <2>6 DEF WillTake
<1>3. CASE NextBatch(p)
  <2>1. /\ drain' = [drain EXCEPT ![p].step = "select"] /\ drain[p].step = "check"
    BY <1>3 DEF NextBatch
  <2>2. drain'[p].step = "select" /\ drain'[p].now = drain[p].now
    BY <1>0, <2>1 DEF Drain
  <2> QED BY <2>1, <2>2 DEF WillTake
<1>4. CASE Repeats(p)
  <2>1. drain'[p] = [Rest EXCEPT !.step = "select", !.now = drain[p].now]
    BY <1>0, <1>4 DEF Repeats
  <2>2. drain'[p].step = "select" /\ drain'[p].now = drain[p].now
    BY <2>1 DEF Rest
  <2> QED BY <2>2 DEF WillTake
<1>5. CASE Rests(p)
  BY <1>0, <1>5 DEF Rests, WillTake
<1> QED BY <1>1, <1>2, <1>3, <1>4, <1>5 DEF Drains

LEMMA DrainCares ==
  ASSUME CareInv, NEW p \in Procs, Drains(p)
  PROVE  Cared'
<1>0. drain \in [Procs -> Drain] BY DEF CareInv, KindInv, TypeOK
<1>1. /\ UNCHANGED <<runs, task>> /\ taken \subseteq taken'
      /\ \A q \in Procs : q # p => drain'[q] = drain[q]
  BY <1>0 DEF Drains, Selects, Stamps, NextBatch, Repeats, Rests
<1>2. ASSUME NEW r \in runs \ taken', r \in left PROVE r \in left' \/ WillTake(p, r)'
  <2>1. CASE Repeats(p)
    <3>1. /\ drain'[p] = [Rest EXCEPT !.step = "select", !.now = drain[p].now]
          /\ left' = left \ Due(drain[p].now)
      BY <1>0, <2>1 DEF Repeats
    <3>2. drain'[p].step = "select" /\ drain'[p].now = drain[p].now BY <3>1 DEF Rest
    <3> QED BY <1>2, <3>1, <3>2 DEF WillTake, Due
  <2>2. CASE Stamps(p) BY <1>2, <2>2 DEF Stamps
  <2> QED BY <1>2, <2>1, <2>2 DEF Drains, Selects, NextBatch, Rests
<1>3. ASSUME NEW r, NEW k \in Works, WillPush(k, r) PROVE WillPush(k, r)'
  BY <1>1, <1>3 DEF WillPush, Pushes
<1>4. ASSUME NEW r, NEW q \in Procs, q # p, WillTake(q, r) PROVE WillTake(q, r)'
  BY <1>1, <1>4, DrainStays
<1> QED BY <1>1, <1>2, <1>3, <1>4, DrainTakes DEF CareInv, Cared

\* A failure leaves what it took the care of.
LEMMA FailuresCare ==
  ASSUME CareInv
  PROVE  /\ \A i \in Works : FireFails(i) => Cared'
         /\ \A p \in Procs : DrainFails(p) => Cared'
         /\ \A p \in Procs : Crash(p) => Cared'
<1>0. /\ task \in [Works -> Task] /\ drain \in [Procs -> Drain] /\ KindInv
  BY DEF CareInv, KindInv, TypeOK
<1>1. ASSUME NEW i \in Works, FireFails(i) PROVE Cared'
  <2>1. /\ UNCHANGED <<runs, taken, drain>> /\ \A k \in Works : k # i => task'[k] = task[k]
        /\ left' = left \cup {r \in runs \ taken : r.key = <<"event", i[2]>>}
        /\ task[i].stage = "fire"
    BY <1>0, <1>1 DEF FireFails
  <2>2. i \notin Sweeps BY <1>0, <2>1 DEF KindInv, Writing
  <2>3. ASSUME NEW r \in runs \ taken, NEW k \in Works, WillPush(k, r)
        PROVE  r \in left' \/ WillPush(k, r)'
    BY <2>1, <2>2, <2>3 DEF WillPush, Pushes
  <2>4. ASSUME NEW r, NEW q \in Procs, WillTake(q, r) PROVE WillTake(q, r)'
    BY <2>1, <2>4, DrainStays
  <2> QED BY <2>1, <2>3, <2>4 DEF CareInv, Cared
<1>2. ASSUME NEW p \in Procs, DrainFails(p) PROVE Cared'
  <2>1. /\ UNCHANGED <<runs, taken, task>> /\ left' = left \cup Due(drain[p].now)
        /\ \A q \in Procs : q # p => drain'[q] = drain[q]
    BY <1>0, <1>2 DEF DrainFails
  <2>2. ASSUME NEW r \in runs \ taken, NEW q \in Procs, WillTake(q, r)
        PROVE  r \in left' \/ WillTake(q, r)'
    <3>1. CASE q = p BY <2>1, <2>2, <3>1 DEF WillTake, Due
    <3>2. CASE q # p BY <2>1, <2>2, <3>2, DrainStays
    <3> QED BY <3>1, <3>2
  <2>3. ASSUME NEW r, NEW k \in Works, WillPush(k, r) PROVE WillPush(k, r)'
    BY <2>1, <2>3 DEF WillPush, Pushes
  <2> QED BY <2>1, <2>2, <2>3 DEF CareInv, Cared
<1>3. ASSUME NEW p \in Procs, Crash(p) PROVE Cared'
  <2>1. /\ UNCHANGED <<runs, taken>> /\ left' = left \cup UNION {Due(n) : n \in Instants(p)}
        /\ \A q \in Procs : q # p => drain'[q] = drain[q]
        /\ \A k \in Works : k[1] # p => task'[k] = task[k]
    BY <1>0, <1>3 DEF Crash
  <2>2. ASSUME NEW r \in runs \ taken, NEW k \in Works, WillPush(k, r)
        PROVE  r \in left' \/ WillPush(k, r)'
    <3>1. CASE k[1] # p BY <2>1, <2>2, <3>1 DEF WillPush, Pushes
    <3>2. CASE k[1] = p
      <4>1. task[k].now \in Instants(p) /\ r \in Due(task[k].now)
        BY <2>2, <3>2 DEF WillPush, Instants, Due
      <4> QED BY <2>1, <4>1
    <3> QED BY <3>1, <3>2
  <2>3. ASSUME NEW r \in runs \ taken, NEW q \in Procs, WillTake(q, r)
        PROVE  r \in left' \/ WillTake(q, r)'
    <3>1. CASE q # p BY <2>1, <2>3, <3>1, DrainStays
    <3>2. CASE q = p
      <4>1. drain[p].step # "rest" BY <2>3, <3>2 DEF WillTake
      <4>2. drain[p].now \in Instants(p) BY <4>1 DEF Instants
      <4>3. r \in Due(drain[p].now) BY <2>3, <3>2 DEF WillTake, Due
      <4> QED BY <2>1, <4>2, <4>3
    <3> QED BY <3>1, <3>2
  <2> QED BY <2>1, <2>2, <2>3 DEF CareInv, Cared
<1> QED BY <1>1, <1>2, <1>3

LEMMA CareStep ==
  ASSUME CareInv, [Next]_vars
  PROVE  CareInv'
<1>0. KindInv' /\ KindInv BY KindStep DEF CareInv
<1>1. ASSUME NEW i \in Works, (Advances(i) /\ ~Push(i)) \/ Happens(i) \/ ScanFails(i)
      PROVE  Cared'
  <2>1. /\ task[i].stage \notin {"idle", "over"} =>
              /\ task'[i].stage \notin {"idle", "over"} /\ task'[i].now = task[i].now
              /\ task[i].opened => task'[i].opened
        /\ \A k \in Works : k # i => task'[k] = task[k]
        /\ UNCHANGED <<taken, drain, left>> /\ runs \subseteq runs'
        /\ \A r \in runs' \ runs :
              /\ task'[i].stage \notin {"idle", "over"} /\ task'[i].opened
              /\ r.wake = task'[i].now /\ (i \notin Sweeps => r.key = <<"event", i[2]>>)
    BY <1>0, <1>1, TaskGoesOn
  <2>2. ASSUME NEW r, NEW k \in Works, WillPush(k, r) PROVE WillPush(k, r)'
    BY <2>1, <2>2 DEF WillPush, Pushes
  <2>3. ASSUME NEW r, NEW q \in Procs, WillTake(q, r) PROVE WillTake(q, r)'
    BY <2>1, <2>3, DrainStays
  <2>4. ASSUME NEW r \in runs' \ taken, r \notin runs PROVE WillPush(i, r)'
    <3>1. task'[i].now \in 0 .. MaxTime BY <1>0 DEF KindInv, TypeOK, Task
    <3>2. r.wake <= task'[i].now BY <2>1, <2>4, <3>1
    <3> QED BY <2>1, <2>4, <3>2 DEF WillPush, Pushes
  <2> QED BY <2>1, <2>2, <2>3, <2>4 DEF CareInv, Cared
<1>2. ASSUME NEW i \in Works, Push(i) PROVE Cared' BY <1>2, PushCares
<1>3. ASSUME NEW p \in Procs, Drains(p) PROVE Cared' BY <1>3, DrainCares
<1>4. ASSUME UNCHANGED <<runs, taken, task, drain, left>> PROVE Cared'
  BY <1>4 DEF CareInv, Cared, WillPush, WillTake, Pushes, More
<1>5. ASSUME NEW a \in Autos, Toggle(a) PROVE Cared'
  <2>1. \A i \in Works : task'[i] = [task[i] EXCEPT !.steady = @ \ {a}] /\ task[i] \in Task
    BY <1>0, <1>5, ToggleKind DEF KindInv, TypeOK
  <2>2. \A i \in Works : /\ task'[i].stage = task[i].stage /\ task'[i].now = task[i].now
                         /\ task'[i].opened = task[i].opened
    BY <2>1 DEF Task
  <2>3. UNCHANGED <<runs, taken, drain, left>> BY <1>5 DEF Toggle
  <2> QED BY <2>2, <2>3 DEF CareInv, Cared, WillPush, WillTake, Pushes, More
<1> QED BY <1>0, <1>1, <1>2, <1>3, <1>4, <1>5, FailuresCare DEF CareInv, Next, Tick, vars

\* The reaction at once, as far as the code keeps it: when nothing is under way, a
\* run that waits was left by the last push that could have served it, since that
\* push fell into a drain whose instant is older than the run, the pass reached its
\* last batch, another process won rows of it, or something failed.  A push into a
\* drain under way serves every run due at the instant of that drain.
THEOREM NoneLeftWithoutReason == Spec => []LeftForAReason
<1>1. Init => CareInv
  <2>1. Init => Cared BY DEF Init, Cared
  <2> QED BY <2>1, KindInit DEF CareInv
<1>2. CareInv /\ [Next]_vars => CareInv' BY CareStep
<1>3. CareInv => LeftForAReason
  BY DEF CareInv, Cared, WillPush, WillTake, LeftForAReason
<1> QED BY <1>1, <1>2, <1>3, PTL DEF Spec

=============================================================================
