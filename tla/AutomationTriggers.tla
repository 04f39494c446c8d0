------------------------- MODULE AutomationTriggers -------------------------
(***************************************************************************)
(* How runs come to be and how the engine is woken: a business event fires *)
(* its trigger and pushes, the sweep of every minute opens the runs of the *)
(* two time triggers and pushes as well, and one drain per process takes   *)
(* what is due.  What a taken run does is AutomationRuns.                  *)
(*                                                                         *)
(* One tenant.  The clock counts minutes; a slice, a day and an offset are *)
(* counted in it.  Bound: one sweep at a time in each process.             *)
(***************************************************************************)
EXTENDS Integers, FiniteSets

CONSTANTS Procs,        \* server processes with the engine on
          Events, Scheduled, Recurring,   \* automations, by type of trigger
          Occurrences,  \* business events, one fire each
          Wants,        \* the automations whose trigger an occurrence matches
          Departures,   \* events of the schedule with a group
          Start,        \* the day each departure starts
          Offset,       \* offsetDays of a scheduled trigger
          Period,       \* interval of a recurring trigger
          DayLength,    \* minutes of a day
          MaxTime,      \* bound of the clock
          Limit,        \* LOTE
          MaxBatches,   \* LOTES_POR_PASSADA
          MaxFaults     \* bound: failed calls, crashes and switches

Autos == Events \cup Scheduled \cup Recurring

ASSUME TriggersAssumption ==
  /\ Events \cap Scheduled = {} /\ Events \cap Recurring = {}
  /\ Scheduled \cap Recurring = {}
  /\ Wants \in [Occurrences -> SUBSET Events]
  /\ Start \in [Departures -> Int] /\ Offset \in [Scheduled -> Int]
  /\ Period \in [Recurring -> Nat \ {0}] /\ DayLength \in Nat \ {0}
  /\ MaxTime \in Nat /\ Limit \in Nat \ {0} /\ MaxBatches \in Nat \ {0}
  /\ MaxFaults \in Nat /\ "sweep" \notin Occurrences

VARIABLES clock,
          enabled,   \* the automations that are on
          runs,      \* rows of AutomationRun: automation, key, wakeAt
          taken,     \* those a process has claimed
          task,      \* the sweep and the fires of each process
          drain,     \* drenar of each process: rodando, pendente, its instant
          faults,
          left     \* observer: runs left to a later push, for a reason of the code

vars == <<clock, enabled, runs, taken, task, drain, faults, left>>

Keys == {<<"event", o>> : o \in Occurrences}
        \cup {<<"scheduled", d, Offset[a]>> : d \in Departures, a \in Scheduled}
        \cup {<<"recurring", n>> : n \in 0 .. MaxTime}

Run == [auto : Autos, key : Keys, wake : 0 .. MaxTime]

\* A sweep goes through its two scans and pushes; a fire enqueues and pushes.
Stages == {"idle", "scheduled", "recurring", "fire", "push", "over"}
Works == Procs \X (Occurrences \cup {"sweep"})
Sweeps == Procs \X {"sweep"}

Task == [stage : Stages, now : 0 .. MaxTime,
         targets : SUBSET Autos,         \* time triggers still to look at
         calls : SUBSET Keys,            \* enqueueAutomationRun still to call
         key : Keys \cup {<<>>}, writes : SUBSET Autos,   \* the call under way
         opened : BOOLEAN,               \* a row was written
         steady : SUBSET Autos,          \* observer: on since the task began
         failed : SUBSET Stages]         \* observer: scans that failed

Drain == [step : {"rest", "select", "stamp", "check"}, pendente : BOOLEAN,
          now : 0 .. MaxTime, cand : SUBSET Run, full : BOOLEAN,
          batches : 0 .. MaxBatches]

\* Every task and drain is in a state the code can be in.
TypeOK ==
  /\ clock \in 0 .. MaxTime /\ enabled \subseteq Autos
  /\ runs \subseteq Run /\ taken \subseteq runs
  /\ task \in [Works -> Task] /\ drain \in [Procs -> Drain]
  /\ faults \in 0 .. MaxFaults /\ left \subseteq runs \ taken

Idle == [stage |-> "idle", now |-> 0, targets |-> {}, calls |-> {}, key |-> <<>>,
         writes |-> {}, opened |-> FALSE, steady |-> {}, failed |-> {}]
Over == [Idle EXCEPT !.stage = "over"]
Rest == [step |-> "rest", pendente |-> FALSE, now |-> 0, cand |-> {},
         full |-> FALSE, batches |-> 0]

Init ==
  /\ clock = 0 /\ enabled \in {{}, Autos} /\ runs = {} /\ taken = {}
  /\ task = [i \in Works |-> Idle] /\ drain = [p \in Procs |-> Rest]
  /\ faults = 0 /\ left = {}

-----------------------------------------------------------------------------
(* The clock and the desk.                                                 *)

Tick ==
  /\ clock < MaxTime
  /\ clock' = clock + 1
  /\ UNCHANGED <<enabled, runs, taken, task, drain, faults, left>>

\* setAutomationEnabled, either way.  Counted with the faults.
Toggle(a) ==
  /\ faults < MaxFaults /\ faults' = faults + 1
  /\ enabled' = (enabled \ {a}) \cup ({a} \ enabled)
  /\ task' = [i \in Works |-> [task[i] EXCEPT !.steady = @ \ {a}]]
  /\ UNCHANGED <<clock, runs, taken, drain, left>>

-----------------------------------------------------------------------------
(* Opening runs.                                                           *)

\* The part of the time a recurring trigger is in, and the operation's day.
janelaDe(a, t) == t \div Period[a]
hojeEm(t) == t \div DayLength

\* listTimeTriggersAcrossTenants, as each of the two scans filters it.
Targets(stage) == enabled \cap (IF stage = "scheduled" THEN Scheduled ELSE Recurring)

SweepBegins(i) ==
  /\ task[i].stage = "idle"
  /\ task' = [task EXCEPT ![i] = [Idle EXCEPT !.stage = "scheduled", !.now = clock,
                                    !.targets = Targets("scheduled"),
                                    !.steady = enabled]]
  /\ UNCHANGED <<clock, enabled, runs, taken, drain, faults, left>>

\* Nothing of the target in hand is left to enqueue.
Free(i) == task[i].calls = {} /\ task[i].writes = {}

\* The departures that start Offset days before today, if it is still on.
ScheduledTurn(i, a) ==
  /\ task[i].stage = "scheduled" /\ Free(i) /\ a \in task[i].targets
  /\ task' = [task EXCEPT ![i].targets = @ \ {a},
       ![i].calls = {<<"scheduled", d, Offset[a]>> : d \in
          {x \in Departures : a \in enabled /\ Start[x] = hojeEm(task[i].now) - Offset[a]}}]
  /\ UNCHANGED <<clock, enabled, runs, taken, drain, faults, left>>

\* Mutant: one try around both scans.
FollowingOneTry(t) ==
  IF t.stage = "scheduled" /\ t.failed = {}
    THEN [t EXCEPT !.stage = "recurring", !.targets = Targets("recurring"),
                   !.calls = {}, !.writes = {}]
    ELSE [t EXCEPT !.stage = "push", !.targets = {}, !.calls = {}, !.writes = {}]

\* The scan after this one: each has a try of its own, and the push is last.
Following(t) ==
  IF t.stage = "scheduled"
    THEN [t EXCEPT !.stage = "recurring", !.targets = Targets("recurring"),
                   !.calls = {}, !.writes = {}]
    ELSE [t EXCEPT !.stage = "push", !.targets = {}, !.calls = {}, !.writes = {}]

ScanEnds(i) ==
  /\ task[i].stage \in {"scheduled", "recurring"}
  /\ task[i].targets = {} /\ Free(i)
  /\ task' = [task EXCEPT ![i] = Following(@)]
  /\ UNCHANGED <<clock, enabled, runs, taken, drain, faults, left>>

\* Any read or write of a scan may throw; what it opened stays open.
ScanFails(i) ==
  /\ task[i].stage \in {"scheduled", "recurring"} /\ faults < MaxFaults
  /\ task' = [task EXCEPT ![i] = Following([task[i] EXCEPT !.failed = @ \cup {task[i].stage}])]
  /\ faults' = faults + 1
  /\ UNCHANGED <<clock, enabled, runs, taken, drain, left>>

\* fire, after the business event was committed.
Happens(i) ==
  /\ i \notin Sweeps /\ \A p \in Procs : task[<<p, i[2]>>].stage = "idle"
  /\ task' = [task EXCEPT ![i] = [Idle EXCEPT !.stage = "fire", !.now = clock,
                                    !.calls = {<<"event", i[2]>>}, !.steady = enabled]]
  /\ UNCHANGED <<clock, enabled, runs, taken, drain, faults, left>>

\* Whom enqueueAutomationRun picks: by the type of the trigger, and by its
\* configuration only where the call says so.
interessadas(key) ==
  enabled \cap CASE key[1] = "event" -> Wants[key[2]]
                 [] key[1] = "scheduled" -> Scheduled
                 [] key[1] = "recurring" -> Recurring

EnqueueLists(i, key) ==
  /\ key \in task[i].calls /\ task[i].writes = {}
  /\ task' = [task EXCEPT ![i].calls = @ \ {key}, ![i].key = key,
                          ![i].writes = interessadas(key)]
  /\ UNCHANGED <<clock, enabled, runs, taken, drain, faults, left>>

\* The scan of the recurring trigger reads nothing before that list.
RecurringTurn(i, a) ==
  LET key == <<"recurring", janelaDe(a, task[i].now)>>
  IN /\ task[i].stage = "recurring" /\ Free(i) /\ a \in task[i].targets
     /\ task' = [task EXCEPT ![i].targets = @ \ {a}, ![i].key = key,
                             ![i].writes = interessadas(key)]
     /\ UNCHANGED <<clock, enabled, runs, taken, drain, faults, left>>

\* The unique key lets only the first insert through.
EnqueueWrites(i, a) ==
  LET new == [auto |-> a, key |-> task[i].key, wake |-> task[i].now]
      isNew == ~ \E r \in runs : r.auto = a /\ r.key = new.key
  IN /\ a \in task[i].writes
     /\ runs' = IF isNew THEN runs \cup {new} ELSE runs
     /\ task' = [task EXCEPT ![i].writes = @ \ {a}, ![i].opened = @ \/ isNew]
     /\ UNCHANGED <<clock, enabled, taken, drain, faults, left>>

FireEnds(i) ==
  /\ task[i].stage = "fire" /\ Free(i)
  /\ task' = [task EXCEPT ![i].stage = "push"]
  /\ UNCHANGED <<clock, enabled, runs, taken, drain, faults, left>>

\* The .catch of fire: no push, and nobody fires the event again.
FireFails(i) ==
  /\ task[i].stage = "fire" /\ faults < MaxFaults
  /\ task' = [task EXCEPT ![i] = Over] /\ faults' = faults + 1
  /\ left' = left \cup {r \in runs \ taken : r.key = <<"event", i[2]>>}
  /\ UNCHANGED <<clock, enabled, runs, taken, drain>>

-----------------------------------------------------------------------------
(* drenar.                                                                 *)

\* Mutant: a push into a drain under way leaves no mark.
PushedInVain(p, now) ==
  IF drain[p].step = "rest" THEN [Rest EXCEPT !.step = "select", !.now = now] ELSE drain[p]

\* A push into a drain under way only leaves a mark.
Pushed(p, now) ==
  IF drain[p].step = "rest"
    THEN [Rest EXCEPT !.step = "select", !.now = now]
    ELSE [drain[p] EXCEPT !.pendente = TRUE]

\* Mutant: the sweep pushes only what it opened.
PushesWhenOpened(i) == task[i].opened

\* The sweep always pushes; a fire does when it opened a run.
Pushes(i) == i \in Sweeps \/ task[i].opened

\* The instant the drain of p will take at, after a push at now.
Instant(p, now) == IF drain[p].step = "rest" THEN now ELSE drain[p].now

Due(now) == {r \in runs \ taken : r.wake <= now}

Push(i) ==
  LET p == i[1]
      now == task[i].now
      served == Due(Instant(p, now))
  IN /\ task[i].stage = "push"
     /\ task' = [task EXCEPT ![i] = IF i \in Sweeps THEN Idle ELSE Over]
     /\ drain' = [drain EXCEPT ![p] = IF Pushes(i) THEN Pushed(p, now) ELSE @]
     /\ left' = IF Pushes(i) THEN (left \cup Due(now)) \ served ELSE left
     /\ UNCHANGED <<clock, enabled, runs, taken, faults>>

\* claimDue reads: at most Limit rows, the oldest wakeAt first.
Selects(p) ==
  LET due == Due(drain[p].now)
  IN /\ drain[p].step = "select"
     /\ \E c \in SUBSET due :
          /\ Cardinality(c) = Limit \/ (c = due /\ Cardinality(c) < Limit)
          /\ \A r \in c, s \in due \ c : r.wake <= s.wake
          /\ drain' = [drain EXCEPT ![p].cand = c, ![p].step = "stamp"]
     /\ UNCHANGED <<clock, enabled, runs, taken, task, faults, left>>

\* claimDue writes: only the rows nobody took meanwhile.  The pass goes no further
\* after its last batch, nor after a batch that is short because rows were lost.
Stamps(p) ==
  LET won == drain[p].cand \ taken
      cut == /\ Cardinality(drain[p].cand) = Limit
             /\ won # drain[p].cand \/ drain[p].batches + 1 = MaxBatches
  IN /\ drain[p].step = "stamp"
     /\ taken' = taken \cup won
     /\ drain' = [drain EXCEPT ![p].step = "check", ![p].cand = {}, ![p].batches = @ + 1,
                               ![p].full = Cardinality(won) = Limit]
     /\ left' = (IF cut THEN left \cup Due(drain[p].now) ELSE left) \ won
     /\ UNCHANGED <<clock, enabled, runs, task, faults>>

\* Mutant: no LOTES_POR_PASSADA.
MoreForEver(p) == drain[p].full

\* A batch was walked: another one follows a full one, up to MaxBatches.
More(p) == drain[p].full /\ drain[p].batches < MaxBatches

NextBatch(p) ==
  /\ drain[p].step = "check" /\ More(p)
  /\ drain' = [drain EXCEPT ![p].step = "select"]
  /\ UNCHANGED <<clock, enabled, runs, taken, task, faults, left>>

\* do ... while (pendente), with the instant the first push brought.
Repeats(p) ==
  /\ drain[p].step = "check" /\ ~More(p) /\ drain[p].pendente
  /\ drain' = [drain EXCEPT ![p] = [Rest EXCEPT !.step = "select", !.now = drain[p].now]]
  /\ left' = left \ Due(drain[p].now)
  /\ UNCHANGED <<clock, enabled, runs, taken, task, faults>>

Rests(p) ==
  /\ drain[p].step = "check" /\ ~More(p) /\ ~drain[p].pendente
  /\ drain' = [drain EXCEPT ![p] = Rest]
  /\ UNCHANGED <<clock, enabled, runs, taken, task, faults, left>>

\* The catch and the finally: the claim or a walk threw.
DrainFails(p) ==
  /\ drain[p].step # "rest" /\ faults < MaxFaults
  /\ drain' = [drain EXCEPT ![p] = Rest]
  /\ faults' = faults + 1 /\ left' = left \cup Due(drain[p].now)
  /\ UNCHANGED <<clock, enabled, runs, taken, task>>

\* The instants at which process p was to take what is due.
Instants(p) ==
  {task[i].now : i \in {j \in Works : j[1] = p /\ task[j].stage \notin {"idle", "over"}}}
  \cup (IF drain[p].step = "rest" THEN {} ELSE {drain[p].now})

\* A deploy: the process starts again with nothing in memory.
Crash(p) ==
  /\ faults < MaxFaults
  /\ task' = [i \in Works |-> IF i[1] # p \/ task[i].stage = "idle" THEN task[i]
                              ELSE IF i \in Sweeps THEN Idle ELSE Over]
  /\ drain' = [drain EXCEPT ![p] = Rest]
  /\ faults' = faults + 1
  /\ left' = left \cup UNION {Due(n) : n \in Instants(p)}
  /\ UNCHANGED <<clock, enabled, runs, taken>>

-----------------------------------------------------------------------------

Advances(i) ==
  \/ (i \in Sweeps /\ SweepBegins(i))
  \/ \E a \in Autos : ScheduledTurn(i, a) \/ RecurringTurn(i, a) \/ EnqueueWrites(i, a)
  \/ \E key \in Keys : EnqueueLists(i, key)
  \/ ScanEnds(i) \/ FireEnds(i) \/ Push(i)

Drains(p) == Selects(p) \/ Stamps(p) \/ NextBatch(p) \/ Repeats(p) \/ Rests(p)

Next ==
  \/ Tick
  \/ \E a \in Autos : Toggle(a)
  \/ \E i \in Works : Advances(i) \/ Happens(i) \/ ScanFails(i) \/ FireFails(i)
  \/ \E p \in Procs : Drains(p) \/ DrainFails(p) \/ Crash(p)

\* The event loop runs every timer and every promise; the clock runs; nobody
\* owes a business event, a switch, a failure or a crash.
Fairness ==
  /\ WF_vars(Tick)
  /\ \A i \in Works : WF_vars(Advances(i))
  /\ \A p \in Procs : WF_vars(Drains(p))

Spec == Init /\ [][Next]_vars /\ Fairness

-----------------------------------------------------------------------------
(* Properties.                                                             *)

Opened(a, key) == \E r \in runs : r.auto = a /\ r.key = key

\* When a sweep comes to its push, every automation that was on all along has
\* the run of its part of the time, or of the departure it waits for, whoever
\* wrote it, unless its own scan failed: a failing scan does not take the other
\* one with it (runner.ts 128-134), a scan another process crashed in is
\* completed, and a fire that did not fail left out nobody it concerns.
SweepMissesNothing ==
  \A i \in Works : task[i].stage = "push" =>
    LET t == task[i]
    IN /\ i \notin Sweeps =>
            \A a \in t.steady \cap Wants[i[2]] : Opened(a, <<"event", i[2]>>)
       /\ i \in Sweeps /\ "recurring" \notin t.failed =>
            \A a \in t.steady \cap Recurring :
              Opened(a, <<"recurring", janelaDe(a, t.now)>>)
       /\ i \in Sweeps /\ "scheduled" \notin t.failed =>
            \A a \in t.steady \cap Scheduled, d \in Departures :
              Start[d] + Offset[a] = hojeEm(t.now) =>
                Opened(a, <<"scheduled", d, Offset[a]>>)

\* The reaction at once that runner.ts 23-26 promises, as far as the code keeps
\* it: when nothing is under way, a run that waits was left by the last push that
\* could have served it, because that push fell into a drain whose instant is
\* older than the run (which pendente does not mend, see README.md), the pass
\* reached its last batch, another process won rows of it, or something failed.
\* A push into a drain under way does serve every run due at that instant.
LeftForAReason ==
  (\A i \in Works : task[i].stage \in {"idle", "over"})
    /\ (\A p \in Procs : drain[p].step = "rest") => runs \ taken \subseteq left

\* The safety net (runner.ts 28-30): whatever failed, crashed or was swallowed,
\* again and again nothing is left to take (the bounded clock opens no run for
\* ever), unless some process is pushed into the middle of its drain for ever,
\* which keeps the drain at the instant it began.
EveryRunIsTaken ==
  \/ \E p \in Procs : []<><<Repeats(p)>>_vars
  \/ []<>(taken = runs)

=============================================================================
