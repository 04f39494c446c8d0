--------------------------- MODULE AutomationRuns ---------------------------
(***************************************************************************)
(* The automation engine: the table of runs, the switch and the drawing of *)
(* one automation, and the server processes that claim due runs in two     *)
(* statements, walk them over the drawing and write them back.             *)
(*                                                                         *)
(* Time is abstracted to two facts of a row: "due" (wakeAt has passed) and *)
(* "stale" (lockedAt is older than ABANDONADA_APOS_MS).  Configurations,   *)
(* texts and variables are left out: a branch picks either of its ports.   *)
(***************************************************************************)
EXTENDS Naturals, FiniteSets

CONSTANTS Workers,     \* server processes that run the engine
          Roots,       \* runs a trigger may open
          Items,       \* items a for-each may find
          Nodes,       \* ids of blocks
          Graphs,      \* the drawings validateGraph accepts
          MaxSteps,    \* TETO_DE_PASSOS (50 in the code)
          MaxAttempts, \* TETO_DE_TENTATIVAS (3 in the code)
          Limit,       \* LOTE: rows one claim may take (25 in the code)
          MaxFaults,   \* bound: crashes, torn actions and passes over 5 min
          None,        \* null: no node, no lock, no draft
          Gone         \* a lock owner that no longer runs

Kinds == {"trigger", "setVariable", "branch", "delay", "forEach",
          "action", "unknown", "unset", "end"}
Ports == {"next", "true", "false", "error"}

\* A "branch" is a condition, a switch or a lookup; "unset" is a lookup whose
\* entity is not chosen, which validateGraph accepts and whose finder throws.
\* PODEM_DESLIGAR; an action this server does not know is an action too.
CanBeOff == {"action", "unknown", "delay", "setVariable", "forEach"}

Drawing == [nodes : SUBSET Nodes, kind : [Nodes -> Kinds], off : SUBSET Nodes,
            start : Nodes, next : [Nodes -> [Ports -> Nodes \cup {None}]]]

ASSUME CeilingAssumption ==
  /\ MaxSteps \in Nat \ {0} /\ MaxAttempts \in Nat \ {0}
  /\ Limit \in Nat \ {0} /\ MaxFaults \in Nat

ASSUME NamesAssumption ==
  /\ None \notin Nodes /\ None \notin Workers /\ Gone \notin Workers
  /\ None # Gone /\ None \notin Graphs

\* What validateGraph refuses is not in Graphs: broken links, a for-each or a
\* trigger that leads nowhere (graph.ts 132-217).
ASSUME GraphsAssumption ==
  \A g \in Graphs :
    /\ g \in Drawing
    /\ g.start \in g.nodes /\ g.kind[g.start] = "trigger"
    /\ \A n \in g.nodes : \A p \in Ports : g.next[n][p] \in g.nodes \cup {None}
    /\ \A n \in g.nodes : g.kind[n] = "forEach" => g.next[n]["next"] # None

\* The idempotency key of a seeded run is block:item:run of origin; a drawing
\* has one for-each, so parent and item name the child.  Bound: one generation.
Runs == Roots \cup (Roots \X Items)

ASSUME RunsAssumption == Roots \cap (Roots \X Items) = {} /\ None \notin Runs

Open == {"pending", "waiting"}
Final == {"done", "failed", "cancelled"}

VARIABLES
  \* the AutomationRun table
  status, node, due, steps, tries, lock, stale,
  \* the Automation row, the membership of who turned it on, a save under way
  enabled, alive, graph, access, draft,
  \* one pass of the engine in each server process
  pc, cand, batch, cur, at, walked, tried, flow, todo,
  \* observers: effects per block, rows of the step log, faults that hit a run
  did, log, cuts, faults

row  == <<status, node, due, steps, tries, lock, stale>>
desk == <<enabled, alive, graph, access, draft>>
pass == <<pc, cand, batch, cur, at, walked, tried, flow, todo>>
seen == <<did, log, cuts, faults>>
vars == <<row, desk, pass, seen>>

Stages == {"idle", "stamp", "take", "batch", "resolve", "walk", "seed"}

\* The stages in which a process has one run in its hands.
Busy(w) == pc[w] \in {"resolve", "walk", "seed"}

RowType ==
  /\ status \in [Runs -> {"absent"} \cup Open \cup Final]
  /\ node \in [Runs -> Nodes \cup {None}]
  /\ due \in [Runs -> BOOLEAN] /\ stale \in [Runs -> BOOLEAN]
  /\ steps \in [Runs -> 0 .. MaxSteps] /\ tries \in [Runs -> Nat]
  /\ lock \in [Runs -> Workers \cup {None, Gone}]

DeskType ==
  /\ enabled \in BOOLEAN /\ alive \in BOOLEAN /\ access \in BOOLEAN
  /\ graph \in Graphs /\ draft \in Graphs \cup {None}

PassType ==
  /\ pc \in [Workers -> Stages]
  /\ cand \in [Workers -> SUBSET Runs] /\ batch \in [Workers -> SUBSET Runs]
  /\ cur \in [Workers -> Runs \cup {None}]
  /\ at \in [Workers -> Nodes \cup {None}]
  /\ walked \in [Workers -> 0 .. MaxSteps]
  /\ tried \in [Workers -> Nat]
  /\ flow \in [Workers -> Graphs \cup {None}]
  /\ todo \in [Workers -> SUBSET Items]

SeenType ==
  /\ did \in [Runs -> [Nodes -> Nat]] /\ log \in [Runs -> Nat]
  /\ cuts \in [Runs -> Nat] /\ faults \in 0 .. MaxFaults

\* Every row, switch and local variable holds a value of its kind: no walk
\* counts past the ceiling, no node is one no drawing has.
TypeOK == RowType /\ DeskType /\ PassType /\ SeenType

Init ==
  /\ status = [r \in Runs |-> "absent"] /\ node = [r \in Runs |-> None]
  /\ due = [r \in Runs |-> FALSE] /\ stale = [r \in Runs |-> FALSE]
  /\ steps = [r \in Runs |-> 0] /\ tries = [r \in Runs |-> 0]
  /\ lock = [r \in Runs |-> None]
  /\ enabled = FALSE /\ alive = TRUE /\ access = TRUE
  /\ graph \in Graphs /\ draft = None
  /\ pc = [w \in Workers |-> "idle"]
  /\ cand = [w \in Workers |-> {}] /\ batch = [w \in Workers |-> {}]
  /\ cur = [w \in Workers |-> None] /\ at = [w \in Workers |-> None]
  /\ walked = [w \in Workers |-> 0] /\ tried = [w \in Workers |-> 0]
  /\ flow = [w \in Workers |-> None] /\ todo = [w \in Workers |-> {}]
  /\ did = [r \in Runs |-> [n \in Nodes |-> 0]] /\ log = [r \in Runs |-> 0]
  /\ cuts = [r \in Runs |-> 0] /\ faults = 0

-----------------------------------------------------------------------------
(* The desk: what the team does to the automation.                         *)

\* setAutomationEnabled, on what is on already too: whoever turns it on answers
\* for it from now on.
Enable ==
  /\ alive
  /\ enabled' = TRUE /\ access' = TRUE
  /\ UNCHANGED <<row, pass, seen, alive, graph, draft>>

Disable ==
  /\ alive
  /\ enabled' = FALSE
  /\ UNCHANGED <<row, pass, seen, alive, graph, access, draft>>

\* saveAutomationGraph reads the switch first and writes the drawing later,
\* with no condition on the write.  Bound: one save at a time.
SaveBegins(g) ==
  /\ alive /\ ~enabled /\ draft = None
  /\ draft' = g
  /\ UNCHANGED <<row, pass, seen, enabled, alive, graph, access>>

SaveEnds ==
  /\ draft # None
  /\ graph' = draft /\ draft' = None
  /\ UNCHANGED <<row, pass, seen, enabled, alive, access>>

\* deleteAutomation: logical, and only of what is off.
Delete ==
  /\ alive /\ ~enabled
  /\ alive' = FALSE
  /\ UNCHANGED <<row, pass, seen, enabled, graph, access, draft>>

\* The membership of runAsUserId is removed.
RevokeAccess ==
  /\ access' = FALSE
  /\ UNCHANGED <<row, pass, seen, enabled, alive, graph, draft>>

-----------------------------------------------------------------------------
(* The queue: rows appear, fall due, and their locks grow old.             *)

\* The row a new run starts with: due at once, at the trigger or at n.
Insert(r, n) ==
  /\ status' = [status EXCEPT ![r] = "pending"]
  /\ node' = [node EXCEPT ![r] = n]
  /\ due' = [due EXCEPT ![r] = TRUE]
  /\ UNCHANGED <<steps, tries, lock, stale>>

\* enqueueAutomationRun, from a trigger.  A key that exists is left alone.
Enqueue(r) ==
  /\ r \in Roots /\ status[r] = "absent"
  /\ enabled /\ alive
  /\ Insert(r, None)
  /\ UNCHANGED <<desk, pass, seen>>

WakeElapses(r) ==
  /\ status[r] \in Open /\ ~due[r]
  /\ due' = [due EXCEPT ![r] = TRUE]
  /\ UNCHANGED <<status, node, steps, tries, lock, stale, desk, pass, seen>>

\* A process that still means to walk the row it stamped.
Held(r) == \E w \in Workers :
             /\ lock[r] = w
             /\ \/ r \in batch[w]
                \/ pc[w] = "take" /\ r \in cand[w]

\* Five minutes pass over a lock nobody is behind.
LockAges(r) ==
  /\ lock[r] # None /\ ~stale[r] /\ ~Held(r)
  /\ stale' = [stale EXCEPT ![r] = TRUE]
  /\ UNCHANGED <<status, node, due, steps, tries, lock, desk, pass, seen>>

\* Five minutes pass over a lock whose owner is only slow.
PassDrags(r) ==
  /\ ~stale[r] /\ Held(r) /\ faults < MaxFaults
  /\ stale' = [stale EXCEPT ![r] = TRUE]
  /\ cuts' = [cuts EXCEPT ![r] = @ + 1] /\ faults' = faults + 1
  /\ UNCHANGED <<status, node, due, steps, tries, lock, desk, pass, did, log>>

-----------------------------------------------------------------------------
(* Claiming: claimDue reads candidates, stamps them, reads back its own.   *)

\* Mutant: an old lock is never taken over.
FreeUnlocked(r) == lock[r] = None

Free(r) == lock[r] = None \/ stale[r]

\* Mutant: candidates without the condition on wakeAt.
ClaimableEarly == {r \in Runs : status[r] \in Open /\ Free(r)}

\* Mutant: candidates without the condition on status.
ClaimableClosed == {r \in Runs : due[r] /\ Free(r)}

Claimable == {r \in Runs : status[r] \in Open /\ due[r] /\ Free(r)}

ClaimReads(w) ==
  /\ pc[w] = "idle"
  /\ \E C \in SUBSET Claimable :
       /\ C # {}
       /\ Cardinality(C) = Limit \/ (C = Claimable /\ Cardinality(C) < Limit)
       /\ cand' = [cand EXCEPT ![w] = C]
  /\ pc' = [pc EXCEPT ![w] = "stamp"]
  /\ UNCHANGED <<row, desk, batch, cur, at, walked, tried, flow, todo, seen>>

\* Mutant: the second statement stamps by id alone.
StampableAlways(r) == TRUE

\* The second statement repeats the condition on the lock and nothing else.
Stampable(r) == Free(r)

ClaimStamps(w) ==
  /\ pc[w] = "stamp"
  /\ lock' = [r \in Runs |-> IF r \in cand[w] /\ Stampable(r) THEN w ELSE lock[r]]
  /\ stale' = [r \in Runs |-> stale[r] /\ ~(r \in cand[w] /\ Stampable(r))]
  /\ pc' = [pc EXCEPT ![w] = "take"]
  /\ UNCHANGED <<status, node, due, steps, tries, desk,
                 cand, batch, cur, at, walked, tried, flow, todo, seen>>

ClaimTakes(w) ==
  /\ pc[w] = "take"
  /\ batch' = [batch EXCEPT ![w] = {r \in cand[w] : lock[r] = w}]
  /\ cand' = [cand EXCEPT ![w] = {}]
  /\ pc' = [pc EXCEPT ![w] = "batch"]
  /\ UNCHANGED <<row, desk, cur, at, walked, tried, flow, todo, seen>>

\* The batch is done: the pass claims again or ends, from the same place.
BatchEnds(w) ==
  /\ pc[w] = "batch" /\ batch[w] = {}
  /\ pc' = [pc EXCEPT ![w] = "idle"]
  /\ UNCHANGED <<row, desk, cand, batch, cur, at, walked, tried, flow, todo, seen>>

-----------------------------------------------------------------------------
(* One run: advanceAutomationRun.                                          *)

\* Mutant: only a failed run makes it return.
SkippedFailed == {"failed"}

\* The statuses that make it return at once.  "cancelled" is not one of them.
Skipped == {"done", "failed"}

\* It returns without a write: the lock stays.
SkipsFinished(w, r) ==
  /\ pc[w] = "batch" /\ r \in batch[w] /\ status[r] \in Skipped
  /\ batch' = [batch EXCEPT ![w] = @ \ {r}]
  /\ UNCHANGED <<row, desk, pc, cand, cur, at, walked, tried, flow, todo, seen>>

\* The row is read once; the pass goes on with what it read.
Loads(w, r) ==
  /\ pc[w] = "batch" /\ r \in batch[w] /\ status[r] \notin Skipped
  /\ pc' = [pc EXCEPT ![w] = "resolve"]
  /\ cur' = [cur EXCEPT ![w] = r]
  /\ at' = [at EXCEPT ![w] = node[r]]
  /\ walked' = [walked EXCEPT ![w] = steps[r]]
  /\ tried' = [tried EXCEPT ![w] = tries[r]]
  /\ UNCHANGED <<row, desk, cand, batch, flow, todo, seen>>

\* Mutant: the patch forgets stepsTaken.
SavesUncounted(w, st, n, d, s, t) ==
  LET r == cur[w] IN
  /\ status' = [status EXCEPT ![r] = st]
  /\ node' = [node EXCEPT ![r] = n]
  /\ due' = [due EXCEPT ![r] = d]
  /\ steps' = steps
  /\ tries' = [tries EXCEPT ![r] = t]
  /\ lock' = [lock EXCEPT ![r] = None]
  /\ stale' = [stale EXCEPT ![r] = FALSE]

\* runs.update with release: by id, whoever holds the lock.
Saves(w, st, n, d, s, t) ==
  LET r == cur[w] IN
  /\ status' = [status EXCEPT ![r] = st]
  /\ node' = [node EXCEPT ![r] = n]
  /\ due' = [due EXCEPT ![r] = d]
  /\ steps' = [steps EXCEPT ![r] = s]
  /\ tries' = [tries EXCEPT ![r] = t]
  /\ lock' = [lock EXCEPT ![r] = None]
  /\ stale' = [stale EXCEPT ![r] = FALSE]

\* The pass puts the run down and turns to the rest of its batch.
LetsGo(w) ==
  /\ pc' = [pc EXCEPT ![w] = "batch"]
  /\ batch' = [batch EXCEPT ![w] = @ \ {cur[w]}]
  /\ cur' = [cur EXCEPT ![w] = None]
  /\ at' = [at EXCEPT ![w] = None]
  /\ walked' = [walked EXCEPT ![w] = 0]
  /\ tried' = [tried EXCEPT ![w] = 0]
  /\ flow' = [flow EXCEPT ![w] = None]
  /\ UNCHANGED <<cand, todo>>

\* A patch with a status and nothing else that the row keeps.
Closes(w, st) ==
  LET r == cur[w] IN
  /\ Saves(w, st, node[r], due[r], steps[r], tries[r])
  /\ LetsGo(w)

CancelsWhenOff(w) ==
  /\ pc[w] = "resolve" /\ ~(alive /\ enabled)
  /\ Closes(w, "cancelled")
  /\ UNCHANGED <<desk, seen>>

FailsWithoutAccess(w) ==
  /\ pc[w] = "resolve" /\ alive /\ enabled /\ ~access
  /\ Closes(w, "failed")
  /\ UNCHANGED <<desk, seen>>

\* proximoNo: the trigger when the row has no node, nothing when the drawing
\* no longer has the node.
Entry(g, n) == IF n = None THEN g.start ELSE IF n \in g.nodes THEN n ELSE None

Starts(w) ==
  /\ pc[w] = "resolve" /\ alive /\ enabled /\ access
  /\ flow' = [flow EXCEPT ![w] = graph]
  /\ at' = [at EXCEPT ![w] = Entry(graph, at[w])]
  /\ pc' = [pc EXCEPT ![w] = "walk"]
  /\ UNCHANGED <<row, desk, cand, batch, cur, walked, tried, todo, seen>>

-----------------------------------------------------------------------------
(* The walk, one block at a time.  Nothing but effects and the step log    *)
(* reaches the database before the walk ends.                              *)

Successor(g, n, p) == g.next[n][p]

Off(w) == at[w] \in flow[w].off /\ flow[w].kind[at[w]] \in CanBeOff

\* Mutant: off by one.
ExhaustedLate(s) == s > MaxSteps

\* Over the ceiling the walk stops before the block.
Exhausted(s) == s >= MaxSteps

Reaches(w) == pc[w] = "walk" /\ at[w] # None /\ ~Exhausted(walked[w])

\* The walk stands on a block of one of these kinds that is not turned off.
OnBlock(w, ks) == Reaches(w) /\ ~Off(w) /\ flow[w].kind[at[w]] \in ks

Logs(w) == log' = [log EXCEPT ![cur[w]] = @ + 1]

\* On to the block behind port p, in memory.
GoesOn(w, p) ==
  /\ at' = [at EXCEPT ![w] = Successor(flow[w], at[w], p)]
  /\ walked' = [walked EXCEPT ![w] = @ + 1]
  /\ UNCHANGED <<pc, cand, batch, cur, tried, flow, todo>>

HitsCeiling(w) ==
  /\ pc[w] = "walk" /\ at[w] # None /\ Exhausted(walked[w])
  /\ Saves(w, "failed", node[cur[w]], due[cur[w]], walked[w], tries[cur[w]])
  /\ LetsGo(w)
  /\ UNCHANGED <<desk, seen>>

FallsOff(w) ==
  /\ pc[w] = "walk" /\ at[w] = None
  /\ Saves(w, "done", None, due[cur[w]], walked[w], tries[cur[w]])
  /\ LetsGo(w)
  /\ UNCHANGED <<desk, seen>>

SkipsDisabled(w) ==
  /\ Reaches(w) /\ Off(w)
  /\ GoesOn(w, "next") /\ Logs(w)
  /\ UNCHANGED <<row, desk, did, cuts, faults>>

\* Mutant: the row forgets where it slept.
SleepsAtStart(g, n) == None

\* Where a delay leaves the row: at the block after it.
SleepsAt(g, n) == Successor(g, n, "next")

Sleeps(w) ==
  /\ OnBlock(w, {"delay"})
  /\ Saves(w, "waiting", SleepsAt(flow[w], at[w]), FALSE, walked[w] + 1, tries[cur[w]])
  /\ LetsGo(w) /\ Logs(w)
  /\ UNCHANGED <<desk, did, cuts, faults>>

Ends(w) ==
  /\ OnBlock(w, {"end"})
  /\ Saves(w, "done", None, due[cur[w]], walked[w] + 1, tries[cur[w]])
  /\ LetsGo(w) /\ Logs(w)
  /\ UNCHANGED <<desk, did, cuts, faults>>

\* A trigger and a setVariable go on; a condition, a switch or a lookup picks
\* a port.
Passes(w) ==
  /\ \/ OnBlock(w, {"trigger", "setVariable"}) /\ GoesOn(w, "next")
     \/ OnBlock(w, {"branch"}) /\ \E p \in {"true", "false"} : GoesOn(w, p)
  /\ Logs(w)
  /\ UNCHANGED <<row, desk, did, cuts, faults>>

FailsUnknown(w) ==
  /\ OnBlock(w, {"unknown"})
  /\ Saves(w, "failed", node[cur[w]], due[cur[w]], walked[w] + 1, tries[cur[w]])
  /\ LetsGo(w) /\ Logs(w)
  /\ UNCHANGED <<desk, did, cuts, faults>>

\* The effect reaches the outside world.
Acts(w) == did' = [did EXCEPT ![cur[w]][at[w]] = @ + 1]

Succeeds(w) ==
  /\ OnBlock(w, {"action"})
  /\ Acts(w) /\ GoesOn(w, "next") /\ Logs(w)
  /\ UNCHANGED <<row, desk, cuts, faults>>

HasErrorPort(w) == flow[w].next[at[w]]["error"] # None

\* Mutant: one attempt too many.
GivesUpLate(t) == t > MaxAttempts

GivesUp(t) == t >= MaxAttempts

\* The catch of executarAcao: the error port if drawn, else one attempt more
\* from this same block, else the end.
Recovers(w) ==
  LET r == cur[w]  attempts == tried[w] + 1 IN
  \/ HasErrorPort(w) /\ GoesOn(w, "error") /\ UNCHANGED row
  \/ /\ ~HasErrorPort(w) /\ GivesUp(attempts)
     /\ Saves(w, "failed", node[r], due[r], walked[w] + 1, attempts)
     /\ LetsGo(w)
  \/ /\ ~HasErrorPort(w) /\ ~GivesUp(attempts)
     /\ Saves(w, "pending", at[w], FALSE, walked[w] + 1, attempts)
     /\ LetsGo(w)

ActionFails(w) ==
  /\ OnBlock(w, {"action"})
  /\ Recovers(w) /\ Logs(w)
  /\ UNCHANGED <<desk, did, cuts, faults>>

\* The provider accepted and what followed threw: the log row (it is written
\* inside the same try), or the copy sendChannelMessage keeps.
ActionTears(w) ==
  /\ OnBlock(w, {"action"}) /\ faults < MaxFaults
  /\ Acts(w) /\ Recovers(w) /\ Logs(w)
  /\ cuts' = [cuts EXCEPT ![cur[w]] = @ + 1] /\ faults' = faults + 1
  /\ UNCHANGED desk

\* seedRunsFromList opens one run per item, one insert at a time.
BeginsSeeding(w) ==
  /\ OnBlock(w, {"forEach"}) /\ cur[w] \in Roots
  /\ \E I \in SUBSET Items : todo' = [todo EXCEPT ![w] = I]
  /\ pc' = [pc EXCEPT ![w] = "seed"]
  /\ UNCHANGED <<row, desk, cand, batch, cur, at, walked, tried, flow, seen>>

\* The unique key makes the insert of a child that exists do nothing.
SeedsItem(w, i) ==
  /\ pc[w] = "seed" /\ i \in todo[w]
  /\ IF status[<<cur[w], i>>] = "absent"
       THEN Insert(<<cur[w], i>>, Successor(flow[w], at[w], "next"))
       ELSE UNCHANGED row
  /\ todo' = [todo EXCEPT ![w] = @ \ {i}]
  /\ UNCHANGED <<desk, pc, cand, batch, cur, at, walked, tried, flow, seen>>

EndsSeeding(w) ==
  /\ pc[w] = "seed" /\ todo[w] = {}
  /\ Saves(w, "done", None, due[cur[w]], walked[w] + 1, tries[cur[w]])
  /\ LetsGo(w) /\ Logs(w)
  /\ UNCHANGED <<desk, did, cuts, faults>>

\* The pass is left as it is, with the rest of its batch: memory is lost, the
\* locks stay.  The next pass stamps with another name or another instant.
Abandons(w) ==
  /\ cuts' = [r \in Runs |-> IF Busy(w) /\ r = cur[w] THEN cuts[r] + 1 ELSE cuts[r]]
  /\ lock' = [r \in Runs |-> IF lock[r] = w THEN Gone ELSE lock[r]]
  /\ pc' = [pc EXCEPT ![w] = "idle"]
  /\ cand' = [cand EXCEPT ![w] = {}] /\ batch' = [batch EXCEPT ![w] = {}]
  /\ cur' = [cur EXCEPT ![w] = None] /\ at' = [at EXCEPT ![w] = None]
  /\ walked' = [walked EXCEPT ![w] = 0] /\ tried' = [tried EXCEPT ![w] = 0]
  /\ flow' = [flow EXCEPT ![w] = None] /\ todo' = [todo EXCEPT ![w] = {}]
  /\ UNCHANGED <<status, node, due, steps, tries, stale, desk, did, log>>

\* A finder that throws: nothing between it and drenar catches.  Bound: a run
\* throws MaxFaults + 1 times.
Breaks(w) ==
  /\ OnBlock(w, {"unset"}) /\ cuts[cur[w]] <= MaxFaults
  /\ Abandons(w)
  /\ UNCHANGED faults

\* A deploy, or the database fails under the pass.
Crashes(w) ==
  /\ pc[w] # "idle" /\ faults < MaxFaults
  /\ Abandons(w)
  /\ faults' = faults + 1

-----------------------------------------------------------------------------
Desk == \/ Enable \/ Disable \/ SaveEnds \/ Delete \/ RevokeAccess
        \/ \E g \in Graphs : SaveBegins(g)

Queue == \E r \in Runs : Enqueue(r) \/ WakeElapses(r) \/ LockAges(r) \/ PassDrags(r)

Claims(w) == ClaimReads(w) \/ ClaimStamps(w) \/ ClaimTakes(w) \/ BatchEnds(w)

Picks(w) == \/ \E r \in Runs : SkipsFinished(w, r) \/ Loads(w, r)
            \/ CancelsWhenOff(w) \/ FailsWithoutAccess(w) \/ Starts(w)

Walks(w) == \/ HitsCeiling(w) \/ FallsOff(w) \/ SkipsDisabled(w) \/ Sleeps(w)
            \/ Ends(w) \/ Passes(w) \/ FailsUnknown(w) \/ Succeeds(w)
            \/ ActionFails(w) \/ ActionTears(w)
            \/ BeginsSeeding(w) \/ EndsSeeding(w)
            \/ \E i \in Items : SeedsItem(w, i)

Pass(w) == Claims(w) \/ Picks(w) \/ Walks(w) \/ Breaks(w)

Next == Desk \/ Queue \/ \E w \in Workers : Pass(w) \/ Crashes(w)

Spec == Init /\ [][Next]_vars

\* The sweep comes back every minute and clocks move on; nothing makes the
\* team, a trigger or a fault happen.
Fairness == /\ \A w \in Workers : WF_vars(Pass(w))
            /\ \A r \in Runs : WF_vars(WakeElapses(r)) /\ WF_vars(LockAges(r))

FairSpec == Spec /\ Fairness

-----------------------------------------------------------------------------
(* What the engine promises.                                               *)

\* A run that no fault hit is in the hands of the one process whose lock it
\* carries, and that lock is fresh (claimDue: "dois processos nao carimbam a
\* mesma linha").
Exclusive ==
  \A w \in Workers : \A r \in batch[w] :
    cuts[r] = 0 => lock[r] = w /\ ~stale[r]

\* The step log of a run that no fault hit has one row per block counted in
\* stepsTaken, whichever processes walked it and however often it slept (AU-06).
LogTellsAll ==
  \A r \in Runs :
    cuts[r] = 0 /\ (\A w \in Workers : cur[w] # r) => log[r] = steps[r]

\* A run that no fault hit is tried MaxAttempts times in all, over every block
\* and process it passes, and with the last one it is out of the queue (AU-11).
ThreeStrikes ==
  \A r \in Runs : cuts[r] = 0 =>
    /\ tries[r] <= MaxAttempts
    /\ status[r] \in Open => tries[r] < MaxAttempts

\* Without a fault, no block acts twice for one run: neither sleeping, nor
\* retrying, nor a second process repeats what was done.  For drawings without
\* cycles, edited or not.
EffectsOnce ==
  \A r \in Runs : cuts[r] = 0 => \A n \in Nodes : did[r][n] <= 1

\* With faults, each repeats an effect of the run it hit at most once.  For
\* one process: an abandoned walk and its successor never overlap.
RepeatsOnlyAfterFault ==
  \A r \in Runs : \A n \in Nodes : did[r][n] <= 1 + cuts[r]

\* A run is walked only when the wait it was put to sleep with is over ("quem
\* decide o tempo dela e o bloco de espera que a equipe desenhou").
WaitsAreKept ==
  [][\A w \in Workers : pc[w] = "batch" /\ pc'[w] = "resolve" => due[cur'[w]]]_vars

\* A run that finished or failed never moves again, unless a fault hit it
\* before (a slow owner may still write).
FinishedStands ==
  [][\A r \in Runs : cuts[r] = 0 /\ status[r] \in {"done", "failed"}
        => status'[r] = status[r] /\ did'[r] = did[r]]_vars

\* A run cancelled because the automation was off stays cancelled, even when
\* the automation is turned on again.
CancelledStands ==
  [][\A r \in Runs : status[r] = "cancelled" => status'[r] = "cancelled"]_vars

\* A run leaves a batch because it was walked, or was finished already, or the
\* process crashed ("uma execucao que falha nao interrompe as outras").
OthersAreServed ==
  [][\A w \in Workers : \A r \in batch[w] \ batch'[w] :
        r = cur[w] \/ status[r] \in {"done", "failed"} \/ faults' # faults]_vars

\* Every run ends: crashes, torn actions, waits, retries and a switch that
\* goes on and off do not leave one in the queue for ever.
Settles == \A r \in Runs : status[r] \in Open ~> status[r] \in Final

\* The table as a queue of jobs: what a trigger and a reader of the history
\* see of the engine, whichever processes serve it.
Served(r) == IF status[r] \in Open THEN "open" ELSE status[r]

Abstract == INSTANCE JobQueue WITH Jobs <- Runs, Blocks <- Nodes,
              state <- [r \in Runs |-> Served(r)], effects <- did, hits <- cuts

\* The engine is that queue: a run is opened once, at most one run moves in a
\* step, only an open run (or one whose cancellation crossed a claim) is acted
\* for, and a finished one moves again only after a fault.
IsQueue == Abstract!Spec

-----------------------------------------------------------------------------
(* What the promises rest on: the strengthening that is inductive.         *)

\* The stages of a pass and what it holds in each.
Hands ==
  \A w \in Workers :
    /\ Busy(w) => cur[w] \in batch[w]
    /\ cur[w] # None => Busy(w)
    /\ pc[w] \in {"walk", "seed"} => flow[w] \in Graphs
    /\ pc[w] = "seed" => at[w] # None /\ cur[w] \in Roots /\ ~Exhausted(walked[w])
    /\ batch[w] # {} => pc[w] = "batch" \/ Busy(w)

\* Between the stamp and the read-back a lock of the process is fresh.
StampsAreFresh ==
  \A w \in Workers : \A r \in cand[w] :
    pc[w] = "take" /\ lock[r] = w /\ cuts[r] = 0 => ~stale[r]

\* A run in hand is unfinished, and what was read of it is still so.
HandsAreCurrent ==
  \A w \in Workers : \A r \in Runs :
    Busy(w) /\ cur[w] = r /\ cuts[r] = 0 =>
      /\ status[r] \notin Skipped
      /\ tried[w] = tries[r]
      /\ log[r] = walked[w]
      /\ pc[w] = "resolve" => steps[r] = walked[w]

\* Attempts left until the run is finished, cancelled or not.
AttemptsLeft ==
  \A r \in Runs : cuts[r] = 0 =>
    /\ tries[r] <= MaxAttempts
    /\ status[r] \notin Skipped => tries[r] < MaxAttempts

IInv == TypeOK /\ Hands /\ Exclusive /\ StampsAreFresh /\ HandsAreCurrent
        /\ AttemptsLeft /\ LogTellsAll
=============================================================================
