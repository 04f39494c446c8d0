------------------------ MODULE AutomationRunsProofs ------------------------
(***************************************************************************)
(* The safety of AutomationRuns for every number of processes, runs,       *)
(* drawings and faults: the inductive invariant IInv, and what follows.    *)
(***************************************************************************)
EXTENDS AutomationRuns, TLAPS

\* What the assumptions on Graphs give for one block of one drawing.
LEMMA DrawingFacts ==
  ASSUME NEW g \in Graphs, NEW n \in Nodes
  PROVE  /\ g.start \in Nodes /\ g.nodes \in SUBSET Nodes /\ g # None
         /\ g.kind[n] \in Kinds
         /\ \A p \in Ports : Successor(g, n, p) \in Nodes \cup {None}
BY GraphsAssumption, NamesAssumption DEF Drawing, Successor

\* Writing a row back keeps its columns typed.
LEMMA SavesType ==
  ASSUME RowType, NEW w \in Workers, cur[w] \in Runs,
         NEW st \in {"absent"} \cup Open \cup Final, NEW n \in Nodes \cup {None},
         NEW d \in BOOLEAN, NEW s \in 0 .. MaxSteps, NEW t \in Nat,
         Saves(w, st, n, d, s, t)
  PROVE  RowType'
BY DEF RowType, Saves

\* Putting the run down keeps the pass typed and empties its hands.
LEMMA LetsGoType ==
  ASSUME PassType, Hands, NEW w \in Workers, LetsGo(w)
  PROVE  PassType' /\ Hands'
<1>1. PassType'
  BY CeilingAssumption DEF PassType, LetsGo, Stages
<1>2. Hands'
  BY DEF PassType, Hands, LetsGo, Busy, Stages
<1> QED BY <1>1, <1>2

\* Going on in memory keeps the pass typed: the ceiling was not reached.
LEMMA GoesOnType ==
  ASSUME PassType, Hands, NEW w \in Workers, NEW p \in Ports,
         Reaches(w), GoesOn(w, p)
  PROVE  PassType' /\ Hands'
<1>1. flow[w] \in Graphs /\ at[w] \in Nodes /\ pc[w] = "walk"
  BY DEF PassType, Hands, Reaches
<1>2. Successor(flow[w], at[w], p) \in Nodes \cup {None}
  BY <1>1, DrawingFacts
<1>3. walked[w] + 1 \in 0 .. MaxSteps
  BY CeilingAssumption DEF PassType, Reaches, Exhausted
<1>4. PassType'
  BY <1>2, <1>3 DEF PassType, GoesOn
<1>5. Hands'
  BY <1>1, <1>4 DEF PassType, Hands, GoesOn, Busy
<1> QED BY <1>4, <1>5

\* A run in hand is a run.
LEMMA InHand ==
  ASSUME PassType, Hands, NEW w \in Workers, Busy(w)
  PROVE  cur[w] \in Runs /\ cur[w] \in batch[w]
BY DEF PassType, Hands

-----------------------------------------------------------------------------
(* Type correctness.                                                       *)

LEMMA TypeInit ==
  ASSUME Init
  PROVE  TypeOK /\ Hands
<1>1. RowType BY CeilingAssumption DEF Init, RowType, Open, Final
<1>2. DeskType BY DEF Init, DeskType
<1>3. PassType BY CeilingAssumption DEF Init, PassType, Stages
<1>4. SeenType BY CeilingAssumption DEF Init, SeenType
<1>5. Hands BY DEF Init, Hands, Busy
<1> QED BY <1>1, <1>2, <1>3, <1>4, <1>5 DEF TypeOK

\* What the team does leaves the queue and the passes alone.
LEMMA TypeDesk ==
  ASSUME TypeOK, Hands, Desk
  PROVE  TypeOK' /\ Hands'
<1>1. UNCHANGED <<row, pass, seen>>
  BY DEF Desk, Enable, Disable, SaveBegins, SaveEnds, Delete, RevokeAccess
<1>2. RowType' BY <1>1 DEF TypeOK, RowType, row
<1>3. PassType' /\ Hands' BY <1>1 DEF TypeOK, PassType, Hands, pass, Busy
<1>4. SeenType' BY <1>1 DEF TypeOK, SeenType, seen
<1>5. DeskType'
  BY DEF TypeOK, DeskType, Desk, Enable, Disable, SaveBegins, SaveEnds, Delete,
         RevokeAccess
<1> QED BY <1>2, <1>3, <1>4, <1>5 DEF TypeOK

\* Inserting a run keeps the table typed.
LEMMA InsertType ==
  ASSUME RowType, NEW r \in Runs, NEW n \in Nodes \cup {None}, Insert(r, n)
  PROVE  RowType'
BY DEF RowType, Insert, Open

LEMMA TypeQueue ==
  ASSUME TypeOK, Hands, Queue
  PROVE  TypeOK' /\ Hands'
<1>1. PICK r \in Runs : Enqueue(r) \/ WakeElapses(r) \/ LockAges(r) \/ PassDrags(r)
  BY DEF Queue
<1>2. UNCHANGED <<desk, pass>>
  BY <1>1 DEF Enqueue, WakeElapses, LockAges, PassDrags
<1>3. DeskType' BY <1>2 DEF TypeOK, DeskType, desk
<1>4. PassType' /\ Hands' BY <1>2 DEF TypeOK, PassType, Hands, pass, Busy
<1>5. RowType'
  <2>1. CASE Enqueue(r) BY <2>1, InsertType DEF TypeOK, Enqueue
  <2>2. CASE WakeElapses(r) BY <2>2 DEF TypeOK, RowType, WakeElapses
  <2>3. CASE LockAges(r) BY <2>3 DEF TypeOK, RowType, LockAges
  <2>4. CASE PassDrags(r) BY <2>4 DEF TypeOK, RowType, PassDrags
  <2> QED BY <1>1, <2>1, <2>2, <2>3, <2>4
<1>6. SeenType'
  <2>1. CASE PassDrags(r)
    BY <2>1, CeilingAssumption DEF TypeOK, SeenType, PassDrags
  <2>2. CASE ~PassDrags(r)
    BY <1>1, <2>2 DEF TypeOK, SeenType, seen, Enqueue, WakeElapses, LockAges
  <2> QED BY <2>1, <2>2
<1> QED BY <1>3, <1>4, <1>5, <1>6 DEF TypeOK

LEMMA TypeClaims ==
  ASSUME TypeOK, Hands, NEW w \in Workers, Claims(w)
  PROVE  TypeOK' /\ Hands'
<1>1. UNCHANGED <<desk, seen>>
  BY DEF Claims, ClaimReads, ClaimStamps, ClaimTakes, BatchEnds
<1>2. DeskType' /\ SeenType'
  BY <1>1 DEF TypeOK, DeskType, SeenType, desk, seen
<1>3. CASE ClaimReads(w)
  <2>1. RowType' BY <1>3 DEF TypeOK, RowType, ClaimReads, row
  <2>2. PassType' BY <1>3 DEF TypeOK, PassType, ClaimReads, Claimable, Stages
  <2>3. Hands' BY <1>3 DEF TypeOK, PassType, Hands, ClaimReads, Busy
  <2> QED BY <1>2, <2>1, <2>2, <2>3 DEF TypeOK
<1>4. CASE ClaimStamps(w)
  <2>1. RowType' BY <1>4 DEF TypeOK, RowType, ClaimStamps
  <2>2. PassType' BY <1>4 DEF TypeOK, PassType, ClaimStamps, Stages
  <2>3. Hands' BY <1>4 DEF TypeOK, PassType, Hands, ClaimStamps, Busy
  <2> QED BY <1>2, <2>1, <2>2, <2>3 DEF TypeOK
<1>5. CASE ClaimTakes(w)
  <2>1. RowType' BY <1>5 DEF TypeOK, RowType, ClaimTakes, row
  <2>2. PassType' BY <1>5 DEF TypeOK, PassType, ClaimTakes, Stages
  <2>3. Hands' BY <1>5 DEF TypeOK, PassType, Hands, ClaimTakes, Busy
  <2> QED BY <1>2, <2>1, <2>2, <2>3 DEF TypeOK
<1>6. CASE BatchEnds(w)
  <2>1. RowType' BY <1>6 DEF TypeOK, RowType, BatchEnds, row
  <2>2. PassType' BY <1>6 DEF TypeOK, PassType, BatchEnds, Stages
  <2>3. Hands' BY <1>6 DEF TypeOK, PassType, Hands, BatchEnds, Busy
  <2> QED BY <1>2, <2>1, <2>2, <2>3 DEF TypeOK
<1> QED BY <1>3, <1>4, <1>5, <1>6 DEF Claims

LEMMA TypePicks ==
  ASSUME TypeOK, Hands, NEW w \in Workers, Picks(w)
  PROVE  TypeOK' /\ Hands'
<1>1. UNCHANGED <<desk, seen>>
  BY DEF Picks, SkipsFinished, Loads, CancelsWhenOff, FailsWithoutAccess, Starts
<1>2. DeskType' /\ SeenType'
  BY <1>1 DEF TypeOK, DeskType, SeenType, desk, seen
<1>3. ASSUME NEW r \in Runs, SkipsFinished(w, r) PROVE TypeOK' /\ Hands'
  <2>1. RowType' BY <1>3 DEF TypeOK, RowType, SkipsFinished, row
  <2>2. PassType' BY <1>3 DEF TypeOK, PassType, SkipsFinished
  <2>3. Hands' BY <1>3 DEF TypeOK, PassType, Hands, SkipsFinished, Busy
  <2> QED BY <1>2, <2>1, <2>2, <2>3 DEF TypeOK
<1>4. ASSUME NEW r \in Runs, Loads(w, r) PROVE TypeOK' /\ Hands'
  <2>1. RowType' BY <1>4 DEF TypeOK, RowType, Loads, row
  <2>2. PassType' BY <1>4 DEF TypeOK, RowType, PassType, Loads, Stages
  <2>3. Hands' BY <1>4 DEF TypeOK, PassType, Hands, Loads, Busy
  <2> QED BY <1>2, <2>1, <2>2, <2>3 DEF TypeOK
<1>5. CASE CancelsWhenOff(w) \/ FailsWithoutAccess(w)
  <2>1. PICK st \in Final : Closes(w, st)
    BY <1>5 DEF CancelsWhenOff, FailsWithoutAccess, Final
  <2>2. cur[w] \in Runs
    BY <1>5, InHand DEF TypeOK, CancelsWhenOff, FailsWithoutAccess, Busy
  <2>3. RowType'
    <3>1. /\ node[cur[w]] \in Nodes \cup {None} /\ due[cur[w]] \in BOOLEAN
          /\ steps[cur[w]] \in 0 .. MaxSteps /\ tries[cur[w]] \in Nat
      BY <2>2 DEF TypeOK, RowType
    <3> QED BY <2>1, <2>2, <3>1, SavesType DEF TypeOK, Closes
  <2>4. PassType' /\ Hands' BY <2>1, LetsGoType DEF TypeOK, Closes
  <2> QED BY <1>2, <2>3, <2>4 DEF TypeOK
<1>6. CASE Starts(w)
  <2>1. RowType' BY <1>6 DEF TypeOK, RowType, Starts, row
  <2>2. Entry(graph, at[w]) \in Nodes \cup {None}
    BY GraphsAssumption DEF TypeOK, DeskType, PassType, Entry, Drawing
  <2>3. PassType' BY <1>6, <2>2 DEF TypeOK, DeskType, PassType, Starts, Stages
  <2>4. Hands' BY <1>6 DEF TypeOK, DeskType, PassType, Hands, Starts, Busy
  <2> QED BY <1>2, <2>1, <2>3, <2>4 DEF TypeOK
<1> QED BY <1>3, <1>4, <1>5, <1>6 DEF Picks
-----------------------------------------------------------------------------
(* The walk.                                                               *)

\* What a walking process has in its hands.
LEMMA WalkFacts ==
  ASSUME TypeOK, Hands, NEW w \in Workers, pc[w] \in {"walk", "seed"}
  PROVE  /\ flow[w] \in Graphs /\ Busy(w)
         /\ cur[w] \in Runs /\ cur[w] \in batch[w]
         /\ node[cur[w]] \in Nodes \cup {None} /\ due[cur[w]] \in BOOLEAN
         /\ tries[cur[w]] \in Nat
         /\ at[w] # None => at[w] \in Nodes
         /\ ~Exhausted(walked[w]) => walked[w] + 1 \in 0 .. MaxSteps
         /\ walked[w] \in 0 .. MaxSteps
<1>1. flow[w] \in Graphs /\ Busy(w) BY DEF Hands, Busy
<1>2. cur[w] \in Runs /\ cur[w] \in batch[w] BY <1>1, InHand DEF TypeOK
<1>3. /\ node[cur[w]] \in Nodes \cup {None} /\ due[cur[w]] \in BOOLEAN
      /\ tries[cur[w]] \in Nat
  BY <1>2 DEF TypeOK, RowType
<1>4. /\ at[w] # None => at[w] \in Nodes
      /\ walked[w] \in 0 .. MaxSteps
  BY DEF TypeOK, PassType
<1>5. ~Exhausted(walked[w]) => walked[w] + 1 \in 0 .. MaxSteps
  BY <1>4, CeilingAssumption DEF Exhausted
<1> QED BY <1>1, <1>2, <1>3, <1>4, <1>5

\* Every way a walk ends is a Saves and a LetsGo.
LEMMA StopsType ==
  ASSUME TypeOK, Hands, NEW w \in Workers, cur[w] \in Runs,
         NEW st \in Open \cup Final, NEW n \in Nodes \cup {None},
         NEW d \in BOOLEAN, NEW s \in 0 .. MaxSteps, NEW t \in Nat,
         Saves(w, st, n, d, s, t), LetsGo(w)
  PROVE  RowType' /\ PassType' /\ Hands'
BY SavesType, LetsGoType DEF TypeOK

\* The catch of an action writes the row and stops, or goes on in memory.
LEMMA RecoversType ==
  ASSUME TypeOK, Hands, NEW w \in Workers, OnBlock(w, {"action"}), Recovers(w)
  PROVE  RowType' /\ PassType' /\ Hands'
<1>1. Reaches(w) /\ pc[w] = "walk" /\ at[w] # None /\ ~Exhausted(walked[w])
  BY DEF OnBlock, Reaches
<1>2. /\ cur[w] \in Runs /\ at[w] \in Nodes
      /\ node[cur[w]] \in Nodes \cup {None} /\ due[cur[w]] \in BOOLEAN
      /\ walked[w] + 1 \in 0 .. MaxSteps /\ tried[w] + 1 \in Nat
  BY <1>1, WalkFacts DEF TypeOK, PassType
<1>3. CASE GoesOn(w, "error") /\ UNCHANGED row
  <2>1. RowType' BY <1>3 DEF TypeOK, RowType, row
  <2>2. "error" \in Ports BY DEF Ports
  <2> QED BY <1>1, <1>3, <2>1, <2>2, GoesOnType DEF TypeOK
<1>4. CASE /\ Saves(w, "failed", node[cur[w]], due[cur[w]], walked[w] + 1, tried[w] + 1)
           /\ LetsGo(w)
  <2>1. "failed" \in Open \cup Final BY DEF Final
  <2> QED BY <1>2, <1>4, <2>1, StopsType
<1>5. CASE /\ Saves(w, "pending", at[w], FALSE, walked[w] + 1, tried[w] + 1)
           /\ LetsGo(w)
  <2>1. "pending" \in Open \cup Final BY DEF Open
  <2> QED BY <1>2, <1>5, <2>1, StopsType
<1> QED BY <1>3, <1>4, <1>5 DEF Recovers

\* Effects and log rows are counted.
LEMMA SeenFacts ==
  ASSUME SeenType, NEW w \in Workers, cur[w] \in Runs
  PROVE  /\ Logs(w) => log' \in [Runs -> Nat]
         /\ at[w] \in Nodes /\ Acts(w) => did' \in [Runs -> [Nodes -> Nat]]
<1>1. Logs(w) => log' \in [Runs -> Nat] BY DEF SeenType, Logs
<1>2. at[w] \in Nodes /\ Acts(w) => did' \in [Runs -> [Nodes -> Nat]]
  <2> HAVE at[w] \in Nodes /\ Acts(w)
  <2>1. did[cur[w]] \in [Nodes -> Nat] BY DEF SeenType
  <2>2. [did[cur[w]] EXCEPT ![at[w]] = @ + 1] \in [Nodes -> Nat] BY <2>1
  <2>3. did' = [did EXCEPT ![cur[w]] = [did[cur[w]] EXCEPT ![at[w]] = @ + 1]]
    BY DEF SeenType, Acts
  <2> QED BY <2>2, <2>3 DEF SeenType
<1> QED BY <1>1, <1>2

LEMMA TypeWalks ==
  ASSUME TypeOK, Hands, NEW w \in Workers, Walks(w)
  PROVE  TypeOK' /\ Hands'
<1>a. pc[w] \in {"walk", "seed"} /\ cur[w] \in Runs
  <2>1. pc[w] \in {"walk", "seed"}
    BY DEF Walks, HitsCeiling, FallsOff, SkipsDisabled, Sleeps, Ends, Passes,
           FailsUnknown, Succeeds, ActionFails, ActionTears, BeginsSeeding,
           EndsSeeding, SeedsItem, OnBlock, Reaches
  <2> QED BY <2>1, WalkFacts
<1>b. DeskType'
  <2>1. UNCHANGED desk
    BY DEF Walks, HitsCeiling, FallsOff, SkipsDisabled, Sleeps, Ends, Passes,
           FailsUnknown, Succeeds, ActionFails, ActionTears, BeginsSeeding,
           EndsSeeding, SeedsItem
  <2> QED BY <2>1 DEF TypeOK, DeskType, desk
<1>c. SeenType'
  <2>1. CASE UNCHANGED seen BY <2>1 DEF TypeOK, SeenType, seen
  <2>2. CASE Logs(w) /\ UNCHANGED <<did, cuts, faults>>
    BY <1>a, <2>2, SeenFacts DEF TypeOK, SeenType
  <2>3. CASE Succeeds(w)
    <3>1. at[w] \in Nodes BY <2>3 DEF TypeOK, PassType, Succeeds, OnBlock, Reaches
    <3> QED BY <1>a, <2>3, <3>1, SeenFacts DEF TypeOK, SeenType, Succeeds
  <2>4. CASE ActionTears(w)
    <3>1. cuts' \in [Runs -> Nat] /\ faults' \in 0 .. MaxFaults
      <4>1. cuts' = [cuts EXCEPT ![cur[w]] = cuts[cur[w]] + 1]
        BY <2>4 DEF ActionTears
      <4>3. cuts' \in [Runs -> Nat] BY <1>a, <4>1 DEF TypeOK, SeenType
      <4>2. faults' \in 0 .. MaxFaults
        BY <2>4, CeilingAssumption DEF TypeOK, SeenType, ActionTears
      <4> QED BY <4>3, <4>2
    <3>2. at[w] \in Nodes BY <2>4 DEF TypeOK, PassType, ActionTears, OnBlock, Reaches
    <3> QED BY <1>a, <2>4, <3>1, <3>2, SeenFacts DEF TypeOK, SeenType, ActionTears
  <2> QED
    BY <2>1, <2>2, <2>3, <2>4
    DEF Walks, HitsCeiling, FallsOff, SkipsDisabled, Sleeps, Ends, Passes,
        FailsUnknown, ActionFails, BeginsSeeding, EndsSeeding, SeedsItem
<1>d. RowType' /\ PassType' /\ Hands'
  <2>1. CASE HitsCeiling(w)
    BY <1>a, <2>1, WalkFacts, StopsType DEF HitsCeiling, Final
  <2>2. CASE FallsOff(w)
    BY <1>a, <2>2, WalkFacts, StopsType DEF FallsOff, Final
  <2>3. CASE SkipsDisabled(w)
    <3>1. RowType' BY <2>3 DEF TypeOK, RowType, SkipsDisabled, row
    <3> QED BY <2>3, <3>1, GoesOnType DEF TypeOK, SkipsDisabled, Ports
  <2>4. CASE Sleeps(w)
    <3>1. SleepsAt(flow[w], at[w]) \in Nodes \cup {None}
      BY <1>a, <2>4, WalkFacts, DrawingFacts DEF Sleeps, OnBlock, Reaches, SleepsAt, Ports
    <3> QED BY <1>a, <2>4, <3>1, WalkFacts, StopsType
            DEF Sleeps, OnBlock, Reaches, Open
  <2>5. CASE Ends(w)
    BY <1>a, <2>5, WalkFacts, StopsType DEF Ends, OnBlock, Reaches, Final
  <2>6. CASE Passes(w)
    <3>1. RowType' BY <2>6 DEF TypeOK, RowType, Passes, row
    <3>2. PICK p \in Ports : GoesOn(w, p) /\ Reaches(w)
      BY <2>6 DEF Passes, OnBlock, Ports
    <3> QED BY <3>1, <3>2, GoesOnType DEF TypeOK
  <2>7. CASE FailsUnknown(w)
    BY <1>a, <2>7, WalkFacts, StopsType DEF FailsUnknown, OnBlock, Reaches, Final
  <2>8. CASE Succeeds(w)
    <3>1. RowType' BY <2>8 DEF TypeOK, RowType, Succeeds, row
    <3> QED BY <2>8, <3>1, GoesOnType DEF TypeOK, Succeeds, OnBlock, Ports
  <2>9. CASE ActionFails(w) BY <2>9, RecoversType DEF ActionFails
  <2>10. CASE ActionTears(w) BY <2>10, RecoversType DEF ActionTears
  <2>11. CASE BeginsSeeding(w)
    <3>1. RowType' BY <2>11 DEF TypeOK, RowType, BeginsSeeding, row
    <3>2. PassType' BY <2>11 DEF TypeOK, PassType, BeginsSeeding, Stages
    <3>3. Hands'
      BY <2>11 DEF TypeOK, PassType, Hands, BeginsSeeding, OnBlock, Reaches, Busy
    <3> QED BY <3>1, <3>2, <3>3
  <2>12. CASE EndsSeeding(w)
    <3>1. ~Exhausted(walked[w]) BY <2>12 DEF Hands, EndsSeeding
    <3>2. /\ Saves(w, "done", None, due[cur[w]], walked[w] + 1, tries[cur[w]])
          /\ LetsGo(w)
      BY <2>12 DEF EndsSeeding
    <3>3. /\ due[cur[w]] \in BOOLEAN /\ tries[cur[w]] \in Nat
          /\ walked[w] + 1 \in 0 .. MaxSteps
      BY <1>a, <3>1, WalkFacts
    <3>4. "done" \in Open \cup Final BY DEF Final
    <3> QED BY <1>a, <3>2, <3>3, <3>4, StopsType
  <2>13. ASSUME NEW i \in Items, SeedsItem(w, i) PROVE RowType' /\ PassType' /\ Hands'
    <3>1. PassType' BY <2>13 DEF TypeOK, PassType, SeedsItem
    <3>2. Hands' BY <2>13 DEF TypeOK, PassType, Hands, SeedsItem, Busy
    <3>3. CASE status[<<cur[w], i>>] = "absent"
      <4>1. cur[w] \in Roots /\ at[w] \in Nodes /\ flow[w] \in Graphs
        BY <2>13 DEF TypeOK, PassType, Hands, SeedsItem
      <4>2. Successor(flow[w], at[w], "next") \in Nodes \cup {None}
        BY <4>1, DrawingFacts DEF Ports
      <4>3. <<cur[w], i>> \in Runs BY <4>1 DEF Runs
      <4>4. Insert(<<cur[w], i>>, Successor(flow[w], at[w], "next"))
        BY <2>13, <3>3 DEF SeedsItem
      <4> QED BY <3>1, <3>2, <4>2, <4>3, <4>4, InsertType DEF TypeOK
    <3>4. CASE status[<<cur[w], i>>] # "absent"
      <4>1. RowType' BY <2>13, <3>4 DEF TypeOK, RowType, SeedsItem, row
      <4> QED BY <3>1, <3>2, <4>1
    <3> QED BY <3>3, <3>4
  <2> QED BY <2>1, <2>2, <2>3, <2>4, <2>5, <2>6, <2>7, <2>8, <2>9, <2>10, <2>11,
             <2>12, <2>13 DEF Walks
<1> QED BY <1>b, <1>c, <1>d DEF TypeOK

\* Whatever a pass was doing, leaving it keeps the types.
LEMMA TypeAbandons ==
  ASSUME TypeOK, Hands, NEW w \in Workers, Abandons(w), faults' \in 0 .. MaxFaults
  PROVE  TypeOK' /\ Hands'
<1>1. DeskType' BY DEF TypeOK, DeskType, Abandons, desk
<1>2. RowType' BY DEF TypeOK, RowType, Abandons
<1>3. PassType'
  BY CeilingAssumption DEF TypeOK, PassType, Abandons, Stages
<1>4. SeenType'
  <2>1. cuts' \in [Runs -> Nat] BY DEF TypeOK, SeenType, Abandons
  <2> QED BY <2>1 DEF TypeOK, SeenType, Abandons
<1>5. Hands' BY DEF TypeOK, PassType, Hands, Abandons, Busy
<1> QED BY <1>1, <1>2, <1>3, <1>4, <1>5 DEF TypeOK

LEMMA TypeCrashes ==
  ASSUME TypeOK, Hands, NEW w \in Workers, Crashes(w) \/ Breaks(w)
  PROVE  TypeOK' /\ Hands'
<1>1. faults' \in 0 .. MaxFaults
  BY CeilingAssumption DEF TypeOK, SeenType, Crashes, Breaks
<1> QED BY <1>1, TypeAbandons DEF Crashes, Breaks

LEMMA TypeStep ==
  ASSUME TypeOK, Hands, [Next]_vars
  PROVE  TypeOK' /\ Hands'
<1>1. CASE Desk BY <1>1, TypeDesk
<1>2. CASE Queue BY <1>2, TypeQueue
<1>3. ASSUME NEW w \in Workers, Pass(w) PROVE TypeOK' /\ Hands'
  BY <1>3, TypeClaims, TypePicks, TypeWalks, TypeCrashes DEF Pass
<1>4. ASSUME NEW w \in Workers, Crashes(w) PROVE TypeOK' /\ Hands'
  BY <1>4, TypeCrashes
<1>5. CASE UNCHANGED vars
  <2>1. UNCHANGED <<row, desk, pass, seen>> BY <1>5 DEF vars
  <2>2. RowType' /\ DeskType' BY <2>1 DEF TypeOK, RowType, DeskType, row, desk
  <2>3. PassType' /\ Hands' BY <2>1 DEF TypeOK, PassType, Hands, pass, Busy
  <2>4. SeenType' BY <2>1 DEF TypeOK, SeenType, seen
  <2> QED BY <2>2, <2>3, <2>4 DEF TypeOK
<1> QED BY <1>1, <1>2, <1>3, <1>4, <1>5 DEF Next

\* Whatever processes, drawings and faults there are: no walk counts past the
\* ceiling, and every row, switch and local variable keeps its kind.
THEOREM TypeCorrect == Spec => []TypeOK
<1>1. Init => TypeOK /\ Hands BY TypeInit
<1>2. TypeOK /\ Hands /\ [Next]_vars => TypeOK' /\ Hands' BY TypeStep
<1> QED BY <1>1, <1>2, PTL DEF Spec

-----------------------------------------------------------------------------
(* Safety.  A step touches the row of the run its process holds, and with  *)
(* no fault nobody else holds it.                                          *)

Safe == Exclusive /\ StampsAreFresh /\ HandsAreCurrent /\ AttemptsLeft /\ LogTellsAll

LEMMA SoleHolder ==
  ASSUME Exclusive, NEW v \in Workers, NEW w \in Workers, NEW r \in batch[v],
         r \in batch[w], cuts[r] = 0
  PROVE  v = w
BY DEF Exclusive

LEMMA SafeInit ==
  ASSUME Init
  PROVE  Safe
<1>1. Exclusive /\ StampsAreFresh BY DEF Init, Exclusive, StampsAreFresh
<1>2. HandsAreCurrent BY DEF Init, HandsAreCurrent, Busy
<1>3. AttemptsLeft BY CeilingAssumption DEF Init, AttemptsLeft
<1>4. LogTellsAll BY DEF Init, LogTellsAll
<1> QED BY <1>1, <1>2, <1>3, <1>4 DEF Safe

\* A process that writes its run back and lets go, with the attempts and steps
\* it really counted, breaks nothing.
LEMMA StopsSafe ==
  ASSUME TypeOK, Hands, Safe, NEW w \in Workers, Busy(w),
         NEW st, NEW n, NEW d, NEW s, NEW t, Saves(w, st, n, d, s, t), LetsGo(w),
         \A q \in Runs : cuts'[q] = 0 => cuts[q] = 0,
         \A q \in Runs \ {cur[w]} : log'[q] = log[q],
         cuts[cur[w]] = 0 /\ cuts'[cur[w]] = 0 =>
           /\ t <= MaxAttempts
           /\ st \notin Skipped => t < MaxAttempts
           /\ log'[cur[w]] = s
  PROVE  Safe'
<1> DEFINE r == cur[w]
<1>1. r \in Runs /\ r \in batch[w] /\ r # None
  BY InHand, RunsAssumption DEF TypeOK
<1>2. ASSUME NEW v \in Workers, NEW q \in batch'[v], cuts'[q] = 0
      PROVE  q \in Runs /\ q # r /\ q \in batch[v] /\ cuts[q] = 0
  <2>1. q \in batch[v] /\ q \in Runs BY <1>2 DEF TypeOK, PassType, LetsGo
  <2>2. cuts[q] = 0 BY <1>2, <2>1
  <2>3. q # r
    BY <1>1, <1>2, <2>1, <2>2, SoleHolder DEF Safe, TypeOK, PassType, LetsGo
  <2> QED BY <2>1, <2>2, <2>3
<1>3. ASSUME NEW q \in Runs, q # r
      PROVE  /\ status'[q] = status[q] /\ steps'[q] = steps[q]
             /\ tries'[q] = tries[q] /\ lock'[q] = lock[q] /\ stale'[q] = stale[q]
             /\ log'[q] = log[q]
  BY <1>3 DEF TypeOK, RowType, Saves
<1>4. ASSUME NEW v \in Workers
      PROVE  /\ v # w => /\ pc'[v] = pc[v] /\ cur'[v] = cur[v] /\ batch'[v] = batch[v]
                         /\ tried'[v] = tried[v] /\ walked'[v] = walked[v]
             /\ cand'[v] = cand[v]
             /\ pc'[w] = "batch" /\ cur'[w] = None
  BY DEF TypeOK, PassType, LetsGo
<1>5. Exclusive' BY <1>2, <1>3 DEF Safe, Exclusive
<1>6. StampsAreFresh'
  <2> SUFFICES ASSUME NEW v \in Workers, NEW q \in cand'[v],
                      pc'[v] = "take", lock'[q] = v, cuts'[q] = 0
               PROVE  ~stale'[q]
    BY DEF StampsAreFresh
  <2>1. q \in cand[v] /\ q \in Runs /\ pc[v] = "take" BY <1>4 DEF TypeOK, PassType
  <2>2. q # r BY <1>1, NamesAssumption DEF TypeOK, RowType, Saves
  <2> QED BY <1>3, <2>1, <2>2 DEF Safe, StampsAreFresh
<1>7. HandsAreCurrent'
  <2> SUFFICES ASSUME NEW v \in Workers, NEW q \in Runs,
                      Busy(v)', cur'[v] = q, cuts'[q] = 0
               PROVE  /\ status'[q] \notin Skipped /\ tried'[v] = tries'[q]
                      /\ log'[q] = walked'[v]
                      /\ pc'[v] = "resolve" => steps'[q] = walked'[v]
    BY DEF HandsAreCurrent
  <2>1. v # w /\ Busy(v) /\ cur[v] = q BY <1>4 DEF Busy
  <2>2. q \in batch'[v] BY <1>4, <2>1 DEF Hands
  <2>3. q # r /\ cuts[q] = 0 BY <1>2, <2>2
  <2> QED BY <1>3, <1>4, <2>1, <2>3 DEF Safe, HandsAreCurrent
<1>8. AttemptsLeft'
  <2> SUFFICES ASSUME NEW q \in Runs, cuts'[q] = 0
               PROVE  /\ tries'[q] <= MaxAttempts
                      /\ status'[q] \notin Skipped => tries'[q] < MaxAttempts
    BY DEF AttemptsLeft
  <2>1. cuts[q] = 0 OBVIOUS
  <2>2. CASE q = r BY <1>1, <2>1, <2>2 DEF TypeOK, RowType, Saves
  <2>3. CASE q # r BY <1>3, <2>1, <2>3 DEF Safe, AttemptsLeft
  <2> QED BY <2>2, <2>3
<1>9. LogTellsAll'
  <2> SUFFICES ASSUME NEW q \in Runs, cuts'[q] = 0, \A v \in Workers : cur'[v] # q
               PROVE  log'[q] = steps'[q]
    BY DEF LogTellsAll
  <2>1. cuts[q] = 0 OBVIOUS
  <2>2. CASE q = r BY <1>1, <2>1, <2>2 DEF TypeOK, RowType, Saves
  <2>3. CASE q # r
    <3>1. \A v \in Workers : cur[v] # q BY <1>4, <2>3
    <3> QED BY <1>3, <2>1, <2>3, <3>1 DEF Safe, LogTellsAll
  <2> QED BY <2>2, <2>3
<1> QED BY <1>5, <1>6, <1>7, <1>8, <1>9 DEF Safe
\* A step over a block in memory counts it in the log and in the walk.
LEMMA GoesOnSafe ==
  ASSUME TypeOK, Hands, Safe, NEW w \in Workers, NEW p \in Ports,
         pc[w] = "walk", GoesOn(w, p), Logs(w), UNCHANGED row,
         \A q \in Runs : cuts'[q] = 0 => cuts[q] = 0
  PROVE  Safe'
<1>1. cur[w] \in Runs /\ cur[w] \in batch[w] BY WalkFacts
<1>2. UNCHANGED <<status, steps, tries, lock, stale, pc, cand, batch, cur, tried>>
  BY DEF GoesOn, row
<1>3. Exclusive' BY <1>2 DEF Safe, Exclusive, TypeOK, PassType
<1>4. StampsAreFresh' BY <1>2 DEF Safe, StampsAreFresh, TypeOK, PassType
<1>5. AttemptsLeft' BY <1>2 DEF Safe, AttemptsLeft
<1>6. LogTellsAll'
  BY <1>1, <1>2 DEF Safe, LogTellsAll, Logs, TypeOK, SeenType
<1>7. HandsAreCurrent'
  <2> SUFFICES ASSUME NEW v \in Workers, NEW q \in Runs,
                      Busy(v), cur[v] = q, cuts'[q] = 0
               PROVE  /\ status[q] \notin Skipped /\ tried[v] = tries[q]
                      /\ log'[q] = walked'[v]
                      /\ pc[v] = "resolve" => steps[q] = walked'[v]
    BY <1>2 DEF HandsAreCurrent, Busy
  <2>1. cuts[q] = 0 OBVIOUS
  <2>2. CASE v = w
    <3>1. log'[q] = log[q] + 1 /\ walked'[v] = walked[v] + 1
      BY <1>1, <2>2 DEF Logs, GoesOn, TypeOK, SeenType, PassType
    <3>2. pc[v] # "resolve" BY <2>2
    <3> QED BY <2>1, <3>1, <3>2 DEF Safe, HandsAreCurrent
  <2>3. CASE v # w
    <3>1. q # cur[w] BY <1>1, <2>1, <2>3, SoleHolder DEF Safe, Hands
    <3>2. log'[q] = log[q] /\ walked'[v] = walked[v]
      BY <2>3, <3>1 DEF Logs, GoesOn, TypeOK, SeenType, PassType
    <3> QED BY <2>1, <3>2 DEF Safe, HandsAreCurrent
  <2> QED BY <2>2, <2>3
<1> QED BY <1>3, <1>4, <1>5, <1>6, <1>7 DEF Safe

\* Safe says nothing of the desk, of nodes, of due or of effects.
LEMMA SafeStutters ==
  ASSUME TypeOK, Safe,
         UNCHANGED <<status, steps, tries, lock, stale, pc, cand, batch, cur,
                     walked, tried, log, cuts>>
  PROVE  Safe'
<1>1. Exclusive' /\ StampsAreFresh' BY DEF Safe, Exclusive, StampsAreFresh
<1>2. HandsAreCurrent' BY DEF Safe, HandsAreCurrent, Busy
<1>3. AttemptsLeft' BY DEF Safe, AttemptsLeft
<1>4. LogTellsAll' BY DEF Safe, LogTellsAll
<1> QED BY <1>1, <1>2, <1>3, <1>4 DEF Safe

\* A run that appears has had no attempt, for an absent one is not finished.
LEMMA InsertSafe ==
  ASSUME TypeOK, Safe, NEW r \in Runs, NEW n, status[r] = "absent", Insert(r, n),
         UNCHANGED <<pc, cand, batch, cur, walked, tried, log, cuts>>
  PROVE  Safe'
<1>1. UNCHANGED <<steps, tries, lock, stale>> BY DEF Insert
<1>2. \A q \in Runs : status'[q] \notin Skipped <=> status[q] \notin Skipped
  BY DEF Insert, TypeOK, RowType, Skipped
<1>3. Exclusive' /\ StampsAreFresh' BY <1>1 DEF Safe, Exclusive, StampsAreFresh
<1>4. HandsAreCurrent' BY <1>1, <1>2 DEF Safe, HandsAreCurrent, Busy
<1>5. AttemptsLeft' BY <1>1, <1>2 DEF Safe, AttemptsLeft
<1>6. LogTellsAll' BY <1>1 DEF Safe, LogTellsAll
<1> QED BY <1>3, <1>4, <1>5, <1>6 DEF Safe

LEMMA SafeDesk ==
  ASSUME TypeOK, Safe, Desk
  PROVE  Safe'
<1>1. UNCHANGED <<row, pass, seen>>
  BY DEF Desk, Enable, Disable, SaveBegins, SaveEnds, Delete, RevokeAccess
<1> QED BY <1>1, SafeStutters DEF row, pass, seen

LEMMA SafeQueue ==
  ASSUME TypeOK, Hands, Safe, Queue
  PROVE  Safe'
<1>1. PICK r \in Runs : Enqueue(r) \/ WakeElapses(r) \/ LockAges(r) \/ PassDrags(r)
  BY DEF Queue
<1>2. CASE Enqueue(r)
  <2>1. UNCHANGED <<pc, cand, batch, cur, walked, tried, log, cuts>>
    BY <1>2 DEF Enqueue, pass, seen
  <2> QED BY <1>2, <2>1, InsertSafe DEF Enqueue
<1>3. CASE WakeElapses(r)
  BY <1>3, SafeStutters DEF WakeElapses, pass, seen
<1>4. CASE LockAges(r)
  <2>1. UNCHANGED <<status, steps, tries, lock, pc, cand, batch, cur, walked, tried,
                    log, cuts>>
    BY <1>4 DEF LockAges, pass, seen
  <2>2. \A q \in Runs \ {r} : stale'[q] = stale[q]
    BY <1>4 DEF LockAges, TypeOK, RowType
  <2>3. Exclusive'
    BY <1>4, <2>1, <2>2 DEF Safe, Exclusive, LockAges, Held, TypeOK, PassType
  <2>4. StampsAreFresh'
    BY <1>4, <2>1, <2>2 DEF Safe, StampsAreFresh, LockAges, Held, TypeOK, PassType
  <2>5. HandsAreCurrent' BY <2>1 DEF Safe, HandsAreCurrent, Busy
  <2>6. AttemptsLeft' BY <2>1 DEF Safe, AttemptsLeft
  <2>7. LogTellsAll' BY <2>1 DEF Safe, LogTellsAll
  <2> QED BY <2>3, <2>4, <2>5, <2>6, <2>7 DEF Safe
<1>5. CASE PassDrags(r)
  <2>1. UNCHANGED <<status, steps, tries, lock, pc, cand, batch, cur, walked, tried, log>>
    BY <1>5 DEF PassDrags, pass
  <2>2. /\ \A q \in Runs \ {r} : stale'[q] = stale[q] /\ cuts'[q] = cuts[q]
        /\ cuts'[r] # 0
    BY <1>5 DEF PassDrags, TypeOK, RowType, SeenType
  <2>3. Exclusive' BY <2>1, <2>2 DEF Safe, Exclusive, TypeOK, PassType
  <2>4. StampsAreFresh' BY <2>1, <2>2 DEF Safe, StampsAreFresh, TypeOK, PassType
  <2>5. HandsAreCurrent' BY <2>1, <2>2 DEF Safe, HandsAreCurrent, Busy
  <2>6. AttemptsLeft' BY <2>1, <2>2 DEF Safe, AttemptsLeft
  <2>7. LogTellsAll' BY <2>1, <2>2 DEF Safe, LogTellsAll
  <2> QED BY <2>3, <2>4, <2>5, <2>6, <2>7 DEF Safe
<1> QED BY <1>1, <1>2, <1>3, <1>4, <1>5
LEMMA SafeClaims ==
  ASSUME TypeOK, Hands, Safe, NEW w \in Workers, Claims(w)
  PROVE  Safe'
<1>1. UNCHANGED <<status, steps, tries, cur, walked, tried, log, cuts>>
  BY DEF Claims, ClaimReads, ClaimStamps, ClaimTakes, BatchEnds, row, seen
<1>2. ~Busy(w) /\ ~Busy(w)'
  BY DEF Claims, ClaimReads, ClaimStamps, ClaimTakes, BatchEnds, Busy, TypeOK, PassType
<1>3. \A v \in Workers \ {w} : pc'[v] = pc[v] /\ cand'[v] = cand[v] /\ batch'[v] = batch[v]
  BY DEF Claims, ClaimReads, ClaimStamps, ClaimTakes, BatchEnds, TypeOK, PassType
<1>4. HandsAreCurrent' BY <1>1, <1>2, <1>3 DEF Safe, HandsAreCurrent, Busy
<1>5. AttemptsLeft' /\ LogTellsAll' BY <1>1 DEF Safe, AttemptsLeft, LogTellsAll
<1>6. Exclusive' /\ StampsAreFresh'
  <2>1. CASE ClaimReads(w)
    <3>1. UNCHANGED <<lock, stale, batch>> /\ pc'[w] = "stamp"
      BY <2>1 DEF ClaimReads, row, TypeOK, PassType
    <3>2. Exclusive' BY <1>1, <3>1 DEF Safe, Exclusive
    <3>3. StampsAreFresh' BY <1>1, <1>3, <3>1 DEF Safe, StampsAreFresh
    <3> QED BY <3>2, <3>3
  <2>2. CASE ClaimStamps(w)
    <3>1. /\ UNCHANGED <<cand, batch>> /\ batch[w] = {}
          /\ \A q \in Runs : ~(q \in cand[w] /\ Free(q)) =>
                lock'[q] = lock[q] /\ stale'[q] = stale[q]
          /\ \A q \in Runs : q \in cand[w] /\ Free(q) => lock'[q] = w /\ ~stale'[q]
      BY <2>2 DEF ClaimStamps, Stampable, Hands, Busy, TypeOK, RowType
    <3>2. Exclusive'
      <4> SUFFICES ASSUME NEW v \in Workers, NEW q \in batch[v], cuts[q] = 0
                   PROVE  lock'[q] = v /\ ~stale'[q]
        BY <1>1, <3>1 DEF Exclusive
      <4>1. lock[q] = v /\ ~stale[q] /\ q \in Runs
        BY DEF Safe, Exclusive, TypeOK, PassType
      <4>2. ~Free(q) BY <4>1, NamesAssumption DEF Free
      <4> QED BY <3>1, <4>1, <4>2
    <3>3. StampsAreFresh'
      <4> SUFFICES ASSUME NEW v \in Workers, NEW q \in cand[v],
                          pc'[v] = "take", lock'[q] = v, cuts[q] = 0
                   PROVE  ~stale'[q]
        BY <1>1, <3>1 DEF StampsAreFresh
      <4>1. q \in Runs BY DEF TypeOK, PassType
      <4>2. CASE q \in cand[w] /\ Free(q) BY <3>1, <4>1, <4>2
      <4>3. CASE ~(q \in cand[w] /\ Free(q)) /\ v = w
        BY <3>1, <4>1, <4>3 DEF Free
      <4>4. CASE ~(q \in cand[w] /\ Free(q)) /\ v # w
        BY <1>3, <3>1, <4>1, <4>4 DEF Safe, StampsAreFresh
      <4> QED BY <4>2, <4>3, <4>4
    <3> QED BY <3>2, <3>3
  <2>3. CASE ClaimTakes(w)
    <3>1. /\ UNCHANGED <<lock, stale>> /\ pc[w] = "take" /\ pc'[w] = "batch"
          /\ batch'[w] = {q \in cand[w] : lock[q] = w} /\ cand'[w] = {}
      BY <2>3 DEF ClaimTakes, row, TypeOK, PassType
    <3>2. Exclusive' BY <1>1, <1>3, <3>1 DEF Safe, Exclusive, StampsAreFresh
    <3>3. StampsAreFresh' BY <1>1, <1>3, <3>1 DEF Safe, StampsAreFresh
    <3> QED BY <3>2, <3>3
  <2>4. CASE BatchEnds(w)
    <3>1. UNCHANGED <<lock, stale, batch, cand>> /\ pc'[w] = "idle"
      BY <2>4 DEF BatchEnds, row, TypeOK, PassType
    <3>2. Exclusive' BY <1>1, <3>1 DEF Safe, Exclusive
    <3>3. StampsAreFresh' BY <1>1, <1>3, <3>1 DEF Safe, StampsAreFresh
    <3> QED BY <3>2, <3>3
  <2> QED BY <2>1, <2>2, <2>3, <2>4 DEF Claims
<1> QED BY <1>4, <1>5, <1>6 DEF Safe

LEMMA SafePicks ==
  ASSUME TypeOK, Hands, Safe, NEW w \in Workers, Picks(w)
  PROVE  Safe'
<1>1. ASSUME NEW r \in Runs, SkipsFinished(w, r) PROVE Safe'
  <2>1. UNCHANGED <<status, steps, tries, lock, stale, pc, cand, cur, walked, tried,
                    log, cuts>>
    BY <1>1 DEF SkipsFinished, row, seen
  <2>2. \A v \in Workers : batch'[v] \in SUBSET batch[v]
    BY <1>1 DEF SkipsFinished, TypeOK, PassType
  <2>3. Exclusive' BY <2>1, <2>2 DEF Safe, Exclusive
  <2>4. StampsAreFresh' BY <2>1 DEF Safe, StampsAreFresh
  <2>5. HandsAreCurrent' BY <2>1 DEF Safe, HandsAreCurrent, Busy
  <2>6. AttemptsLeft' /\ LogTellsAll' BY <2>1 DEF Safe, AttemptsLeft, LogTellsAll
  <2> QED BY <2>3, <2>4, <2>5, <2>6 DEF Safe
<1>2. ASSUME NEW r \in Runs, Loads(w, r) PROVE Safe'
  <2>1. UNCHANGED <<status, steps, tries, lock, stale, cand, batch, log, cuts>>
    BY <1>2 DEF Loads, row, seen
  <2>2. /\ pc[w] = "batch" /\ pc'[w] = "resolve" /\ cur'[w] = r /\ r \in batch[w]
        /\ walked'[w] = steps[r] /\ tried'[w] = tries[r] /\ status[r] \notin Skipped
    BY <1>2 DEF Loads, TypeOK, PassType
  <2>3. \A v \in Workers \ {w} : /\ pc'[v] = pc[v] /\ cur'[v] = cur[v]
                               /\ walked'[v] = walked[v] /\ tried'[v] = tried[v]
    BY <1>2 DEF Loads, TypeOK, PassType
  <2>4. Exclusive' BY <2>1 DEF Safe, Exclusive
  <2>5. StampsAreFresh' BY <2>1, <2>2, <2>3 DEF Safe, StampsAreFresh
  <2>6. AttemptsLeft' BY <2>1 DEF Safe, AttemptsLeft
  <2>7. cur[w] = None BY <2>2 DEF Hands, Busy
  <2>8. LogTellsAll'
    <3> SUFFICES ASSUME NEW q \in Runs, cuts[q] = 0, \A v \in Workers : cur'[v] # q
                 PROVE  log[q] = steps[q]
      BY <2>1 DEF LogTellsAll
    <3>1. \A v \in Workers : cur[v] # q BY <2>3, <2>7, RunsAssumption
    <3> QED BY <3>1 DEF Safe, LogTellsAll
  <2>9. HandsAreCurrent'
    <3>1. cuts[r] = 0 => log[r] = steps[r]
      <4> HAVE cuts[r] = 0
      <4>1. \A v \in Workers : cur[v] # r
        <5> SUFFICES ASSUME NEW v \in Workers, cur[v] = r PROVE FALSE
          OBVIOUS
        <5>1. r \in batch[v] /\ v # w BY <2>7, RunsAssumption DEF Hands
        <5> QED BY <2>2, <5>1, SoleHolder DEF Safe
      <4> QED BY <4>1 DEF Safe, LogTellsAll
    <3> QED BY <2>1, <2>2, <2>3, <3>1 DEF Safe, HandsAreCurrent, Busy
  <2> QED BY <2>4, <2>5, <2>6, <2>8, <2>9 DEF Safe
<1>3. CASE CancelsWhenOff(w) \/ FailsWithoutAccess(w)
  <2>1. pc[w] = "resolve" /\ Busy(w) /\ UNCHANGED <<log, cuts>>
    BY <1>3 DEF CancelsWhenOff, FailsWithoutAccess, seen, Busy
  <2>2. cur[w] \in Runs BY <2>1, InHand DEF TypeOK
  <2>3. cuts[cur[w]] = 0 =>
          /\ tries[cur[w]] < MaxAttempts /\ tries[cur[w]] <= MaxAttempts
          /\ log'[cur[w]] = steps[cur[w]]
    BY <2>1, <2>2 DEF Safe, HandsAreCurrent, AttemptsLeft
  <2>4. PICK st \in Final : Closes(w, st)
    BY <1>3 DEF CancelsWhenOff, FailsWithoutAccess, Final
  <2>5. /\ Saves(w, st, node[cur[w]], due[cur[w]], steps[cur[w]], tries[cur[w]])
        /\ LetsGo(w)
    BY <2>4 DEF Closes
  <2> QED BY <2>1, <2>3, <2>5, StopsSafe
<1>4. CASE Starts(w)
  <2>1. UNCHANGED <<status, steps, tries, lock, stale, cand, batch, cur, walked, tried,
                    log, cuts>>
    BY <1>4 DEF Starts, row, seen
  <2>2. /\ pc[w] = "resolve" /\ pc'[w] = "walk"
        /\ \A v \in Workers \ {w} : pc'[v] = pc[v]
    BY <1>4 DEF Starts, TypeOK, PassType
  <2>3. Exclusive' BY <2>1 DEF Safe, Exclusive
  <2>4. StampsAreFresh' BY <2>1, <2>2 DEF Safe, StampsAreFresh
  <2>5. HandsAreCurrent' BY <2>1, <2>2 DEF Safe, HandsAreCurrent, Busy
  <2>6. AttemptsLeft' /\ LogTellsAll' BY <2>1 DEF Safe, AttemptsLeft, LogTellsAll
  <2> QED BY <2>3, <2>4, <2>5, <2>6 DEF Safe
<1> QED BY <1>1, <1>2, <1>3, <1>4 DEF Picks

\* A run whose walk is left counts as hit; the rest of the batch keeps a lock
\* that is nobody's.
LEMMA SafeAbandons ==
  ASSUME TypeOK, Hands, Safe, NEW w \in Workers, Abandons(w)
  PROVE  Safe'
<1>1. UNCHANGED <<status, steps, tries, stale, log>> BY DEF Abandons
<1>2. \A q \in Runs : cuts'[q] = 0 => cuts[q] = 0 /\ ~(Busy(w) /\ cur[w] = q)
  BY DEF Abandons, TypeOK, SeenType
<1>3. /\ \A q \in Runs : lock'[q] = IF lock[q] = w THEN Gone ELSE lock[q]
      /\ batch'[w] = {} /\ cand'[w] = {} /\ cur'[w] = None /\ pc'[w] = "idle"
      /\ \A v \in Workers \ {w} :
           /\ pc'[v] = pc[v] /\ cand'[v] = cand[v] /\ batch'[v] = batch[v]
           /\ cur'[v] = cur[v] /\ walked'[v] = walked[v] /\ tried'[v] = tried[v]
  BY DEF Abandons, TypeOK, PassType
<1>4. Exclusive'
  BY <1>1, <1>2, <1>3 DEF Safe, Exclusive, TypeOK, PassType
<1>5. StampsAreFresh'
  BY <1>1, <1>2, <1>3, NamesAssumption DEF Safe, StampsAreFresh, TypeOK, PassType
<1>6. HandsAreCurrent' BY <1>1, <1>2, <1>3 DEF Safe, HandsAreCurrent, Busy
<1>7. AttemptsLeft' BY <1>1, <1>2 DEF Safe, AttemptsLeft
<1>8. LogTellsAll'
  <2> SUFFICES ASSUME NEW q \in Runs, cuts'[q] = 0, \A v \in Workers : cur'[v] # q
               PROVE  log[q] = steps[q]
    BY <1>1 DEF LogTellsAll
  <2>1. cur[w] # q BY <1>2, RunsAssumption DEF Hands
  <2>2. \A v \in Workers : cur[v] # q BY <1>3, <2>1
  <2> QED BY <1>2, <2>2 DEF Safe, LogTellsAll
<1> QED BY <1>4, <1>5, <1>6, <1>7, <1>8 DEF Safe

\* What a walking process knows of its run: nobody else touched it.
LEMMA HandFacts ==
  ASSUME TypeOK, Hands, Safe, NEW w \in Workers, pc[w] \in {"walk", "seed"}
  PROVE  /\ cur[w] \in Runs /\ Busy(w)
         /\ cuts[cur[w]] = 0 =>
              /\ log[cur[w]] = walked[w] /\ tried[w] = tries[cur[w]]
              /\ tries[cur[w]] < MaxAttempts /\ tries[cur[w]] <= MaxAttempts
         /\ Logs(w) => /\ log'[cur[w]] = log[cur[w]] + 1
                       /\ \A q \in Runs \ {cur[w]} : log'[q] = log[q]
<1>1. cur[w] \in Runs /\ Busy(w) BY WalkFacts
<1>2. cuts[cur[w]] = 0 =>
        /\ log[cur[w]] = walked[w] /\ tried[w] = tries[cur[w]]
        /\ status[cur[w]] \notin Skipped
  BY <1>1 DEF Safe, HandsAreCurrent
<1>3. cuts[cur[w]] = 0 =>
        tries[cur[w]] < MaxAttempts /\ tries[cur[w]] <= MaxAttempts
  BY <1>1, <1>2 DEF Safe, AttemptsLeft
<1>4. Logs(w) => /\ log'[cur[w]] = log[cur[w]] + 1
                 /\ \A q \in Runs \ {cur[w]} : log'[q] = log[q]
  BY <1>1 DEF Logs, TypeOK, SeenType
<1> QED BY <1>1, <1>2, <1>3, <1>4

\* The catch of an action keeps count of attempts and steps.
LEMMA RecoversSafe ==
  ASSUME TypeOK, Hands, Safe, NEW w \in Workers, OnBlock(w, {"action"}),
         Recovers(w), Logs(w), \A q \in Runs : cuts'[q] = 0 => cuts[q] = 0
  PROVE  Safe'
<1>1. pc[w] = "walk" BY DEF OnBlock, Reaches
<1>2. /\ Busy(w) /\ tried[w] \in Nat /\ MaxAttempts \in Nat
      /\ \A q \in Runs \ {cur[w]} : log'[q] = log[q]
      /\ cuts[cur[w]] = 0 => log'[cur[w]] = walked[w] + 1 /\ tried[w] < MaxAttempts
  BY <1>1, HandFacts, CeilingAssumption DEF TypeOK, PassType
<1>3. CASE GoesOn(w, "error") /\ UNCHANGED row
  BY <1>1, <1>3, GoesOnSafe DEF Ports
<1>4. CASE /\ Saves(w, "failed", node[cur[w]], due[cur[w]], walked[w] + 1, tried[w] + 1)
           /\ LetsGo(w)
  <2>1. cuts[cur[w]] = 0 => /\ tried[w] + 1 <= MaxAttempts
                            /\ "failed" \notin Skipped => tried[w] + 1 < MaxAttempts
    BY <1>2 DEF Skipped
  <2> QED BY <1>2, <1>4, <2>1, StopsSafe
<1>5. CASE /\ ~GivesUp(tried[w] + 1)
           /\ Saves(w, "pending", at[w], FALSE, walked[w] + 1, tried[w] + 1)
           /\ LetsGo(w)
  <2>1. tried[w] + 1 < MaxAttempts /\ tried[w] + 1 <= MaxAttempts
    BY <1>2, <1>5 DEF GivesUp
  <2> QED BY <1>2, <1>5, <2>1, StopsSafe
<1> QED BY <1>3, <1>4, <1>5 DEF Recovers

LEMMA SafeWalks ==
  ASSUME TypeOK, Hands, Safe, NEW w \in Workers, Walks(w)
  PROVE  Safe'
<1>a. \A q \in Runs : cuts'[q] = 0 => cuts[q] = 0
  <2>1. CASE UNCHANGED cuts BY <2>1
  <2>2. CASE ActionTears(w) BY <2>2 DEF ActionTears, TypeOK, SeenType
  <2> QED
    BY <2>1, <2>2
    DEF Walks, HitsCeiling, FallsOff, SkipsDisabled, Sleeps, Ends, Passes,
        FailsUnknown, Succeeds, ActionFails, BeginsSeeding, EndsSeeding, SeedsItem, seen
<1>1. CASE HitsCeiling(w)
  <2>1. pc[w] = "walk" /\ UNCHANGED <<log, cuts>> BY <1>1 DEF HitsCeiling, seen
  <2> QED BY <1>1, <2>1, HandFacts, StopsSafe DEF HitsCeiling
<1>2. CASE FallsOff(w)
  <2>1. pc[w] = "walk" /\ UNCHANGED <<log, cuts>> BY <1>2 DEF FallsOff, seen
  <2> QED BY <1>2, <2>1, HandFacts, StopsSafe DEF FallsOff
<1>3. CASE SkipsDisabled(w)
  BY <1>a, <1>3, GoesOnSafe DEF SkipsDisabled, Reaches, Ports
<1>4. CASE Sleeps(w)
  <2>1. pc[w] = "walk" BY <1>4 DEF Sleeps, OnBlock, Reaches
  <2> QED BY <1>a, <1>4, <2>1, HandFacts, StopsSafe DEF Sleeps
<1>5. CASE Ends(w)
  <2>1. pc[w] = "walk" BY <1>5 DEF Ends, OnBlock, Reaches
  <2> QED BY <1>a, <1>5, <2>1, HandFacts, StopsSafe DEF Ends
<1>6. CASE Passes(w)
  <2>1. PICK p \in Ports : GoesOn(w, p) BY <1>6 DEF Passes, Ports
  <2>2. pc[w] = "walk" BY <1>6 DEF Passes, OnBlock, Reaches
  <2> QED BY <1>a, <1>6, <2>1, <2>2, GoesOnSafe DEF Passes
<1>7. CASE FailsUnknown(w)
  <2>1. pc[w] = "walk" BY <1>7 DEF FailsUnknown, OnBlock, Reaches
  <2> QED BY <1>a, <1>7, <2>1, HandFacts, StopsSafe DEF FailsUnknown
<1>8. CASE Succeeds(w)
  BY <1>a, <1>8, GoesOnSafe DEF Succeeds, OnBlock, Reaches, Ports
<1>9. CASE ActionFails(w) BY <1>a, <1>9, RecoversSafe DEF ActionFails
<1>10. CASE ActionTears(w) BY <1>a, <1>10, RecoversSafe DEF ActionTears
<1>11. CASE BeginsSeeding(w)
  <2>1. UNCHANGED <<status, steps, tries, lock, stale, cand, batch, cur, walked, tried,
                    log, cuts>>
    BY <1>11 DEF BeginsSeeding, row, seen
  <2>2. /\ pc[w] = "walk" /\ pc'[w] = "seed"
        /\ \A v \in Workers \ {w} : pc'[v] = pc[v]
    BY <1>11 DEF BeginsSeeding, OnBlock, Reaches, TypeOK, PassType
  <2>3. Exclusive' BY <2>1 DEF Safe, Exclusive
  <2>4. StampsAreFresh' BY <2>1, <2>2 DEF Safe, StampsAreFresh
  <2>5. HandsAreCurrent' BY <2>1, <2>2 DEF Safe, HandsAreCurrent, Busy
  <2>6. AttemptsLeft' /\ LogTellsAll' BY <2>1 DEF Safe, AttemptsLeft, LogTellsAll
  <2> QED BY <2>3, <2>4, <2>5, <2>6 DEF Safe
<1>12. CASE EndsSeeding(w)
  BY <1>a, <1>12, HandFacts, StopsSafe DEF EndsSeeding
<1>13. ASSUME NEW i \in Items, SeedsItem(w, i) PROVE Safe'
  <2>1. UNCHANGED <<pc, cand, batch, cur, walked, tried, log, cuts>>
    BY <1>13 DEF SeedsItem, seen
  <2>2. <<cur[w], i>> \in Runs BY <1>13 DEF Hands, SeedsItem, Runs
  <2>3. CASE status[<<cur[w], i>>] = "absent"
    BY <1>13, <2>1, <2>2, <2>3, InsertSafe DEF SeedsItem
  <2>4. CASE status[<<cur[w], i>>] # "absent"
    BY <1>13, <2>1, <2>4, SafeStutters DEF SeedsItem, row
  <2> QED BY <2>3, <2>4
<1> QED BY <1>1, <1>2, <1>3, <1>4, <1>5, <1>6, <1>7, <1>8, <1>9, <1>10, <1>11, <1>12,
           <1>13 DEF Walks

LEMMA SafeStep ==
  ASSUME TypeOK, Hands, Safe, [Next]_vars
  PROVE  Safe'
<1>1. CASE Desk BY <1>1, SafeDesk
<1>2. CASE Queue BY <1>2, SafeQueue
<1>3. ASSUME NEW w \in Workers, Pass(w) PROVE Safe'
  BY <1>3, SafeClaims, SafePicks, SafeWalks, SafeAbandons DEF Pass, Breaks
<1>4. ASSUME NEW w \in Workers, Crashes(w) PROVE Safe'
  BY <1>4, SafeAbandons DEF Crashes
<1>5. CASE UNCHANGED vars
  BY <1>5, SafeStutters DEF vars, row, pass, seen
<1> QED BY <1>1, <1>2, <1>3, <1>4, <1>5 DEF Next

\* The strengthening holds of every reachable state.
THEOREM Inductive == Spec => []IInv
<1>1. Init => TypeOK /\ Hands /\ Safe BY TypeInit, SafeInit
<1>2. TypeOK /\ Hands /\ Safe /\ [Next]_vars => (TypeOK /\ Hands /\ Safe)'
  BY TypeStep, SafeStep
<1>3. TypeOK /\ Hands /\ Safe => IInv BY DEF IInv, Safe
<1> QED BY <1>1, <1>2, <1>3, PTL DEF Spec

\* Two processes never have in hand a run that no fault hit, and its lock is
\* fresh: the conditional stamp of claimDue is enough for any number of them.
THEOREM ClaimsAreExclusive == Spec => []Exclusive
<1>1. IInv => Exclusive BY DEF IInv
<1> QED BY <1>1, Inductive, PTL

\* The step log and stepsTaken agree, over any number of sleeps, retries and
\* processes.
THEOREM LogIsWhole == Spec => []LogTellsAll
<1>1. IInv => LogTellsAll BY DEF IInv
<1> QED BY <1>1, Inductive, PTL

\* The attempts of a run never pass TETO_DE_TENTATIVAS, and its last one takes
\* it out of the queue.
THEOREM AttemptsAreBounded == Spec => []ThreeStrikes
<1>1. IInv => ThreeStrikes
  BY DEF IInv, AttemptsLeft, ThreeStrikes, Open, Skipped
<1> QED BY <1>1, Inductive, PTL
\* Writing back changes the status of one row only.
LEMMA SavesTouches ==
  ASSUME TypeOK, NEW w \in Workers, NEW st, NEW n, NEW d, NEW s, NEW t,
         Saves(w, st, n, d, s, t)
  PROVE  \A q \in Runs : q # cur[w] => status'[q] = status[q]
BY DEF TypeOK, RowType, Saves

\* A process touches the run in its hands, and runs that did not exist.
LEMMA PassTouches ==
  ASSUME TypeOK, Hands, NEW w \in Workers, Picks(w) \/ Walks(w), NEW q \in Runs,
         q # cur[w] \/ ~Busy(w), status[q] # "absent"
  PROVE  status'[q] = status[q] /\ did'[q] = did[q]
<1>1. CASE Picks(w)
  <2>1. UNCHANGED did
    BY <1>1 DEF Picks, SkipsFinished, Loads, CancelsWhenOff, FailsWithoutAccess,
                Starts, seen
  <2>2. CASE UNCHANGED status BY <2>1, <2>2
  <2>3. CASE CancelsWhenOff(w) \/ FailsWithoutAccess(w)
    <3>1. q # cur[w] BY <2>3 DEF CancelsWhenOff, FailsWithoutAccess, Busy
    <3> QED BY <2>1, <2>3, <3>1, SavesTouches
            DEF CancelsWhenOff, FailsWithoutAccess, Closes
  <2> QED BY <1>1, <2>2, <2>3 DEF Picks, SkipsFinished, Loads, Starts, row
<1>2. CASE Walks(w)
  <2>1. pc[w] \in {"walk", "seed"}
    BY <1>2 DEF Walks, HitsCeiling, FallsOff, SkipsDisabled, Sleeps, Ends, Passes,
           FailsUnknown, Succeeds, ActionFails, ActionTears, BeginsSeeding,
           EndsSeeding, SeedsItem, OnBlock, Reaches
  <2>2. q # cur[w] BY <2>1, WalkFacts
  <2>3. did'[q] = did[q]
    <3>1. CASE UNCHANGED did BY <3>1
    <3>2. CASE Acts(w) BY <2>2, <3>2 DEF Acts, TypeOK, SeenType
    <3> QED
      BY <1>2, <3>1, <3>2
      DEF Walks, HitsCeiling, FallsOff, SkipsDisabled, Sleeps, Ends, Passes,
          FailsUnknown, Succeeds, ActionFails, ActionTears, BeginsSeeding,
          EndsSeeding, SeedsItem, seen
  <2>4. status'[q] = status[q]
    <3>1. CASE UNCHANGED status BY <3>1
    <3>2. CASE HitsCeiling(w) BY <2>2, <3>2, SavesTouches DEF HitsCeiling
    <3>3. CASE FallsOff(w) BY <2>2, <3>3, SavesTouches DEF FallsOff
    <3>4. CASE Sleeps(w) BY <2>2, <3>4, SavesTouches DEF Sleeps
    <3>5. CASE Ends(w) BY <2>2, <3>5, SavesTouches DEF Ends
    <3>6. CASE FailsUnknown(w) BY <2>2, <3>6, SavesTouches DEF FailsUnknown
    <3>7. CASE EndsSeeding(w) BY <2>2, <3>7, SavesTouches DEF EndsSeeding
    <3>8. CASE Recovers(w) BY <2>2, <3>8, SavesTouches DEF Recovers, row
    <3>9. ASSUME NEW i \in Items, SeedsItem(w, i) PROVE status'[q] = status[q]
      BY <3>9 DEF SeedsItem, Insert, TypeOK, RowType, row
    <3> QED
      BY <1>2, <3>1, <3>2, <3>3, <3>4, <3>5, <3>6, <3>7, <3>8, <3>9
      DEF Walks, SkipsDisabled, Passes, Succeeds, ActionFails, ActionTears,
          BeginsSeeding, row
  <2> QED BY <2>3, <2>4
<1> QED BY <1>1, <1>2

\* A finished run is in nobody's hands unless a fault hit it, so no process
\* moves it or acts for it again.
THEOREM FinishedRunsStand == Spec => FinishedStands
<1> DEFINE Stands == \A r \in Runs : cuts[r] = 0 /\ status[r] \in {"done", "failed"}
                       => status'[r] = status[r] /\ did'[r] = did[r]
<1>1. IInv /\ [Next]_vars => Stands
  <2> SUFFICES ASSUME IInv, [Next]_vars,
                      NEW r \in Runs, cuts[r] = 0, status[r] \in {"done", "failed"}
               PROVE  status'[r] = status[r] /\ did'[r] = did[r]
    OBVIOUS
  <2>0. TypeOK /\ Hands /\ Safe BY DEF IInv, Safe
  <2>1. status[r] # "absent" OBVIOUS
  <2>2. CASE Desk
    BY <2>2 DEF Desk, Enable, Disable, SaveBegins, SaveEnds, Delete, RevokeAccess,
                row, seen
  <2>3. CASE Queue
    <3>1. UNCHANGED did
      BY <2>3 DEF Queue, Enqueue, WakeElapses, LockAges, PassDrags, seen
    <3>2. PICK q \in Runs : Enqueue(q) \/ WakeElapses(q) \/ LockAges(q) \/ PassDrags(q)
      BY <2>3 DEF Queue
    <3>3. CASE Enqueue(q)
      BY <2>0, <2>1, <3>1, <3>3 DEF Enqueue, Insert, TypeOK, RowType
    <3>4. CASE ~Enqueue(q)
      BY <3>1, <3>2, <3>4 DEF WakeElapses, LockAges, PassDrags
    <3> QED BY <3>1, <3>3, <3>4
  <2>4. ASSUME NEW w \in Workers, Claims(w) PROVE UNCHANGED <<status, did>>
    BY <2>4 DEF Claims, ClaimReads, ClaimStamps, ClaimTakes, BatchEnds, row, seen
  <2>5. ASSUME NEW w \in Workers, Breaks(w) \/ Crashes(w) PROVE UNCHANGED <<status, did>>
    BY <2>5 DEF Breaks, Crashes, Abandons
  <2>6. ASSUME NEW w \in Workers, Picks(w) \/ Walks(w)
        PROVE  status'[r] = status[r] /\ did'[r] = did[r]
    <3>1. r # cur[w] \/ ~Busy(w) BY <2>0 DEF Safe, HandsAreCurrent, Skipped
    <3> QED BY <2>0, <2>1, <2>6, <3>1, PassTouches
  <2>7. CASE UNCHANGED vars BY <2>7 DEF vars, row, seen
  <2> QED BY <2>2, <2>3, <2>4, <2>5, <2>6, <2>7 DEF Next, Pass
<1>2. IInv /\ [Next]_vars => [Stands]_vars BY <1>1
<1>3. Spec => [][Stands]_vars BY <1>2, Inductive, PTL DEF Spec
<1> QED BY <1>3 DEF FinishedStands

-----------------------------------------------------------------------------
(* AutomationRuns implements JobQueue: every step of the engine opens one  *)
(* job, serves one job, is a fault that strikes one job, or changes        *)
(* nothing the queue shows.                                                *)

\* What a process chose, took or holds was opened: no row is ever undone.
Opened == \A w \in Workers : \A r \in cand[w] \cup batch[w] : status[r] # "absent"

\* Only the row of q moves, and it stays opened; at most one block acts for it.
Moves(q) ==
  /\ \A r \in Runs : r # q => status'[r] = status[r]
  /\ status'[q] # "absent"
  /\ did' = did \/ \E n \in Nodes : did' = [did EXCEPT ![q][n] = @ + 1]

\* What the queue shows of the rows after a step that moved one of them.
LEMMA ShownAfter ==
  ASSUME TypeOK, NEW q \in Runs, \A r \in Runs : r # q => status'[r] = status[r]
  PROVE  [r \in Runs |-> Served(r)]' = [[r \in Runs |-> Served(r)] EXCEPT ![q] = Served(q)']
BY DEF Served

\* A status as the queue shows it.
LEMMA ShownStatus ==
  ASSUME TypeOK, NEW q \in Runs, status[q] # "absent"
  PROVE  Served(q) \in {"open", "done", "failed", "cancelled"}
BY DEF TypeOK, RowType, Served, Open, Final

LEMMA OpensJob ==
  ASSUME TypeOK, NEW q \in Runs, status[q] = "absent",
         status' = [status EXCEPT ![q] = "pending"], UNCHANGED <<did, cuts>>
  PROVE  Abstract!Next
<1>1. status'[q] = "pending" /\ \A r \in Runs : r # q => status'[r] = status[r]
  BY DEF TypeOK, RowType
<1>2. Served(q) = "absent" /\ Served(q)' = "open" BY <1>1 DEF Served, Open
<1> QED BY <1>1, <1>2, ShownAfter DEF Abstract!Next, Abstract!Opens

LEMMA MayServe ==
  ASSUME TypeOK, NEW q \in Runs, status[q] # "absent",
         cuts[q] = 0 => status[q] \notin Skipped
  PROVE  Abstract!Servable(q)
BY DEF TypeOK, RowType, SeenType, Abstract!Servable, Served, Skipped, Open, Final

LEMMA ServesJob ==
  ASSUME TypeOK, TypeOK', NEW q \in Runs, status[q] # "absent",
         cuts[q] = 0 => status[q] \notin Skipped, Moves(q), UNCHANGED cuts
  PROVE  Abstract!Next
<1>1. Abstract!Servable(q) BY MayServe
<1>2. Served(q)' \in {"open", "done", "failed", "cancelled"} BY ShownStatus DEF Moves, TypeOK, RowType, Served, Open, Final
<1>3. [r \in Runs |-> Served(r)]' = [[r \in Runs |-> Served(r)] EXCEPT ![q] = Served(q)']
  BY ShownAfter DEF Moves
<1> QED BY <1>1, <1>2, <1>3 DEF Moves, Abstract!Next, Abstract!Serves, Abstract!States

LEMMA StrikesJob ==
  ASSUME TypeOK, TypeOK', NEW q \in Runs, status[q] # "absent",
         cuts[q] = 0 => status[q] \notin Skipped,
         Moves(q), did' # did, cuts' = [cuts EXCEPT ![q] = @ + 1]
  PROVE  Abstract!Next
<1>1. Abstract!Servable(q) BY MayServe
<1>2. Served(q)' \in {"open", "done", "failed", "cancelled"} BY ShownStatus DEF Moves, TypeOK, RowType, Served, Open, Final
<1>3. [r \in Runs |-> Served(r)]' = [[r \in Runs |-> Served(r)] EXCEPT ![q] = Served(q)']
  BY ShownAfter DEF Moves
<1>4. Served(q) # "absent" BY DEF Served, Open
<1> QED BY <1>1, <1>2, <1>3, <1>4
        DEF Moves, Abstract!Next, Abstract!Strikes, Abstract!States

LEMMA OnlyStrikes ==
  ASSUME TypeOK, NEW q \in Runs, status[q] # "absent", UNCHANGED <<status, did>>,
         cuts' = [cuts EXCEPT ![q] = @ + 1]
  PROVE  Abstract!Next
<1>1. [r \in Runs |-> Served(r)]' = [r \in Runs |-> Served(r)] BY DEF Served
<1>2. Served(q) # "absent" BY DEF Served, Open
<1> QED BY <1>1, <1>2 DEF Abstract!Next, Abstract!Strikes

LEMMA ShowsNothing ==
  ASSUME UNCHANGED <<status, did, cuts>>
  PROVE  UNCHANGED Abstract!vars
BY DEF Abstract!vars, Served

-----------------------------------------------------------------------------
\* Writing back moves one row, and leaves it opened.
LEMMA SavesMoves ==
  ASSUME TypeOK, NEW w \in Workers, cur[w] \in Runs,
         NEW st \in Open \cup Final, NEW n, NEW d, NEW s, NEW t,
         Saves(w, st, n, d, s, t), UNCHANGED did
  PROVE  Moves(cur[w])
BY DEF TypeOK, RowType, Saves, Moves, Open, Final

LEMMA ActsMoves ==
  ASSUME TypeOK, NEW w \in Workers, cur[w] \in Runs, at[w] \in Nodes, Acts(w)
  PROVE  did' # did /\ \E n \in Nodes : did' = [did EXCEPT ![cur[w]][n] = @ + 1]
<1>1. did \in [Runs -> [Nodes -> Nat]] BY DEF TypeOK, SeenType
<1>2. did' = [did EXCEPT ![cur[w]][at[w]] = @ + 1] BY DEF Acts
<1>3. did[cur[w]][at[w]] \in Nat BY <1>1
<1>4. did'[cur[w]][at[w]] = did[cur[w]][at[w]] + 1 BY <1>1, <1>2
<1>5. did' # did BY <1>3, <1>4
<1> QED BY <1>2, <1>5

\* The catch of an action moves the row of its run or goes on in memory.
LEMMA RecoversStatus ==
  ASSUME TypeOK, NEW w \in Workers, cur[w] \in Runs, status[cur[w]] # "absent",
         Recovers(w)
  PROVE  /\ \A r \in Runs : r # cur[w] => status'[r] = status[r]
         /\ status'[cur[w]] # "absent"
BY DEF TypeOK, RowType, Recovers, Saves, row

LEMMA WalksImplement ==
  ASSUME IInv, Opened, TypeOK', NEW w \in Workers, Walks(w)
  PROVE  Abstract!Next \/ UNCHANGED Abstract!vars
<1>a. TypeOK /\ Hands /\ HandsAreCurrent BY DEF IInv
<1>b. pc[w] \in {"walk", "seed"}
  BY DEF Walks, HitsCeiling, FallsOff, SkipsDisabled, Sleeps, Ends, Passes,
         FailsUnknown, Succeeds, ActionFails, ActionTears, BeginsSeeding,
         EndsSeeding, SeedsItem, OnBlock, Reaches
<1>c. /\ Busy(w) /\ cur[w] \in Runs /\ cur[w] \in batch[w]
      /\ at[w] # None => at[w] \in Nodes
  BY <1>a, <1>b, WalkFacts
<1>d. status[cur[w]] # "absent" BY <1>c DEF Opened
<1>e. cuts[cur[w]] = 0 => status[cur[w]] \notin Skipped
  BY <1>a, <1>c DEF HandsAreCurrent
<1>f. Moves(cur[w]) /\ UNCHANGED cuts => Abstract!Next
  BY <1>a, <1>c, <1>d, <1>e, ServesJob
<1>1. CASE \/ HitsCeiling(w) \/ FallsOff(w) \/ Sleeps(w) \/ Ends(w)
           \/ FailsUnknown(w) \/ EndsSeeding(w)
  <2>1. UNCHANGED <<did, cuts>>
    BY <1>1 DEF HitsCeiling, FallsOff, Sleeps, Ends, FailsUnknown, EndsSeeding, seen
  <2>2. "failed" \in Open \cup Final /\ "done" \in Open \cup Final /\ "waiting" \in Open \cup Final
    BY DEF Open, Final
  <2>3. Moves(cur[w])
    <3>1. CASE HitsCeiling(w) BY <1>a, <1>c, <2>1, <2>2, <3>1, SavesMoves DEF HitsCeiling
    <3>2. CASE FallsOff(w) BY <1>a, <1>c, <2>1, <2>2, <3>2, SavesMoves DEF FallsOff
    <3>3. CASE Sleeps(w) BY <1>a, <1>c, <2>1, <2>2, <3>3, SavesMoves DEF Sleeps
    <3>4. CASE Ends(w) BY <1>a, <1>c, <2>1, <2>2, <3>4, SavesMoves DEF Ends
    <3>5. CASE FailsUnknown(w) BY <1>a, <1>c, <2>1, <2>2, <3>5, SavesMoves DEF FailsUnknown
    <3>6. CASE EndsSeeding(w) BY <1>a, <1>c, <2>1, <2>2, <3>6, SavesMoves DEF EndsSeeding
    <3> QED BY <1>1, <3>1, <3>2, <3>3, <3>4, <3>5, <3>6
  <2> QED BY <1>f, <2>1, <2>3
<1>2. CASE SkipsDisabled(w) \/ Passes(w) \/ BeginsSeeding(w)
  <2>1. UNCHANGED <<status, did, cuts>>
    BY <1>2 DEF SkipsDisabled, Passes, BeginsSeeding, row, seen
  <2> QED BY <2>1, ShowsNothing
<1>3. CASE Succeeds(w)
  <2>1. at[w] \in Nodes BY <1>3, <1>c DEF Succeeds, OnBlock, Reaches
  <2>2. UNCHANGED <<status, cuts>> BY <1>3 DEF Succeeds, row
  <2>3. \E n \in Nodes : did' = [did EXCEPT ![cur[w]][n] = @ + 1]
    BY <1>3, <1>a, <1>c, <2>1, ActsMoves DEF Succeeds
  <2> QED BY <1>d, <1>f, <2>2, <2>3 DEF Moves
<1>4. CASE ActionFails(w)
  <2>1. UNCHANGED <<did, cuts>> BY <1>4 DEF ActionFails
  <2>2. Moves(cur[w])
    BY <1>4, <1>a, <1>c, <1>d, <2>1, RecoversStatus DEF ActionFails, Moves
  <2> QED BY <1>f, <2>1, <2>2
<1>5. CASE ActionTears(w)
  <2>1. at[w] \in Nodes BY <1>5, <1>c DEF ActionTears, OnBlock, Reaches
  <2>2. did' # did /\ \E n \in Nodes : did' = [did EXCEPT ![cur[w]][n] = @ + 1]
    BY <1>5, <1>a, <1>c, <2>1, ActsMoves DEF ActionTears
  <2>3. Moves(cur[w])
    BY <1>5, <1>a, <1>c, <1>d, <2>2, RecoversStatus DEF ActionTears, Moves
  <2>4. cuts' = [cuts EXCEPT ![cur[w]] = @ + 1] BY <1>5 DEF ActionTears
  <2> QED BY <1>a, <1>c, <1>d, <1>e, <2>2, <2>3, <2>4, StrikesJob
<1>6. ASSUME NEW i \in Items, SeedsItem(w, i)
      PROVE  Abstract!Next \/ UNCHANGED Abstract!vars
  <2>1. UNCHANGED <<did, cuts>> BY <1>6 DEF SeedsItem, seen
  <2>2. <<cur[w], i>> \in Runs BY <1>6, <1>a DEF SeedsItem, Hands, Runs
  <2>3. CASE status[<<cur[w], i>>] = "absent"
    BY <1>6, <1>a, <2>1, <2>2, <2>3, OpensJob DEF SeedsItem, Insert
  <2>4. CASE status[<<cur[w], i>>] # "absent"
    BY <1>6, <2>1, <2>4, ShowsNothing DEF SeedsItem, row
  <2> QED BY <2>3, <2>4
<1> QED BY <1>1, <1>2, <1>3, <1>4, <1>5, <1>6 DEF Walks

LEMMA PicksImplement ==
  ASSUME IInv, Opened, TypeOK', NEW w \in Workers, Picks(w)
  PROVE  Abstract!Next \/ UNCHANGED Abstract!vars
<1>a. TypeOK /\ Hands /\ HandsAreCurrent BY DEF IInv
<1>1. CASE CancelsWhenOff(w) \/ FailsWithoutAccess(w)
  <2>1. Busy(w) BY <1>1 DEF CancelsWhenOff, FailsWithoutAccess, Busy
  <2>2. cur[w] \in Runs /\ cur[w] \in batch[w] BY <1>a, <2>1, InHand DEF TypeOK
  <2>3. status[cur[w]] # "absent" BY <2>2 DEF Opened
  <2>4. cuts[cur[w]] = 0 => status[cur[w]] \notin Skipped
    BY <1>a, <2>1, <2>2 DEF HandsAreCurrent
  <2>5. UNCHANGED <<did, cuts>> BY <1>1 DEF CancelsWhenOff, FailsWithoutAccess, seen
  <2>6. "cancelled" \in Open \cup Final /\ "failed" \in Open \cup Final BY DEF Final
  <2>7. Moves(cur[w])
    BY <1>1, <1>a, <2>2, <2>5, <2>6, SavesMoves DEF CancelsWhenOff, FailsWithoutAccess, Closes
  <2> QED BY <1>a, <2>2, <2>3, <2>4, <2>5, <2>7, ServesJob
<1>2. CASE ~(CancelsWhenOff(w) \/ FailsWithoutAccess(w))
  BY <1>2, ShowsNothing DEF Picks, SkipsFinished, Loads, Starts, row, seen
<1> QED BY <1>1, <1>2

LEMMA AbandonsImplement ==
  ASSUME IInv, Opened, NEW w \in Workers, Abandons(w)
  PROVE  Abstract!Next \/ UNCHANGED Abstract!vars
<1>a. TypeOK /\ Hands BY DEF IInv
<1>1. UNCHANGED <<status, did>> BY DEF Abandons
<1>2. CASE Busy(w)
  <2>1. cur[w] \in Runs /\ cur[w] \in batch[w] BY <1>a, <1>2, InHand DEF TypeOK
  <2>2. status[cur[w]] # "absent" BY <2>1 DEF Opened
  <2>3. cuts' = [cuts EXCEPT ![cur[w]] = @ + 1]
    BY <1>a, <1>2 DEF Abandons, TypeOK, SeenType
  <2> QED BY <1>a, <1>1, <2>1, <2>2, <2>3, OnlyStrikes
<1>3. CASE ~Busy(w)
  <2>1. cuts' = cuts BY <1>a, <1>3 DEF Abandons, TypeOK, SeenType
  <2> QED BY <1>1, <2>1, ShowsNothing
<1> QED BY <1>2, <1>3

LEMMA QueueImplements ==
  ASSUME IInv, Opened, Queue
  PROVE  Abstract!Next \/ UNCHANGED Abstract!vars
<1>a. TypeOK BY DEF IInv
<1>1. PICK q \in Runs : Enqueue(q) \/ WakeElapses(q) \/ LockAges(q) \/ PassDrags(q)
  BY DEF Queue
<1>2. CASE Enqueue(q)
  BY <1>a, <1>2, OpensJob DEF Enqueue, Insert, seen
<1>3. CASE WakeElapses(q) \/ LockAges(q)
  BY <1>3, ShowsNothing DEF WakeElapses, LockAges, seen
<1>4. CASE PassDrags(q)
  <2>1. status[q] # "absent" BY <1>4 DEF PassDrags, Held, Opened
  <2> QED BY <1>a, <1>4, <2>1, OnlyStrikes DEF PassDrags
<1> QED BY <1>1, <1>2, <1>3, <1>4

\* Every step of the engine is a step of the queue or shows nothing.
LEMMA StepImplements ==
  ASSUME IInv, Opened, IInv', [Next]_vars
  PROVE  [Abstract!Next]_(Abstract!vars)
<1>1. CASE Desk
  BY <1>1, ShowsNothing DEF Desk, Enable, Disable, SaveBegins, SaveEnds, Delete,
     RevokeAccess, row, seen
<1>2. CASE Queue BY <1>2, QueueImplements
<1>3. ASSUME NEW w \in Workers, Pass(w) PROVE [Abstract!Next]_(Abstract!vars)
  <2>1. CASE Claims(w)
    BY <2>1, ShowsNothing DEF Claims, ClaimReads, ClaimStamps, ClaimTakes, BatchEnds, row, seen
  <2>2. CASE Picks(w) BY <2>2, PicksImplement DEF IInv
  <2>3. CASE Walks(w) BY <2>3, WalksImplement DEF IInv
  <2>4. CASE Breaks(w) BY <2>4, AbandonsImplement DEF Breaks
  <2> QED BY <1>3, <2>1, <2>2, <2>3, <2>4 DEF Pass
<1>4. ASSUME NEW w \in Workers, Crashes(w) PROVE [Abstract!Next]_(Abstract!vars)
  BY <1>4, AbandonsImplement DEF Crashes
<1>5. CASE UNCHANGED vars BY <1>5, ShowsNothing DEF vars, row, seen
<1> QED BY <1>1, <1>2, <1>3, <1>4, <1>5 DEF Next

\* A queue never loses a job it opened, so neither does the table.
LEMMA StaysOpened ==
  ASSUME [Abstract!Next]_(Abstract!vars), NEW r \in Runs, status[r] # "absent"
  PROVE  status'[r] # "absent"
<1>1. Served(r) # "absent" BY DEF Served, Open
<1>2. Served(r)' # "absent"
  BY <1>1 DEF Abstract!Next, Abstract!vars, Abstract!Opens, Abstract!Serves,
     Abstract!Strikes, Abstract!Servable, Abstract!States
<1> QED BY <1>2 DEF Served, Open

\* A process chooses open rows, and takes what it chose.
LEMMA ChoosesOpened ==
  ASSUME IInv, Opened, [Next]_vars, NEW w \in Workers, NEW r \in cand'[w] \cup batch'[w]
  PROVE  r \in Runs /\ status[r] # "absent"
<1>a. PassType BY DEF IInv, TypeOK
<1>b. ASSUME r \in cand[w] \cup batch[w] PROVE r \in Runs /\ status[r] # "absent"
  BY <1>a, <1>b DEF PassType, Opened
<1>1. CASE Desk \/ Queue \/ UNCHANGED vars
  BY <1>1, <1>b DEF Desk, Enable, Disable, SaveBegins, SaveEnds, Delete, RevokeAccess,
     Queue, Enqueue, WakeElapses, LockAges, PassDrags, vars, pass
<1>2. ASSUME NEW v \in Workers, Claims(v) PROVE r \in Runs /\ status[r] # "absent"
  <2>1. CASE ClaimReads(v)
    <3>1. PICK C \in SUBSET Claimable : cand' = [cand EXCEPT ![v] = C]
      BY <2>1 DEF ClaimReads
    <3>2. batch' = batch BY <2>1 DEF ClaimReads
    <3>3. r \in cand[w] \cup batch[w] \/ r \in C BY <1>a, <3>1, <3>2 DEF PassType
    <3> QED BY <1>b, <3>1, <3>3 DEF Claimable, Open
  <2>2. CASE ClaimTakes(v)
    BY <1>a, <1>b, <2>2 DEF ClaimTakes, PassType
  <2>3. CASE ClaimStamps(v) \/ BatchEnds(v)
    BY <1>b, <2>3 DEF ClaimStamps, BatchEnds
  <2> QED BY <1>2, <2>1, <2>2, <2>3 DEF Claims
<1>3. ASSUME NEW v \in Workers, Picks(v) \/ Walks(v) PROVE r \in Runs /\ status[r] # "absent"
  <2>1. cand' = cand
    BY <1>3 DEF Picks, SkipsFinished, Loads, CancelsWhenOff, FailsWithoutAccess,
       Closes, Starts, Walks, HitsCeiling, FallsOff, SkipsDisabled, Sleeps, Ends,
       Passes, FailsUnknown, Succeeds, ActionFails, ActionTears, BeginsSeeding,
       EndsSeeding, SeedsItem, Recovers, GoesOn, LetsGo
  <2>2. batch' = batch \/ \E x : batch' = [batch EXCEPT ![v] = @ \ {x}]
    BY <1>3 DEF Picks, SkipsFinished, Loads, CancelsWhenOff, FailsWithoutAccess,
       Closes, Starts, Walks, HitsCeiling, FallsOff, SkipsDisabled, Sleeps, Ends,
       Passes, FailsUnknown, Succeeds, ActionFails, ActionTears, BeginsSeeding,
       EndsSeeding, SeedsItem, Recovers, GoesOn, LetsGo
  <2>3. batch'[w] \subseteq batch[w] BY <1>a, <2>2 DEF PassType
  <2> QED BY <1>b, <2>1, <2>3
<1>4. ASSUME NEW v \in Workers, Abandons(v) PROVE r \in Runs /\ status[r] # "absent"
  BY <1>a, <1>b, <1>4 DEF Abandons, PassType
<1> QED BY <1>1, <1>2, <1>3, <1>4 DEF Next, Pass, Breaks, Crashes

LEMMA OpenedStep ==
  ASSUME IInv, Opened, IInv', [Next]_vars
  PROVE  Opened'
<1>1. [Abstract!Next]_(Abstract!vars) BY StepImplements
<1> QED BY <1>1, ChoosesOpened, StaysOpened DEF Opened

LEMMA StartImplements ==
  ASSUME Init
  PROVE  Opened /\ Abstract!Init
BY DEF Init, Opened, Abstract!Init, Served, Open

\* No process ever has a run in its hands that was not opened.
LEMMA OpenedHolds == Spec => []Opened
<1>1. Init => Opened BY StartImplements
<1>2. IInv /\ IInv' /\ Opened /\ [Next]_vars => Opened' BY OpenedStep
<1> QED BY <1>1, <1>2, Inductive, PTL DEF Spec

\* The engine implements the queue, for every number of processes, runs,
\* drawings and faults: jobs are opened once and served one at a time, nobody
\* acts for a job that was never opened, and only a fault lets a finished one
\* move again.
THEOREM EngineIsQueue == Spec => IsQueue
<1>1. Init => Opened /\ Abstract!Init BY StartImplements
<1>2. IInv /\ IInv' /\ Opened /\ [Next]_vars => Opened' /\ [Abstract!Next]_(Abstract!vars)
  BY StepImplements, OpenedStep
<1> QED BY <1>1, <1>2, Inductive, PTL DEF Spec, IsQueue, Abstract!Spec

-----------------------------------------------------------------------------
(* How often a block acts for a run: at most once more than faults hit the *)
(* run, and not at all from the block on at which the run stands.          *)

\* The drawings have no cycle, not even one over another: there is an order of
\* the blocks that every edge of every drawing follows, and a wait is never the
\* last block (the row would wake at the trigger).
Rising(rank) ==
  \A g \in Graphs : \A n \in g.nodes : \A p \in Ports :
    g.next[n][p] # None => rank[n] < rank[g.next[n][p]]
WaitsLead ==
  \A g \in Graphs : \A n \in g.nodes : g.kind[n] = "delay" => g.next[n]["next"] # None
Loopless == WaitsLead /\ \E rank \in [Nodes -> Nat] : Rising(rank)

OneProcess == \A v, w \in Workers : v = w

\* Nobody but the process that has the run in its hands works on it.
Steady(r) == cuts[r] = 0 \/ OneProcess

Handled(r) == \E w \in Workers : cur[w] = r

\* What acted once more than faults account for lies before block m.
Behind(rank, r, m) ==
  \A n \in Nodes : did[r][n] > cuts[r] => m # None /\ rank[n] < rank[m]

\* Where a process stands with the run it has in its hands.
InPlace(rank, w, r) ==
  /\ pc[w] = "resolve" => at[w] = node[r] /\ Behind(rank, r, at[w])
  /\ pc[w] \in {"walk", "seed"} /\ at[w] # None =>
       at[w] \in flow[w].nodes /\ Behind(rank, r, at[w])

Ordered(rank, r) ==
  /\ \A n \in Nodes : did[r][n] <= 1 + cuts[r]
  /\ status[r] \notin Skipped /\ ~Handled(r) => Behind(rank, r, node[r])
  /\ \A w \in Workers : cur[w] = r => InPlace(rank, w, r)

Untouched(r) == status[r] = "absent" => \A n \in Nodes : did[r][n] = 0

Forward(rank) == \A r \in Runs : Untouched(r) /\ (Steady(r) => Ordered(rank, r))

\* What the steps start from.
Order(rank) == rank \in [Nodes -> Nat] /\ Rising(rank) /\ WaitsLead
Before(rank) == TypeOK /\ Hands /\ Safe /\ Opened /\ Forward(rank)

LEMMA CountTypes ==
  ASSUME TypeOK, NEW r \in Runs
  PROVE  cuts[r] \in Nat /\ \A n \in Nodes : did[r][n] \in Nat
BY DEF TypeOK, SeenType

LEMMA OnlyHolder ==
  ASSUME Hands, Safe, NEW r \in Runs, Steady(r), NEW v \in Workers, NEW w \in Workers,
         r \in batch[w], cur[v] = r
  PROVE  v = w
<1>1. r \in batch[v]
  BY RunsAssumption DEF Hands
<1>. QED BY <1>1, SoleHolder DEF Steady, OneProcess, Safe

\* A run that a step leaves alone, or only hits with a fault.
LEMMA OtherKeeps ==
  ASSUME TypeOK, NEW rank, NEW q \in Runs, Untouched(q), Steady(q) => Ordered(rank, q),
         status'[q] = status[q], node'[q] = node[q], did'[q] = did[q],
         cuts'[q] \in Nat, cuts[q] <= cuts'[q],
         \A v \in Workers : cur[v] = q \/ cur'[v] = q =>
           cur'[v] = cur[v] /\ pc'[v] = pc[v] /\ at'[v] = at[v] /\ flow'[v] = flow[v]
  PROVE  Untouched(q)' /\ (Steady(q)' => Ordered(rank, q)')
<1>1. Untouched(q)'
  BY DEF Untouched
<1>2. ASSUME Steady(q)' PROVE Ordered(rank, q)'
  <2>1. cuts[q] \in Nat /\ \A n \in Nodes : did[q][n] \in Nat
    BY CountTypes
  <2>2. Steady(q)
    BY <1>2, <2>1 DEF Steady, OneProcess
  <2>3. Ordered(rank, q)
    BY <2>2
  <2>4. \A m : Behind(rank, q, m) => Behind(rank, q, m)'
    BY <2>1 DEF Behind
  <2>5. Handled(q)' <=> Handled(q)
    BY DEF Handled
  <2>6. \A n \in Nodes : did'[q][n] <= 1 + cuts'[q]
    BY <2>1, <2>3 DEF Ordered
  <2>7. status'[q] \notin Skipped /\ ~Handled(q)' => Behind(rank, q, node[q])'
    BY <2>3, <2>4, <2>5 DEF Ordered, Behind
  <2>8. ASSUME NEW v \in Workers, cur'[v] = q PROVE InPlace(rank, v, q)'
    <3>1. cur[v] = q /\ pc'[v] = pc[v] /\ at'[v] = at[v] /\ flow'[v] = flow[v]
      BY <2>8
    <3>2. InPlace(rank, v, q)
      BY <2>3, <3>1 DEF Ordered
    <3>. QED BY <2>4, <3>1, <3>2 DEF InPlace, Behind
  <2>. QED BY <2>6, <2>7, <2>8 DEF Ordered
<1>. QED BY <1>1, <1>2

LEMMA ForwardInit ==
  ASSUME Init, NEW rank
  PROVE  Forward(rank)
<1>1. \A r \in Runs : \A n \in Nodes : did[r][n] = 0 /\ cuts[r] = 0
  BY DEF Init
<1>2. \A r \in Runs : Untouched(r) /\ \A m : Behind(rank, r, m)
  BY <1>1 DEF Untouched, Behind
<1>3. \A w \in Workers : cur[w] = None
  BY DEF Init
<1>4. \A r \in Runs : Ordered(rank, r)
  <2> TAKE r \in Runs
  <2>1. \A w \in Workers : cur[w] # r
    BY <1>3, RunsAssumption
  <2>2. \A n \in Nodes : did[r][n] <= 1 + cuts[r]
    BY <1>1
  <2>. QED BY <1>2, <2>1, <2>2 DEF Ordered
<1>. QED BY <1>2, <1>4 DEF Forward

\* A step that leaves rows, hands and effects alone.
LEMMA ForwardStutters ==
  ASSUME NEW rank, Before(rank), UNCHANGED <<status, node, did, pc, cur, at, flow>>,
         \A q \in Runs : cuts'[q] \in Nat /\ cuts[q] <= cuts'[q]
  PROVE  Forward(rank)'
<1> SUFFICES ASSUME NEW q \in Runs
             PROVE  Untouched(q)' /\ (Steady(q)' => Ordered(rank, q)')
  BY DEF Forward
<1>1. TypeOK /\ Untouched(q) /\ (Steady(q) => Ordered(rank, q))
  BY DEF Before, Forward
<1>. QED BY <1>1, OtherKeeps

\* A process that works on its run leaves every other run alone.
LEMMA ElsewhereKeeps ==
  ASSUME NEW rank, Before(rank), NEW w \in Workers, Busy(w),
         \A v \in Workers \ {w} :
           cur'[v] = cur[v] /\ pc'[v] = pc[v] /\ at'[v] = at[v] /\ flow'[v] = flow[v],
         cur'[w] \in {None, cur[w]},
         NEW q \in Runs, q # cur[w],
         status'[q] = status[q], node'[q] = node[q], did'[q] = did[q], cuts'[q] = cuts[q]
  PROVE  Untouched(q)' /\ (Steady(q)' => Ordered(rank, q)')
<1>1. TypeOK /\ Untouched(q) /\ (Steady(q) => Ordered(rank, q))
  BY DEF Before, Forward
<1>2. cuts[q] \in Nat
  BY <1>1, CountTypes
<1>3. q # None
  BY RunsAssumption
<1>4. \A v \in Workers : cur[v] = q \/ cur'[v] = q => v # w
  BY <1>3
<1>. QED BY <1>1, <1>2, <1>4, OtherKeeps

\* A run in hand was opened, and only this process has it.
LEMMA OwnRun ==
  ASSUME NEW rank, Before(rank), NEW w \in Workers, Busy(w)
  PROVE  /\ cur[w] \in Runs /\ cur[w] \in batch[w]
         /\ status[cur[w]] # "absent"
         /\ Steady(cur[w]) => /\ Ordered(rank, cur[w])
                              /\ \A v \in Workers : cur[v] = cur[w] => v = w
<1>1. TypeOK /\ Hands /\ Safe /\ Opened
  BY DEF Before
<1>2. cur[w] \in Runs /\ cur[w] \in batch[w]
  BY <1>1, InHand DEF TypeOK
<1>3. status[cur[w]] # "absent"
  BY <1>1, <1>2 DEF Opened
<1>4. Steady(cur[w]) => Ordered(rank, cur[w])
  BY <1>2 DEF Before, Forward
<1>5. Steady(cur[w]) => \A v \in Workers : cur[v] = cur[w] => v = w
  BY <1>1, <1>2, OnlyHolder
<1>. QED BY <1>2, <1>3, <1>4, <1>5

\* What a step of w adds up to for the runs: it leaves all but its own alone,
\* acts at its block at most, and never loses count of a fault.
Counts(rank, w) ==
  LET r == cur[w] IN
  /\ cuts'[r] \in Nat /\ cuts[r] <= cuts'[r]
  /\ \A q \in Runs \ {r} : did'[q] = did[q] /\ cuts'[q] = cuts[q]
  /\ Steady(r) => \A k \in Nodes :
       /\ did'[r][k] <= 1 + cuts'[r]
       /\ did'[r][k] > cuts'[r] /\ at[w] # None => rank[k] <= rank[at[w]]

\* A process that writes its run back and lets it go: an unfinished row must
\* point behind all that acted.
LEMMA StopsForward ==
  ASSUME NEW rank, Before(rank), NEW w \in Workers, Busy(w),
         NEW st, NEW n, NEW d, NEW s, NEW t, Saves(w, st, n, d, s, t), LetsGo(w),
         st # "absent", Counts(rank, w),
         Steady(cur[w]) /\ st \notin Skipped => \A k \in Nodes :
           did'[cur[w]][k] > cuts'[cur[w]] => n # None /\ rank[k] < rank[n]
  PROVE  Forward(rank)'
<1>0. PICK r \in Runs : r = cur[w]
  BY OwnRun
<1>1. /\ r \in Runs /\ r # None
      /\ Steady(r) => \A v \in Workers : cur[v] = r => v = w
  BY <1>0, OwnRun, RunsAssumption
<1>2. RowType /\ PassType /\ SeenType
  BY DEF Before, TypeOK
<1>3. /\ \A v \in Workers \ {w} :
           cur'[v] = cur[v] /\ pc'[v] = pc[v] /\ at'[v] = at[v] /\ flow'[v] = flow[v]
      /\ cur'[w] = None
  BY <1>2 DEF LetsGo, PassType
<1>4. /\ status'[r] = st /\ node'[r] = n
      /\ \A q \in Runs \ {r} : status'[q] = status[q] /\ node'[q] = node[q]
  BY <1>0, <1>2 DEF Saves, RowType
<1>5. ASSUME NEW q \in Runs, q # r
      PROVE  Untouched(q)' /\ (Steady(q)' => Ordered(rank, q)')
  <2>1. status'[q] = status[q] /\ node'[q] = node[q] /\ did'[q] = did[q] /\ cuts'[q] = cuts[q]
    BY <1>0, <1>4, <1>5 DEF Counts
  <2>. QED BY <1>0, <1>3, <1>5, <2>1, ElsewhereKeeps
<1>6. Untouched(r)'
  BY <1>4 DEF Untouched
<1>7. ASSUME Steady(r)' PROVE Ordered(rank, r)'
  <2>1. Steady(r)
    BY <1>0, <1>2, <1>7 DEF Steady, OneProcess, Counts, SeenType
  <2>2. \A v \in Workers : cur'[v] # r
    BY <1>1, <1>3, <2>1
  <2>3. \A k \in Nodes : did'[r][k] <= 1 + cuts'[r]
    BY <1>0, <2>1 DEF Counts
  <2>4. status'[r] \notin Skipped => Behind(rank, r, node[r])'
    BY <1>0, <1>4, <2>1 DEF Behind
  <2>. QED BY <2>2, <2>3, <2>4 DEF Ordered
<1>. QED BY <1>5, <1>6, <1>7 DEF Forward

\* A walk that goes on in memory: the next block lies behind all that acted.
LEMMA GoesForward ==
  ASSUME NEW rank, Order(rank), Before(rank), NEW w \in Workers, Reaches(w),
         NEW p \in Ports, GoesOn(w, p), UNCHANGED <<status, node>>, Counts(rank, w)
  PROVE  Forward(rank)'
<1>0. PICK r \in Runs : r = cur[w]
  <2>. QED BY OwnRun DEF Reaches, Busy
<1>a. PICK m : m = Successor(flow[w], at[w], p)
  OBVIOUS
<1>1. TypeOK /\ Hands /\ pc[w] = "walk" /\ at[w] # None /\ Busy(w)
  BY DEF Before, Reaches, Busy
<1>2. /\ r \in Runs /\ r # None /\ status[r] # "absent"
      /\ Steady(r) => Ordered(rank, r) /\ \A v \in Workers : cur[v] = r => v = w
  BY <1>0, <1>1, OwnRun, RunsAssumption
<1>3. flow[w] \in Graphs
  BY <1>1, WalkFacts
<1>4. /\ \A v \in Workers \ {w} :
           cur'[v] = cur[v] /\ pc'[v] = pc[v] /\ at'[v] = at[v] /\ flow'[v] = flow[v]
      /\ cur'[w] = r /\ pc'[w] = "walk" /\ at'[w] = m /\ flow'[w] = flow[w]
  BY <1>0, <1>a, <1>1 DEF GoesOn, TypeOK, PassType
<1>5. ASSUME NEW q \in Runs, q # r
      PROVE  Untouched(q)' /\ (Steady(q)' => Ordered(rank, q)')
  <2>1. status'[q] = status[q] /\ node'[q] = node[q] /\ did'[q] = did[q] /\ cuts'[q] = cuts[q]
    BY <1>0, <1>5 DEF Counts
  <2>. QED BY <1>0, <1>1, <1>4, <1>5, <2>1, ElsewhereKeeps
<1>6. Untouched(r)'
  BY <1>2 DEF Untouched
<1>7. ASSUME Steady(r)' PROVE Ordered(rank, r)'
  <2>1. Steady(r)
    BY <1>0, <1>1, <1>2, <1>7 DEF Steady, OneProcess, Counts, TypeOK, SeenType
  <2>2. at[w] \in flow[w].nodes
    BY <1>0, <1>1, <1>2, <2>1 DEF Ordered, InPlace
  <2>3. m # None => m \in flow[w].nodes /\ rank[at[w]] < rank[m]
    BY <1>a, <1>3, <2>2, GraphsAssumption DEF Order, Rising, Successor
  <2>4. flow[w].nodes \subseteq Nodes
    BY <1>3, GraphsAssumption DEF Drawing
  <2>5. m # None => rank[m] \in Nat /\ rank[at[w]] \in Nat
    BY <2>2, <2>3, <2>4 DEF Order
  <2>6. \A k \in Nodes : rank[k] \in Nat
    BY DEF Order
  <2>7. m # None => Behind(rank, r, m)'
    <3> SUFFICES ASSUME m # None, NEW k \in Nodes, did'[r][k] > cuts'[r]
                 PROVE  rank[k] < rank[m]
      BY <1>4 DEF Behind
    <3>1. rank[k] <= rank[at[w]]
      BY <1>0, <1>1, <2>1 DEF Counts
    <3>. QED BY <2>3, <2>5, <2>6, <3>1
  <2>8. InPlace(rank, w, r)'
    BY <1>4, <2>3, <2>7 DEF InPlace, Behind
  <2>9. \A v \in Workers : cur'[v] = r => v = w
    BY <1>2, <1>4, <2>1
  <2>10. \A k \in Nodes : did'[r][k] <= 1 + cuts'[r]
    BY <1>0, <2>1 DEF Counts
  <2>11. Handled(r)'
    BY <1>4 DEF Handled
  <2>. QED BY <2>8, <2>9, <2>10, <2>11 DEF Ordered
<1>. QED BY <1>5, <1>6, <1>7 DEF Forward

\* A run that appears has acted nowhere, and nobody has it.
LEMMA InsertForward ==
  ASSUME NEW rank, Before(rank), NEW r \in Runs, status[r] = "absent", NEW n, Insert(r, n),
         UNCHANGED <<did, cuts, pc, cur, at, flow>>
  PROVE  Forward(rank)'
<1>1. TypeOK /\ Hands /\ Opened
  BY DEF Before
<1>2. /\ status'[r] = "pending"
      /\ \A q \in Runs \ {r} : status'[q] = status[q] /\ node'[q] = node[q]
  BY <1>1 DEF Insert, TypeOK, RowType
<1>3. ASSUME NEW q \in Runs, q # r
      PROVE  Untouched(q)' /\ (Steady(q)' => Ordered(rank, q)')
  <2>1. Untouched(q) /\ (Steady(q) => Ordered(rank, q))
    BY DEF Before, Forward
  <2>2. cuts'[q] \in Nat /\ cuts[q] <= cuts'[q]
    BY <1>1, CountTypes
  <2>. QED BY <1>1, <1>2, <1>3, <2>1, <2>2, OtherKeeps
<1>4. \A k \in Nodes : did'[r][k] = 0
  BY DEF Before, Forward, Untouched
<1>5. \A v \in Workers : cur'[v] # r
  <2> SUFFICES ASSUME NEW v \in Workers, cur[v] = r PROVE FALSE
    OBVIOUS
  <2>1. r \in batch[v]
    BY <1>1, RunsAssumption DEF Hands
  <2>. QED BY <1>1, <2>1 DEF Opened
<1>6. Untouched(r)'
  BY <1>2 DEF Untouched
<1>7. Ordered(rank, r)'
  <2>1. cuts'[r] \in Nat
    BY <1>1, CountTypes
  <2>2. Behind(rank, r, node[r])'
    BY <1>4, <2>1 DEF Behind
  <2>. QED BY <1>4, <1>5, <2>1, <2>2 DEF Ordered
<1>. QED BY <1>3, <1>6, <1>7 DEF Forward

LEMMA ForwardDesk ==
  ASSUME NEW rank, Before(rank), Desk
  PROVE  Forward(rank)'
<1>1. UNCHANGED <<row, pass, seen>>
  BY DEF Desk, Enable, Disable, SaveBegins, SaveEnds, Delete, RevokeAccess
<1>2. \A q \in Runs : cuts'[q] \in Nat /\ cuts[q] <= cuts'[q]
  BY <1>1, CountTypes DEF Before, seen
<1>. QED BY <1>1, <1>2, ForwardStutters DEF row, pass, seen

LEMMA ForwardQueue ==
  ASSUME NEW rank, Before(rank), Queue
  PROVE  Forward(rank)'
<1>1. PICK r \in Runs : Enqueue(r) \/ WakeElapses(r) \/ LockAges(r) \/ PassDrags(r)
  BY DEF Queue
<1>2. CASE Enqueue(r)
  BY <1>2, InsertForward DEF Enqueue, pass, seen
<1>3. CASE ~Enqueue(r)
  <2>1. UNCHANGED <<status, node, did, pc, cur, at, flow>>
    BY <1>1, <1>3 DEF WakeElapses, LockAges, PassDrags, pass, seen
  <2>2. cuts' = cuts \/ cuts' = [cuts EXCEPT ![r] = @ + 1]
    BY <1>1, <1>3 DEF WakeElapses, LockAges, PassDrags, seen
  <2>3. \A q \in Runs : cuts'[q] \in Nat /\ cuts[q] <= cuts'[q]
    BY <2>2 DEF Before, TypeOK, SeenType
  <2>. QED BY <2>1, <2>3, ForwardStutters
<1>. QED BY <1>2, <1>3

\* A process that claims has no run in its hands.
LEMMA ForwardClaims ==
  ASSUME NEW rank, Before(rank), NEW w \in Workers, Claims(w)
  PROVE  Forward(rank)'
<1>1. TypeOK /\ Hands
  BY DEF Before
<1>2. /\ UNCHANGED <<status, node, did, cuts, cur, at, flow>>
      /\ ~Busy(w) /\ \A v \in Workers \ {w} : pc'[v] = pc[v]
  BY <1>1 DEF Claims, ClaimReads, ClaimStamps, ClaimTakes, BatchEnds, row, seen,
     Busy, TypeOK, PassType
<1> SUFFICES ASSUME NEW q \in Runs
             PROVE  Untouched(q)' /\ (Steady(q)' => Ordered(rank, q)')
  BY DEF Forward
<1>3. Untouched(q) /\ (Steady(q) => Ordered(rank, q))
  BY DEF Before, Forward
<1>4. cuts'[q] \in Nat /\ cuts[q] <= cuts'[q]
  BY <1>1, <1>2, CountTypes
<1>5. \A v \in Workers : cur[v] = q => v # w
  BY <1>1, <1>2, RunsAssumption DEF Hands
<1>. QED BY <1>1, <1>2, <1>3, <1>4, <1>5, OtherKeeps

\* A run that is loaded stands at the block its row names.
LEMMA ForwardLoads ==
  ASSUME NEW rank, Before(rank), NEW w \in Workers, NEW r \in Runs, Loads(w, r)
  PROVE  Forward(rank)'
<1>1. TypeOK /\ Hands /\ Safe /\ Opened
  BY DEF Before
<1>2. /\ UNCHANGED <<status, node, did, cuts, flow>>
      /\ cur'[w] = r /\ pc'[w] = "resolve" /\ at'[w] = node[r]
      /\ \A v \in Workers \ {w} : cur'[v] = cur[v] /\ pc'[v] = pc[v] /\ at'[v] = at[v]
  BY <1>1 DEF Loads, TypeOK, PassType, row, seen
<1>3. r \in batch[w] /\ cur[w] = None /\ status[r] \notin Skipped
  BY <1>1 DEF Loads, Hands, Busy
<1>4. ASSUME NEW q \in Runs, q # r
      PROVE  Untouched(q)' /\ (Steady(q)' => Ordered(rank, q)')
  <2>1. Untouched(q) /\ (Steady(q) => Ordered(rank, q))
    BY DEF Before, Forward
  <2>2. cuts'[q] \in Nat /\ cuts[q] <= cuts'[q]
    BY <1>1, <1>2, CountTypes
  <2>3. \A v \in Workers : cur[v] = q \/ cur'[v] = q => v # w
    BY <1>2, <1>3, <1>4, RunsAssumption
  <2>. QED BY <1>1, <1>2, <2>1, <2>2, <2>3, OtherKeeps
<1>5. Untouched(r)'
  BY <1>2 DEF Before, Forward, Untouched
<1>6. ASSUME Steady(r)' PROVE Ordered(rank, r)'
  <2>1. Steady(r)
    BY <1>2, <1>6 DEF Steady, OneProcess
  <2>2. Ordered(rank, r)
    BY <2>1 DEF Before, Forward
  <2>3. \A v \in Workers : cur[v] # r
    BY <1>1, <1>3, <2>1, OnlyHolder, RunsAssumption
  <2>4. Behind(rank, r, node[r])
    BY <1>3, <2>2, <2>3 DEF Ordered, Handled
  <2>5. InPlace(rank, w, r)'
    BY <1>2, <2>4 DEF InPlace, Behind
  <2>6. \A v \in Workers : cur'[v] = r => v = w
    BY <1>2, <2>3
  <2>7. Handled(r)' /\ \A n \in Nodes : did'[r][n] <= 1 + cuts'[r]
    BY <1>2, <2>2 DEF Ordered, Handled
  <2>. QED BY <2>5, <2>6, <2>7 DEF Ordered
<1>. QED BY <1>4, <1>5, <1>6 DEF Forward

\* A walk starts where the row stands, or at the trigger with nothing done.
LEMMA ForwardStarts ==
  ASSUME NEW rank, Before(rank), NEW w \in Workers, Starts(w)
  PROVE  Forward(rank)'
<1>0. Busy(w) /\ pc[w] = "resolve" /\ TypeOK
  BY DEF Starts, Busy, Before
<1>1. PICK r \in Runs : r = cur[w]
  BY <1>0, OwnRun
<1>2. /\ r # None /\ status[r] # "absent"
      /\ Steady(r) => Ordered(rank, r) /\ \A v \in Workers : cur[v] = r => v = w
  BY <1>0, <1>1, OwnRun, RunsAssumption
<1>3. PICK g \in Graphs : g = graph
  BY <1>0 DEF TypeOK, DeskType
<1>4. /\ UNCHANGED <<status, node, did, cuts, cur>>
      /\ pc'[w] = "walk" /\ at'[w] = Entry(g, at[w]) /\ flow'[w] = g
      /\ \A v \in Workers \ {w} : pc'[v] = pc[v] /\ at'[v] = at[v] /\ flow'[v] = flow[v]
  BY <1>0, <1>3 DEF Starts, TypeOK, PassType, row, seen
<1>5. ASSUME NEW q \in Runs, q # r
      PROVE  Untouched(q)' /\ (Steady(q)' => Ordered(rank, q)')
  BY <1>0, <1>1, <1>4, <1>5, ElsewhereKeeps
<1>6. Untouched(r)'
  BY <1>2, <1>4 DEF Untouched
<1>7. ASSUME Steady(r)' PROVE Ordered(rank, r)'
  <2>1. Steady(r)
    BY <1>4, <1>7 DEF Steady, OneProcess
  <2>2. Behind(rank, r, at[w])
    BY <1>0, <1>1, <1>2, <2>1 DEF Ordered, InPlace
  <2>3. at'[w] # None => at'[w] \in flow'[w].nodes /\ (at[w] # None => at'[w] = at[w])
    BY <1>4, GraphsAssumption DEF Entry
  <2>4. at'[w] # None => Behind(rank, r, at[w])'
    BY <1>4, <2>2, <2>3 DEF Behind
  <2>5. InPlace(rank, w, r)'
    BY <1>4, <2>3, <2>4 DEF InPlace
  <2>6. \A v \in Workers : cur'[v] = r => v = w
    BY <1>2, <1>4, <2>1
  <2>7. Handled(r)' /\ \A n \in Nodes : did'[r][n] <= 1 + cuts'[r]
    BY <1>1, <1>2, <1>4, <2>1 DEF Ordered, Handled
  <2>. QED BY <2>5, <2>6, <2>7 DEF Ordered
<1>. QED BY <1>5, <1>6, <1>7 DEF Forward

\* Where nothing acts and no fault is counted, all that acted stays behind.
LEMMA StillCounts ==
  ASSUME NEW rank, Order(rank), Before(rank), NEW w \in Workers, Busy(w),
         UNCHANGED <<did, cuts>>
  PROVE  /\ Counts(rank, w)
         /\ Steady(cur[w]) /\ (pc[w] = "resolve" \/ at[w] # None) =>
              Behind(rank, cur[w], at[w])
<1>1. PICK r \in Runs : r = cur[w]
  BY OwnRun
<1>2. Steady(r) => Ordered(rank, r)
  BY <1>1, OwnRun
<1>3. cuts[r] \in Nat
  BY CountTypes DEF Before
<1>4. Steady(r) /\ (pc[w] = "resolve" \/ at[w] # None) => Behind(rank, r, at[w])
  BY <1>1, <1>2 DEF Ordered, InPlace, Busy
<1>5. ASSUME Steady(r), NEW k \in Nodes, did[r][k] > cuts[r], at[w] # None
      PROVE  rank[k] <= rank[at[w]]
  <2>1. rank[k] < rank[at[w]]
    BY <1>4, <1>5 DEF Behind
  <2>2. at[w] \in Nodes
    BY <1>5 DEF Before, TypeOK, PassType
  <2>. QED BY <2>1, <2>2 DEF Order
<1>6. Steady(r) => \A k \in Nodes : did[r][k] <= 1 + cuts[r]
  BY <1>2 DEF Ordered
<1>7. Counts(rank, w)
  BY <1>1, <1>3, <1>5, <1>6 DEF Counts
<1>. QED BY <1>1, <1>4, <1>7

\* An action that acts had not acted more often than faults explain.
LEMMA ActsCounts ==
  ASSUME NEW rank, Order(rank), Before(rank), NEW w \in Workers, Reaches(w), Acts(w),
         \/ UNCHANGED cuts
         \/ cuts' = [cuts EXCEPT ![cur[w]] = @ + 1]
  PROVE  /\ Counts(rank, w)
         /\ Steady(cur[w]) /\ ~UNCHANGED cuts =>
              \A k \in Nodes : did'[cur[w]][k] <= cuts'[cur[w]]
<1>0. pc[w] = "walk" /\ Busy(w) /\ TypeOK
  BY DEF Reaches, Busy, Before
<1>1. PICK r \in Runs : r = cur[w]
  BY <1>0, OwnRun
<1>2. PICK b \in Nodes : b = at[w]
  BY NamesAssumption DEF Reaches, Before, TypeOK, PassType
<1>3. Steady(r) => Ordered(rank, r)
  BY <1>0, <1>1, OwnRun
<1>4. /\ cuts[r] \in Nat /\ \A k \in Nodes : did[r][k] \in Nat
      /\ \A k \in Nodes : rank[k] \in Nat
  BY <1>0, CountTypes DEF Order
<1>5. /\ \A q \in Runs \ {r} : did'[q] = did[q]
      /\ did'[r][b] = did[r][b] + 1 /\ \A k \in Nodes \ {b} : did'[r][k] = did[r][k]
  <2>1. did' = [did EXCEPT ![r][b] = @ + 1]
    BY <1>1, <1>2 DEF Acts
  <2>. QED BY <1>0, <2>1 DEF TypeOK, SeenType
<1>6. /\ \A q \in Runs \ {r} : cuts'[q] = cuts[q]
      /\ cuts'[r] = cuts[r] \/ cuts'[r] = cuts[r] + 1
      /\ ~UNCHANGED cuts => cuts'[r] = cuts[r] + 1
  BY <1>0, <1>1 DEF TypeOK, SeenType
<1>7. ASSUME Steady(r)
      PROVE  /\ did[r][b] <= cuts[r]
             /\ \A k \in Nodes : /\ did[r][k] <= 1 + cuts[r]
                                 /\ did[r][k] > cuts[r] => rank[k] < rank[b]
  <2>1. Behind(rank, r, b)
    BY <1>0, <1>1, <1>2, <1>3, <1>7, NamesAssumption DEF Ordered, InPlace
  <2>2. \A k \in Nodes : did[r][k] > cuts[r] => rank[k] < rank[b]
    BY <2>1 DEF Behind
  <2>3. did[r][b] <= cuts[r]
    BY <1>4, <2>2
  <2>. QED BY <1>3, <1>7, <2>2, <2>3 DEF Ordered
<1>8. ASSUME Steady(r), NEW k \in Nodes
      PROVE  /\ did'[r][k] <= 1 + cuts'[r]
             /\ did'[r][k] > cuts'[r] => rank[k] <= rank[b]
             /\ ~UNCHANGED cuts => did'[r][k] <= cuts'[r]
  <2>1. CASE k = b
    BY <1>4, <1>5, <1>6, <1>7, <1>8, <2>1
  <2>2. CASE k # b
    BY <1>4, <1>5, <1>6, <1>7, <1>8, <2>2
  <2>. QED BY <2>1, <2>2
<1>9. cuts'[r] \in Nat /\ cuts[r] <= cuts'[r]
  BY <1>4, <1>6
<1>10. Counts(rank, w)
  BY <1>1, <1>2, <1>5, <1>6, <1>8, <1>9 DEF Counts
<1>. QED BY <1>1, <1>8, <1>10

LEMMA ForwardPicks ==
  ASSUME NEW rank, Order(rank), Before(rank), NEW w \in Workers, Picks(w)
  PROVE  Forward(rank)'
<1>1. ASSUME NEW r \in Runs, SkipsFinished(w, r) PROVE Forward(rank)'
  <2>1. UNCHANGED <<status, node, did, cuts, pc, cur, at, flow>>
    BY <1>1 DEF SkipsFinished, row, seen
  <2>2. \A q \in Runs : cuts'[q] \in Nat /\ cuts[q] <= cuts'[q]
    BY <2>1, CountTypes DEF Before
  <2>. QED BY <2>1, <2>2, ForwardStutters
<1>2. CASE CancelsWhenOff(w)
  <2>1. pc[w] = "resolve" /\ Busy(w) /\ UNCHANGED <<did, cuts>>
    BY <1>2 DEF CancelsWhenOff, Busy, seen
  <2>2. /\ Counts(rank, w)
        /\ Steady(cur[w]) => Behind(rank, cur[w], at[w]) /\ at[w] = node[cur[w]]
    BY <2>1, StillCounts, OwnRun DEF Ordered, InPlace
  <2>3. Steady(cur[w]) => \A k \in Nodes :
          did'[cur[w]][k] > cuts'[cur[w]] =>
            node[cur[w]] # None /\ rank[k] < rank[node[cur[w]]]
    BY <2>1, <2>2 DEF Behind
  <2>. QED BY <1>2, <2>1, <2>2, <2>3, StopsForward DEF CancelsWhenOff, Closes
<1>3. CASE FailsWithoutAccess(w)
  <2>1. Busy(w) /\ UNCHANGED <<did, cuts>>
    BY <1>3 DEF FailsWithoutAccess, Busy, seen
  <2>2. "failed" \in Skipped /\ "failed" # "absent"
    BY DEF Skipped
  <2>. QED BY <1>3, <2>1, <2>2, StillCounts, StopsForward DEF FailsWithoutAccess, Closes
<1>. QED BY <1>1, <1>2, <1>3, ForwardLoads, ForwardStarts DEF Picks

\* The catch of an action: on to the error port, out of the queue, or back to
\* this block, which has not acted more often than faults explain.
LEMMA RecoversForward ==
  ASSUME NEW rank, Order(rank), Before(rank), NEW w \in Workers, OnBlock(w, {"action"}),
         Recovers(w), Counts(rank, w),
         Steady(cur[w]) => \A k \in Nodes :
           did'[cur[w]][k] > cuts'[cur[w]] => rank[k] < rank[at[w]]
  PROVE  Forward(rank)'
<1>1. Reaches(w) /\ Busy(w) /\ at[w] # None
  BY DEF OnBlock, Reaches, Busy
<1>2. CASE GoesOn(w, "error") /\ UNCHANGED row
  BY <1>1, <1>2, GoesForward DEF Ports, row
<1>3. CASE /\ Saves(w, "failed", node[cur[w]], due[cur[w]], walked[w] + 1, tried[w] + 1)
           /\ LetsGo(w)
  <2>1. "failed" \in Skipped /\ "failed" # "absent"
    BY DEF Skipped
  <2>. QED BY <1>1, <1>3, <2>1, StopsForward
<1>4. CASE /\ Saves(w, "pending", at[w], FALSE, walked[w] + 1, tried[w] + 1)
           /\ LetsGo(w)
  BY <1>1, <1>4, StopsForward
<1>. QED BY <1>2, <1>3, <1>4 DEF Recovers

\* A walk that ends leaves its run finished, or asleep at the block behind.
LEMMA ForwardEnds ==
  ASSUME NEW rank, Order(rank), Before(rank), NEW w \in Workers,
         HitsCeiling(w) \/ FallsOff(w) \/ Ends(w) \/ FailsUnknown(w) \/ EndsSeeding(w)
  PROVE  Forward(rank)'
<1>1. Busy(w) /\ UNCHANGED <<did, cuts>> /\ LetsGo(w)
  BY DEF HitsCeiling, FallsOff, Ends, FailsUnknown, EndsSeeding, OnBlock, Reaches, Busy, seen
<1>2. PICK st, n, s :
        st \in Skipped /\ Saves(w, st, n, due[cur[w]], s, tries[cur[w]])
  BY DEF HitsCeiling, FallsOff, Ends, FailsUnknown, EndsSeeding, Skipped
<1>3. Counts(rank, w)
  BY <1>1, StillCounts
<1>4. st # "absent"
  BY <1>2 DEF Skipped
<1>. QED BY <1>1, <1>2, <1>3, <1>4, StopsForward

LEMMA ForwardSleeps ==
  ASSUME NEW rank, Order(rank), Before(rank), NEW w \in Workers, Sleeps(w)
  PROVE  Forward(rank)'
<1>1. /\ pc[w] = "walk" /\ at[w] # None /\ Busy(w) /\ UNCHANGED <<did, cuts>>
      /\ flow[w].kind[at[w]] = "delay"
  BY DEF Sleeps, OnBlock, Reaches, Busy
<1>2. PICK m : m = SleepsAt(flow[w], at[w])
  OBVIOUS
<1>3. /\ Counts(rank, w)
      /\ Steady(cur[w]) => Behind(rank, cur[w], at[w])
  BY <1>1, StillCounts
<1>4. ASSUME Steady(cur[w]), NEW k \in Nodes, did[cur[w]][k] > cuts[cur[w]]
      PROVE  m # None /\ rank[k] < rank[m]
  <2>1. PICK g \in Graphs : g = flow[w]
    BY <1>1, WalkFacts DEF Before
  <2>2. PICK b : b = at[w]
    OBVIOUS
  <2>3. b \in g.nodes
    BY <1>1, <1>4, <2>1, <2>2, OwnRun DEF Ordered, InPlace
  <2>4. m = g.next[b]["next"]
    BY <1>2, <2>1, <2>2 DEF SleepsAt, Successor
  <2>5. m # None
    BY <1>1, <2>1, <2>2, <2>3, <2>4 DEF Order, WaitsLead
  <2>6. rank[b] < rank[m] /\ m \in g.nodes
    BY <2>3, <2>4, <2>5, GraphsAssumption DEF Order, Rising, Ports
  <2>7. b \in Nodes /\ m \in Nodes
    BY <2>3, <2>6, GraphsAssumption DEF Drawing
  <2>8. rank[b] \in Nat /\ rank[m] \in Nat /\ rank[k] \in Nat
    BY <2>7 DEF Order
  <2>9. rank[k] < rank[b]
    BY <1>3, <1>4, <2>2 DEF Behind
  <2>. QED BY <2>5, <2>6, <2>8, <2>9
<1>5. /\ Saves(w, "waiting", m, FALSE, walked[w] + 1, tries[cur[w]])
      /\ LetsGo(w)
  BY <1>2 DEF Sleeps
<1>. QED BY <1>1, <1>3, <1>4, <1>5, StopsForward

\* A for-each stays at its block while it opens the runs of its items.
LEMMA ForwardSeeds ==
  ASSUME NEW rank, Before(rank), NEW w \in Workers,
         BeginsSeeding(w) \/ \E i \in Items : SeedsItem(w, i)
  PROVE  Forward(rank)'
<1>a. TypeOK /\ Hands
  BY DEF Before
<1>1. ASSUME NEW i \in Items, SeedsItem(w, i) PROVE Forward(rank)'
  <2>1. UNCHANGED <<did, cuts, pc, cur, at, flow>>
    BY <1>1 DEF SeedsItem, seen
  <2>2. CASE UNCHANGED row
    <3>1. \A q \in Runs : cuts'[q] \in Nat /\ cuts[q] <= cuts'[q]
      BY <1>a, <2>1, CountTypes
    <3>. QED BY <2>1, <2>2, <3>1, ForwardStutters DEF row
  <2>3. CASE status[<<cur[w], i>>] = "absent" /\
             Insert(<<cur[w], i>>, Successor(flow[w], at[w], "next"))
    <3>1. <<cur[w], i>> \in Runs
      BY <1>a, <1>1 DEF SeedsItem, Hands, Runs
    <3>. QED BY <2>1, <2>3, <3>1, InsertForward
  <2>. QED BY <1>1, <2>2, <2>3 DEF SeedsItem
<1>2. CASE BeginsSeeding(w)
  <2>0. pc[w] = "walk" /\ Busy(w) /\ at[w] # None
    BY <1>2 DEF BeginsSeeding, OnBlock, Reaches, Busy
  <2>1. PICK r \in Runs : r = cur[w]
    BY <2>0, OwnRun
  <2>2. /\ UNCHANGED <<status, node, did, cuts, cur, at, flow>>
        /\ pc'[w] = "seed" /\ \A v \in Workers \ {w} : pc'[v] = pc[v]
    BY <1>a, <1>2 DEF BeginsSeeding, TypeOK, PassType, row, seen
  <2>3. ASSUME NEW q \in Runs, q # r
        PROVE  Untouched(q)' /\ (Steady(q)' => Ordered(rank, q)')
    BY <2>0, <2>1, <2>2, <2>3, ElsewhereKeeps
  <2>4. Untouched(r)'
    BY <2>2 DEF Before, Forward, Untouched
  <2>5. ASSUME Steady(r)' PROVE Ordered(rank, r)'
    <3>1. Steady(r)
      BY <2>2, <2>5 DEF Steady, OneProcess
    <3>2. Ordered(rank, r) /\ \A v \in Workers : cur[v] = r => v = w
      BY <2>0, <2>1, <3>1, OwnRun
    <3>3. InPlace(rank, w, r)'
      BY <2>0, <2>1, <2>2, <3>2 DEF Ordered, InPlace, Behind
    <3>4. Handled(r)' /\ \A n \in Nodes : did'[r][n] <= 1 + cuts'[r]
      BY <2>1, <2>2, <3>2 DEF Ordered, Handled
    <3>. QED BY <2>2, <3>2, <3>3, <3>4 DEF Ordered
  <2>. QED BY <2>3, <2>4, <2>5 DEF Forward
<1>. QED BY <1>1, <1>2

LEMMA ForwardWalks ==
  ASSUME NEW rank, Order(rank), Before(rank), NEW w \in Workers, Walks(w)
  PROVE  Forward(rank)'
<1>1. CASE HitsCeiling(w) \/ FallsOff(w) \/ Ends(w) \/ FailsUnknown(w) \/ EndsSeeding(w)
  BY <1>1, ForwardEnds
<1>2. CASE Sleeps(w)
  BY <1>2, ForwardSleeps
<1>3. CASE BeginsSeeding(w) \/ \E i \in Items : SeedsItem(w, i)
  BY <1>3, ForwardSeeds
<1>4. CASE SkipsDisabled(w) \/ Passes(w)
  <2>1. Reaches(w) /\ UNCHANGED <<row, did, cuts>>
    BY <1>4 DEF SkipsDisabled, Passes, OnBlock
  <2>2. PICK p \in Ports : GoesOn(w, p)
    BY <1>4 DEF SkipsDisabled, Passes, Ports
  <2>3. Counts(rank, w)
    BY <2>1, StillCounts DEF Reaches, Busy
  <2>. QED BY <2>1, <2>2, <2>3, GoesForward DEF row
<1>5. CASE Succeeds(w)
  <2>1. Reaches(w) /\ Acts(w) /\ GoesOn(w, "next") /\ UNCHANGED <<row, cuts>>
    BY <1>5 DEF Succeeds, OnBlock
  <2>2. Counts(rank, w)
    BY <2>1, ActsCounts
  <2>. QED BY <2>1, <2>2, GoesForward DEF row, Ports
<1>6. CASE ActionFails(w)
  <2>1. OnBlock(w, {"action"}) /\ Recovers(w) /\ UNCHANGED <<did, cuts>>
    BY <1>6 DEF ActionFails
  <2>2. Busy(w) /\ at[w] # None
    BY <2>1 DEF OnBlock, Reaches, Busy
  <2>3. Counts(rank, w) /\ (Steady(cur[w]) => Behind(rank, cur[w], at[w]))
    BY <2>1, <2>2, StillCounts
  <2>4. Steady(cur[w]) => \A k \in Nodes :
          did'[cur[w]][k] > cuts'[cur[w]] => rank[k] < rank[at[w]]
    BY <2>1, <2>3 DEF Behind
  <2>. QED BY <2>1, <2>3, <2>4, RecoversForward
<1>7. CASE ActionTears(w)
  <2>1. /\ OnBlock(w, {"action"}) /\ Reaches(w) /\ Acts(w) /\ Recovers(w)
        /\ cuts' = [cuts EXCEPT ![cur[w]] = @ + 1]
    BY <1>7 DEF ActionTears, OnBlock
  <2>2. PICK r \in Runs : r = cur[w]
    BY <2>1, OwnRun DEF Reaches, Busy
  <2>3. cuts'[r] = cuts[r] + 1 /\ cuts[r] \in Nat
    BY <2>1, <2>2 DEF Before, TypeOK, SeenType
  <2>a. ~UNCHANGED cuts
    BY <2>3
  <2>4. Counts(rank, w) /\ (Steady(r) => \A k \in Nodes : did'[r][k] <= cuts'[r])
    <3>1. Counts(rank, w)
      BY <2>1, ActsCounts
    <3>2. Steady(cur[w]) => \A k \in Nodes : did'[cur[w]][k] <= cuts'[cur[w]]
      BY <2>1, <2>a, ActsCounts
    <3>. QED BY <2>2, <3>1, <3>2
  <2>5. TypeOK /\ at[w] \in Nodes
    BY <2>1, WalkFacts DEF Before, Reaches
  <2>6. did' \in [Runs -> [Nodes -> Nat]]
    BY <2>1, <2>2, <2>5, SeenFacts DEF TypeOK
  <2>7. Steady(r) => \A k \in Nodes : did'[r][k] > cuts'[r] => rank[k] < rank[at[w]]
    BY <2>3, <2>4, <2>6
  <2>. QED BY <2>1, <2>2, <2>4, <2>7, RecoversForward
<1>. QED BY <1>1, <1>2, <1>3, <1>4, <1>5, <1>6, <1>7 DEF Walks

\* A pass that is left as it is: its run is hit, and what acted is accounted for.
LEMMA ForwardAbandons ==
  ASSUME NEW rank, Before(rank), NEW w \in Workers, Abandons(w)
  PROVE  Forward(rank)'
<1>1. TypeOK /\ Hands
  BY DEF Before
<1>2. /\ UNCHANGED <<status, node, did>> /\ cur'[w] = None
      /\ \A v \in Workers \ {w} :
           cur'[v] = cur[v] /\ pc'[v] = pc[v] /\ at'[v] = at[v] /\ flow'[v] = flow[v]
  BY <1>1 DEF Abandons, TypeOK, PassType
<1>3. /\ \A q \in Runs : q # cur[w] => cuts'[q] = cuts[q]
      /\ \A q \in Runs : q = cur[w] => cuts'[q] = cuts[q] + 1
  BY <1>1, RunsAssumption DEF Abandons, Hands
<1> SUFFICES ASSUME NEW q \in Runs
             PROVE  Untouched(q)' /\ (Steady(q)' => Ordered(rank, q)')
  BY DEF Forward
<1>4. Untouched(q) /\ (Steady(q) => Ordered(rank, q))
  BY DEF Before, Forward
<1>5. cuts[q] \in Nat /\ \A n \in Nodes : did[q][n] \in Nat
  BY <1>1, CountTypes
<1>6. CASE q # cur[w]
  <2>1. \A v \in Workers : cur[v] = q \/ cur'[v] = q => v # w
    BY <1>2, <1>6, RunsAssumption
  <2>. QED BY <1>1, <1>2, <1>3, <1>4, <1>5, <1>6, <2>1, OtherKeeps
<1>7. CASE q = cur[w]
  <2>1. Untouched(q)'
    BY <1>2, <1>4 DEF Untouched
  <2>2. ASSUME Steady(q)' PROVE Ordered(rank, q)'
    <3>1. OneProcess
      BY <1>3, <1>5, <1>7, <2>2 DEF Steady, OneProcess
    <3>2. \A n \in Nodes : did'[q][n] <= cuts'[q]
      BY <1>2, <1>3, <1>4, <1>5, <1>7, <3>1 DEF Steady, Ordered
    <3>3. cuts'[q] \in Nat /\ \A n \in Nodes : did'[q][n] \in Nat
      BY <1>2, <1>3, <1>5, <1>7
    <3>4. Behind(rank, q, node[q])' /\ \A n \in Nodes : did'[q][n] <= 1 + cuts'[q]
      BY <3>2, <3>3 DEF Behind
    <3>5. \A v \in Workers : cur'[v] # q
      BY <1>2, <3>1, RunsAssumption DEF OneProcess
    <3>. QED BY <3>4, <3>5 DEF Ordered
  <2>. QED BY <2>1, <2>2
<1>. QED BY <1>6, <1>7

LEMMA ForwardStep ==
  ASSUME NEW rank, Order(rank), Before(rank), [Next]_vars
  PROVE  Forward(rank)'
<1>1. CASE UNCHANGED vars
  <2>1. \A q \in Runs : cuts'[q] \in Nat /\ cuts[q] <= cuts'[q]
    BY <1>1, CountTypes DEF Before, vars, seen
  <2>. QED BY <1>1, <2>1, ForwardStutters DEF vars, row, pass, seen
<1>. QED BY <1>1, ForwardDesk, ForwardQueue, ForwardClaims, ForwardPicks,
            ForwardWalks, ForwardAbandons DEF Next, Pass, Breaks, Crashes

\* The invariant, for any order of the blocks.
LEMMA ForwardHolds ==
  ASSUME NEW rank, Order(rank)
  PROVE  Spec => []Forward(rank)
<1>1. Init => Forward(rank)
  BY ForwardInit
<1>2. IInv /\ Opened /\ Forward(rank) /\ [Next]_vars => Forward(rank)'
  BY ForwardStep DEF Before, IInv, Safe
<1>. QED BY <1>1, <1>2, Inductive, OpenedHolds, PTL DEF Spec

\* Without a fault no block acts twice for one run, for every number of
\* processes and every edit of the drawing: neither sleeping, nor retrying, nor
\* a process that takes over repeats what was done, as long as the drawings of
\* the automation have no cycle and no wait at their end.
THEOREM EffectsHappenOnce ==
  ASSUME Loopless
  PROVE  Spec => []EffectsOnce
<1>1. PICK rank : Order(rank)
  BY DEF Loopless, Order
<1>2. Forward(rank) => EffectsOnce
  BY DEF Forward, Steady, Ordered, EffectsOnce
<1>. QED BY <1>1, <1>2, ForwardHolds, PTL

\* With faults, and one process, every effect beyond the first has a fault of
\* its own that hit the run: a crash, a torn action, a pass over five minutes.
THEOREM RepeatsAreFaults ==
  ASSUME Loopless, OneProcess
  PROVE  Spec => []RepeatsOnlyAfterFault
<1>1. PICK rank : Order(rank)
  BY DEF Loopless, Order
<1>2. Forward(rank) => RepeatsOnlyAfterFault
  BY DEF Forward, Steady, Ordered, RepeatsOnlyAfterFault
<1>. QED BY <1>1, <1>2, ForwardHolds, PTL

-----------------------------------------------------------------------------
(* One process: what it chose stays as it chose it until it walks it.      *)

\* Nobody else closes or puts to sleep what the process still means to walk.
Chosen ==
  \A w \in Workers :
    /\ cand[w] # {} => pc[w] \in {"stamp", "take"}
    /\ \A r \in cand[w] \cup batch[w] : status[r] \in Open /\ due[r]

\* The rows a process keeps in its batch after a step are left as they were,
\* or have just appeared.
Spares(w) ==
  \A q \in batch'[w] :
    /\ q \in batch[w]
    /\ \/ status'[q] = status[q] /\ due'[q] = due[q]
       \/ status'[q] = "pending" /\ due'[q]

LEMMA SparesChosen ==
  ASSUME OneProcess, Chosen, NEW w \in Workers,
         pc[w] \notin {"stamp", "take"}, UNCHANGED cand, Spares(w)
  PROVE  Chosen'
<1>1. cand[w] = {} /\ cand'[w] = {}
  BY DEF Chosen
<1>2. \A q \in batch'[w] : status'[q] \in Open /\ due'[q]
  BY DEF Chosen, Spares, Open
<1>. QED BY <1>1, <1>2 DEF OneProcess, Chosen

\* Writing one run back and letting it go spares the others of the batch.
LEMMA StopsSpare ==
  ASSUME TypeOK, Hands, NEW w \in Workers, Busy(w), NEW st, NEW n, NEW d, NEW s, NEW t,
         Saves(w, st, n, d, s, t), LetsGo(w)
  PROVE  Spares(w)
<1>1. cur[w] \in Runs /\ batch[w] \subseteq Runs
  BY InHand DEF TypeOK, PassType
<1>2. batch'[w] = batch[w] \ {cur[w]}
  BY DEF TypeOK, PassType, LetsGo
<1>3. \A q \in Runs \ {cur[w]} : status'[q] = status[q] /\ due'[q] = due[q]
  BY <1>1 DEF TypeOK, RowType, Saves
<1>. QED BY <1>1, <1>2, <1>3 DEF Spares

LEMMA InsertSpares ==
  ASSUME TypeOK, NEW w \in Workers, NEW r \in Runs, NEW n, Insert(r, n), UNCHANGED batch
  PROVE  Spares(w)
<1>1. /\ status'[r] = "pending" /\ due'[r]
      /\ \A q \in Runs \ {r} : status'[q] = status[q] /\ due'[q] = due[q]
  BY DEF TypeOK, RowType, Insert
<1>. QED BY <1>1 DEF Spares, TypeOK, PassType

LEMMA PicksSpare ==
  ASSUME TypeOK, Hands, NEW w \in Workers, Picks(w)
  PROVE  Spares(w) /\ UNCHANGED cand /\ pc[w] \notin {"stamp", "take"}
<1>1. UNCHANGED cand /\ pc[w] \notin {"stamp", "take"}
  BY DEF Picks, SkipsFinished, Loads, CancelsWhenOff, FailsWithoutAccess, Closes,
     Starts, LetsGo
<1> SUFFICES Spares(w)
  BY <1>1
<1>2. CASE CancelsWhenOff(w) \/ FailsWithoutAccess(w)
  <2>1. Busy(w) /\ LetsGo(w)
    BY <1>2 DEF CancelsWhenOff, FailsWithoutAccess, Closes, Busy
  <2>2. PICK st : Saves(w, st, node[cur[w]], due[cur[w]], steps[cur[w]], tries[cur[w]])
    BY <1>2 DEF CancelsWhenOff, FailsWithoutAccess, Closes
  <2>. QED BY <2>1, <2>2, StopsSpare
<1>3. ASSUME NEW r \in Runs, SkipsFinished(w, r) PROVE Spares(w)
  <2>1. UNCHANGED <<status, due>> /\ batch'[w] \subseteq batch[w]
    BY <1>3 DEF SkipsFinished, row, TypeOK, PassType
  <2>. QED BY <2>1 DEF Spares
<1>4. ASSUME NEW r \in Runs, Loads(w, r) \/ Starts(w) PROVE Spares(w)
  BY <1>4 DEF Loads, Starts, row, Spares
<1>5. CASE Starts(w)
  BY <1>5 DEF Starts, row, Spares
<1>. QED BY <1>1, <1>2, <1>3, <1>4, <1>5 DEF Picks

LEMMA WalksSpare ==
  ASSUME TypeOK, Hands, NEW w \in Workers, Walks(w)
  PROVE  Spares(w) /\ UNCHANGED cand /\ pc[w] \in {"walk", "seed"}
<1>1. UNCHANGED cand /\ pc[w] \in {"walk", "seed"}
  BY DEF Walks, HitsCeiling, FallsOff, SkipsDisabled, Sleeps, Ends, Passes,
     FailsUnknown, Succeeds, ActionFails, ActionTears, BeginsSeeding, EndsSeeding,
     SeedsItem, OnBlock, Reaches, Recovers, GoesOn, LetsGo
<1> SUFFICES Spares(w)
  BY <1>1
<1>2. Busy(w)
  BY <1>1 DEF Busy
<1>3. CASE UNCHANGED <<row, batch>>
  <2>1. UNCHANGED <<status, due, batch>>
    BY <1>3 DEF row
  <2>. QED BY <2>1 DEF Spares
<1>4. CASE /\ LetsGo(w)
           /\ \E st, n, d, s, t : Saves(w, st, n, d, s, t)
  <2>1. PICK st, n, d, s, t : Saves(w, st, n, d, s, t)
    BY <1>4
  <2>. QED BY <1>2, <1>4, <2>1, StopsSpare
<1>5. CASE Recovers(w)
  BY <1>3, <1>4, <1>5 DEF Recovers, GoesOn
<1>6. CASE HitsCeiling(w) \/ FallsOff(w) \/ Sleeps(w) \/ Ends(w) \/ FailsUnknown(w)
           \/ EndsSeeding(w)
  BY <1>4, <1>6 DEF HitsCeiling, FallsOff, Sleeps, Ends, FailsUnknown, EndsSeeding
<1>7. ASSUME NEW i \in Items, SeedsItem(w, i) PROVE Spares(w)
  <2>1. <<cur[w], i>> \in Runs /\ UNCHANGED batch
    BY <1>7 DEF SeedsItem, Hands, Runs
  <2>2. CASE UNCHANGED row
    BY <1>3, <2>1, <2>2
  <2>3. CASE Insert(<<cur[w], i>>, Successor(flow[w], at[w], "next"))
    BY <2>1, <2>3, InsertSpares
  <2>. QED BY <1>7, <2>2, <2>3 DEF SeedsItem
<1>8. CASE SkipsDisabled(w) \/ Passes(w) \/ Succeeds(w) \/ BeginsSeeding(w)
  BY <1>3, <1>8 DEF SkipsDisabled, Passes, Succeeds, BeginsSeeding, GoesOn
<1>. QED BY <1>1, <1>5, <1>6, <1>7, <1>8 DEF Walks, ActionFails, ActionTears

LEMMA ChosenStep ==
  ASSUME OneProcess, TypeOK, Hands, Chosen, [Next]_vars
  PROVE  Chosen'
<1>1. CASE Desk \/ UNCHANGED vars
  BY <1>1 DEF Desk, Enable, Disable, SaveBegins, SaveEnds, Delete, RevokeAccess,
     vars, row, pass, Chosen
<1>2. CASE Queue
  <2>1. PICK r \in Runs : Enqueue(r) \/ WakeElapses(r) \/ LockAges(r) \/ PassDrags(r)
    BY <1>2 DEF Queue
  <2>2. UNCHANGED <<pc, cand, batch>>
    BY <2>1 DEF Enqueue, WakeElapses, LockAges, PassDrags, pass
  <2>3. \A q \in Runs : status[q] \in Open /\ due[q] => status'[q] \in Open /\ due'[q]
    BY <2>1 DEF Enqueue, Insert, WakeElapses, LockAges, PassDrags, TypeOK, RowType, Open
  <2>. QED BY <2>2, <2>3 DEF Chosen, TypeOK, PassType
<1>3. ASSUME NEW w \in Workers, Claims(w) PROVE Chosen'
  <2>1. UNCHANGED <<status, due>>
    BY <1>3 DEF Claims, ClaimReads, ClaimStamps, ClaimTakes, BatchEnds, row
  <2>2. CASE ClaimReads(w)
    <3>1. PICK C \in SUBSET Claimable : cand' = [cand EXCEPT ![w] = C]
      BY <2>2 DEF ClaimReads
    <3>2. pc'[w] = "stamp" /\ cand'[w] = C /\ batch'[w] = {}
      BY <2>2, <3>1 DEF ClaimReads, TypeOK, PassType, Hands, Busy
    <3>. QED BY <2>1, <3>2 DEF Chosen, OneProcess, Claimable
  <2>3. CASE ClaimStamps(w) \/ ClaimTakes(w) \/ BatchEnds(w)
    <3>1. cand'[w] \cup batch'[w] \subseteq cand[w] \cup batch[w]
      BY <2>3 DEF ClaimStamps, ClaimTakes, BatchEnds, TypeOK, PassType
    <3>2. cand'[w] # {} => pc'[w] \in {"stamp", "take"}
      BY <2>3 DEF ClaimStamps, ClaimTakes, BatchEnds, TypeOK, PassType, Chosen
    <3>. QED BY <2>1, <3>1, <3>2 DEF Chosen, OneProcess
  <2>. QED BY <1>3, <2>2, <2>3 DEF Claims
<1>4. ASSUME NEW w \in Workers, Picks(w) \/ Walks(w) PROVE Chosen'
  BY <1>4, PicksSpare, WalksSpare, SparesChosen
<1>5. ASSUME NEW w \in Workers, Abandons(w) PROVE Chosen'
  <2>1. cand'[w] = {} /\ batch'[w] = {}
    BY <1>5 DEF Abandons, TypeOK, PassType
  <2>. QED BY <2>1 DEF Chosen, OneProcess
<1>. QED BY <1>1, <1>2, <1>3, <1>4, <1>5 DEF Next, Pass, Breaks, Crashes

LEMMA ChosenHolds ==
  ASSUME OneProcess
  PROVE  Spec => []Chosen
<1>1. Init => Chosen
  BY DEF Init, Chosen
<1>2. IInv /\ Chosen /\ [Next]_vars => Chosen'
  BY ChosenStep DEF IInv
<1>. QED BY <1>1, <1>2, Inductive, PTL DEF Spec

\* One process walks a run only when the wait it was put to sleep with is over:
\* crashes, slow passes and edits of the drawing change nothing in that.
THEOREM OneProcessKeepsWaits ==
  ASSUME OneProcess
  PROVE  Spec => WaitsAreKept
<1> DEFINE Kept == \A w \in Workers :
                     pc[w] = "batch" /\ pc'[w] = "resolve" => due[cur'[w]]
<1>1. IInv /\ Chosen /\ [Next]_vars => Kept
  <2> SUFFICES ASSUME IInv, Chosen, [Next]_vars, NEW w \in Workers,
                      pc[w] = "batch", pc'[w] = "resolve"
               PROVE  due[cur'[w]]
    OBVIOUS
  <2>0. PassType
    BY DEF IInv, TypeOK
  <2>1. ~(Desk \/ Queue \/ UNCHANGED vars)
    BY DEF Desk, Enable, Disable, SaveBegins, SaveEnds, Delete, RevokeAccess, Queue,
       Enqueue, WakeElapses, LockAges, PassDrags, vars, pass
  <2>2. Pass(w) \/ Crashes(w)
    BY <2>1 DEF Next, OneProcess
  <2>3. ~Claims(w) /\ ~Breaks(w) /\ ~Crashes(w)
    BY <2>0 DEF Claims, ClaimReads, ClaimStamps, ClaimTakes, BatchEnds, Breaks, Crashes,
       Abandons, PassType
  <2>4. ~Walks(w)
    BY WalksSpare DEF IInv
  <2>5. PICK r \in Runs : SkipsFinished(w, r) \/ Loads(w, r)
    BY <2>2, <2>3, <2>4 DEF Pass, Picks, CancelsWhenOff, FailsWithoutAccess, Starts
  <2>6. Loads(w, r)
    BY <2>5 DEF SkipsFinished
  <2>7. cur'[w] = r /\ r \in batch[w]
    BY <2>0, <2>6 DEF Loads, PassType
  <2>. QED BY <2>7 DEF Chosen
<1>2. IInv /\ Chosen /\ [Next]_vars => [Kept]_vars
  BY <1>1
<1>3. Spec => [][Kept]_vars
  BY <1>2, Inductive, ChosenHolds, PTL DEF Spec
<1>. QED BY <1>3 DEF WaitsAreKept

\* With one process a run cancelled because the automation was off stays
\* cancelled, even when the automation is turned on again before the next pass.
THEOREM OneProcessKeepsCancelled ==
  ASSUME OneProcess
  PROVE  Spec => CancelledStands
<1> DEFINE Stay == \A r \in Runs : status[r] = "cancelled" => status'[r] = "cancelled"
<1>1. IInv /\ Chosen /\ [Next]_vars => Stay
  <2> SUFFICES ASSUME IInv, Chosen, [Next]_vars, NEW r \in Runs, status[r] = "cancelled"
               PROVE  status'[r] = "cancelled"
    OBVIOUS
  <2>0. TypeOK /\ Hands
    BY DEF IInv
  <2>1. CASE Desk \/ UNCHANGED vars
    BY <2>1 DEF Desk, Enable, Disable, SaveBegins, SaveEnds, Delete, RevokeAccess,
       vars, row
  <2>2. CASE Queue
    BY <2>0, <2>2 DEF Queue, Enqueue, Insert, WakeElapses, LockAges, PassDrags,
       TypeOK, RowType
  <2>3. ASSUME NEW w \in Workers, Claims(w) \/ Breaks(w) \/ Crashes(w)
        PROVE  UNCHANGED status
    BY <2>3 DEF Claims, ClaimReads, ClaimStamps, ClaimTakes, BatchEnds, row, Breaks,
       Crashes, Abandons
  <2>4. ASSUME NEW w \in Workers, Picks(w) \/ Walks(w) PROVE status'[r] = status[r]
    <3>1. r # cur[w] \/ ~Busy(w)
      BY <2>0 DEF Hands, Chosen, Open
    <3>. QED BY <2>0, <2>4, <3>1, PassTouches
  <2>. QED BY <2>1, <2>2, <2>3, <2>4 DEF Next, Pass
<1>2. IInv /\ Chosen /\ [Next]_vars => [Stay]_vars
  BY <1>1
<1>3. Spec => [][Stay]_vars
  BY <1>2, Inductive, ChosenHolds, PTL DEF Spec
<1>. QED BY <1>3 DEF CancelledStands

=============================================================================
