-------------------------- MODULE EnrollmentProofs --------------------------
(* What the queue of the team promises, for any number of people, rows,    *)
(* groups and requests at once.                                            *)
EXTENDS EnrollmentDesk, SumsProofs, TLAPS

-----------------------------------------------------------------------------
(* Types.                                                                  *)

LEMMA InitTyped == Init => TypeOK
  BY EnrollmentAssumption DEF Init, TypeOK, Free, Request, Rows

\* The requests that take up a row hold values of their kind.
LEMMA TakesTyped ==
  ASSUME TypeOK, NEW w \in Team, NEW r \in Rows, NEW q \in Request, Takes(w, r, q)
  PROVE  TypeOK'
  BY DEF TypeOK, Takes

LEMMA FreeTyped == Free \in Request
  BY DEF Free, Request

LEMMA ArrivalsTyped ==
  ASSUME TypeOK,
         \/ \E f \in Forms, s \in Senders : Arrives(f, s) \/ Stores(f, s)
         \/ \E q \in Requests : Asks(q)
  PROVE  TypeOK'
<1>1. CASE \E f \in Forms, s \in Senders : Arrives(f, s)
  BY <1>1 DEF TypeOK, Arrives
<1>2. CASE \E f \in Forms, s \in Senders : Stores(f, s)
  BY <1>2 DEF TypeOK, Stores, Rows
<1>3. CASE \E q \in Requests : Asks(q)
  BY <1>3 DEF TypeOK, Asks, Rows, Queue
<1> QED
  BY <1>1, <1>2, <1>3

LEMMA BeginningsTyped ==
  ASSUME TypeOK, NEW w \in Team,
         \/ \E r \in Rows, g \in Groups : AllocBegins(w, r, g)
         \/ \E b \in Bookings : HandBegins(w, b)
         \/ \E r \in Rows : DiscardBegins(w, r) \/ ReprocessBegins(w, r)
  PROVE  TypeOK'
<1>1. CASE \E r \in Rows, g \in Groups : AllocBegins(w, r, g)
  <2>1. PICK r \in Rows, g \in Groups : AllocBegins(w, r, g)
    BY <1>1
  <2> DEFINE q == [Free EXCEPT !.act = "check", !.row = r, !.target = <<g, Head[r]>>,
                               !.party = {Head[r]} \cup With[r]]
  <2>2. q \in Request
    BY EnrollmentAssumption DEF Free, Request, Bookings
  <2> QED
    BY <2>1, <2>2, TakesTyped DEF AllocBegins
<1>2. CASE \E b \in Bookings : HandBegins(w, b)
  <2>1. PICK b \in Bookings : HandBegins(w, b)
    BY <1>2
  <2> DEFINE q == [Free EXCEPT !.act = "check", !.target = b, !.party = {b[2]}]
  <2>2. q \in Request
    BY DEF Free, Request, Bookings
  <2> QED
    BY <2>1, <2>2 DEF HandBegins, TypeOK
<1>3. CASE \E r \in Rows : DiscardBegins(w, r)
  <2>1. \A r \in Rows : [Free EXCEPT !.act = "discard", !.row = r] \in Request
    BY DEF Free, Request
  <2> QED
    BY <1>3, <2>1, TakesTyped DEF DiscardBegins
<1>4. CASE \E r \in Rows : ReprocessBegins(w, r)
  <2>1. \A r \in Rows : [Free EXCEPT !.act = "reprocess", !.row = r] \in Request
    BY DEF Free, Request
  <2> QED
    BY <1>4, <2>1, TakesTyped DEF ReprocessBegins
<1> QED
  BY <1>1, <1>2, <1>3, <1>4

LEMMA EndingsTyped ==
  ASSUME TypeOK, RequestsAreWhole, NEW w \in Team,
         \/ Checks(w) \/ Commits(w) \/ Fails(w) \/ DiscardWrites(w) \/ ReprocessWrites(w)
  PROVE  TypeOK'
<1> USE DEF Drops
<1>1. CASE Checks(w)
  <2>1. Missing(team[w].party) \in SUBSET People /\ Frozen(team[w].row) \in Rules \cup {None}
    BY DEF TypeOK, Missing, Frozen, Request
  <2> DEFINE q == [team[w] EXCEPT !.act = "commit", !.missing = Missing(team[w].party),
                                  !.rule = Frozen(team[w].row)]
  <2>2. team[w] \in Request
    BY DEF TypeOK
  <2>3. q \in Request
    BY <2>1, <2>2 DEF Request
  <2>4. team' = [team EXCEPT ![w] = q]
    BY <1>1 DEF Checks, TypeOK
  <2>5. team' \in [Team -> Request]
    BY <2>3, <2>4 DEF TypeOK
  <2> QED
    BY <1>1, <2>5 DEF Checks, TypeOK
<1>2. CASE Commits(w)
  <2>1. /\ team[w] \in Request /\ team[w].target \in Bookings
        /\ team[w].missing \subseteq People
    BY <1>2 DEF TypeOK, Request, Commits, RequestsAreWhole
  <2>2. [status |-> "pending", source |-> Source(team[w].row), rule |-> team[w].rule,
         party |-> team[w].party, row |-> team[w].row] \in Booking
    BY <2>1 DEF Booking, Request, Source
  <2>3. booking' \in [Bookings -> Booking \cup {None}] /\ customers' \subseteq People
    BY <1>2, <2>1, <2>2 DEF Commits, TypeOK
  <2>4. /\ intake' \in [Rows -> {"absent"} \cup Queue \cup Left]
        /\ given' \in [Rows -> Bookings \cup {None}]
    BY <1>2, <2>1 DEF Commits, TypeOK, Left
  <2> QED
    BY <1>2, <2>3, <2>4, FreeTyped DEF Commits, TypeOK
<1>3. CASE Fails(w)
  BY <1>3, FreeTyped DEF Fails, TypeOK
<1>4. CASE DiscardWrites(w)
  BY <1>4, FreeTyped DEF DiscardWrites, TypeOK, Left
<1>5. CASE ReprocessWrites(w)
  BY <1>5, FreeTyped DEF ReprocessWrites, TypeOK
<1> QED
  BY <1>1, <1>2, <1>3, <1>4, <1>5

LEMMA OthersTyped ==
  ASSUME TypeOK,
         \/ \E b \in Bookings, st \in {"confirmed", "cancelled"} : Moves(b, st)
         \/ \E v \in Rules \cup {None} : SetsRule(v)
  PROVE  TypeOK'
  BY DEF TypeOK, Moves, SetsRule, Booking

-----------------------------------------------------------------------------
(* What a request holds.                                                   *)

LEMMA WholeKept ==
  ASSUME TypeOK, RequestsAreWhole, [Next]_vars
  PROVE  RequestsAreWhole'
<1>1. CASE UNCHANGED team
  BY <1>1 DEF RequestsAreWhole
<1>2. ASSUME NEW w \in Team, NEW q \in Request, team' = [team EXCEPT ![w] = q],
             q.act \in {"check", "commit"} => q.target \in Bookings,
             q.missing \subseteq q.party
      PROVE  RequestsAreWhole'
  BY <1>2 DEF RequestsAreWhole, TypeOK
<1>3. CASE \E w \in Team, r \in Rows, g \in Groups : AllocBegins(w, r, g)
  <2>1. PICK w \in Team, r \in Rows, g \in Groups : AllocBegins(w, r, g)
    BY <1>3
  <2> DEFINE q == [Free EXCEPT !.act = "check", !.row = r, !.target = <<g, Head[r]>>,
                               !.party = {Head[r]} \cup With[r]]
  <2>2. q \in Request /\ q.target \in Bookings /\ q.missing \subseteq q.party
    BY EnrollmentAssumption DEF Free, Request, Bookings
  <2> QED
    BY <1>2, <2>1, <2>2 DEF AllocBegins, Takes
<1>4. CASE \E w \in Team, b \in Bookings : HandBegins(w, b)
  <2>1. PICK w \in Team, b \in Bookings : HandBegins(w, b)
    BY <1>4
  <2> DEFINE q == [Free EXCEPT !.act = "check", !.target = b, !.party = {b[2]}]
  <2>2. q \in Request /\ q.target \in Bookings /\ q.missing \subseteq q.party
    BY DEF Free, Request, Bookings
  <2> QED
    BY <1>2, <2>1, <2>2 DEF HandBegins
<1>5. CASE \E w \in Team, r \in Rows : DiscardBegins(w, r) \/ ReprocessBegins(w, r)
  <2>1. \A r \in Rows, act \in {"discard", "reprocess"} :
          LET q == [Free EXCEPT !.act = act, !.row = r]
          IN q \in Request /\ q.act \notin {"check", "commit"} /\ q.missing \subseteq q.party
    BY DEF Free, Request
  <2> QED
    BY <1>2, <1>5, <2>1 DEF DiscardBegins, ReprocessBegins, Takes
<1>6. CASE \E w \in Team : Checks(w)
  <2>1. PICK w \in Team : Checks(w)
    BY <1>6
  <2>2. /\ team[w] \in Request /\ team[w].target \in Bookings
        /\ Missing(team[w].party) \subseteq team[w].party
    BY <2>1 DEF TypeOK, RequestsAreWhole, Checks, Missing
  <2>3. \A v \in Team \ {w} : team'[v] = team[v]
    BY <2>1 DEF Checks, TypeOK
  <2>4. /\ team'[w].target = team[w].target /\ team'[w].party = team[w].party
        /\ team'[w].missing = Missing(team[w].party)
    BY <2>1, <2>2 DEF Checks, TypeOK, Request
  <2> QED
    BY <2>2, <2>3, <2>4 DEF RequestsAreWhole
<1>7. CASE \E w \in Team : Commits(w) \/ Fails(w) \/ DiscardWrites(w) \/ ReprocessWrites(w)
  <2>1. Free \in Request /\ Free.act \notin {"check", "commit"} /\ Free.missing \subseteq Free.party
    BY FreeTyped DEF Free
  <2> QED
    BY <1>2, <1>7, <2>1 DEF Commits, Fails, DiscardWrites, ReprocessWrites, Drops
<1> QED
  BY <1>1, <1>3, <1>4, <1>5, <1>6, <1>7
     DEF Next, vars, Arrives, Stores, Asks, Moves, SetsRule

LEMMA TypesKept ==
  ASSUME TypeOK, RequestsAreWhole, [Next]_vars
  PROVE  TypeOK'
<1>1. CASE UNCHANGED vars
  BY <1>1 DEF TypeOK, vars
<1> QED
  BY <1>1, ArrivalsTyped, BeginningsTyped, EndingsTyped, OthersTyped DEF Next

-----------------------------------------------------------------------------
(* A row that no two requests were at together is as its request read it.  *)

\* A request that takes up a row as it stands.
LEMMA TakesRead ==
  ASSUME TypeOK, RowsAreAsRead, NEW w \in Team, NEW r \in Rows, NEW q \in Request,
         Takes(w, r, q), q.row = r,
         q.act \in {"check", "commit"} => intake[r] = "needs_allocation",
         q.act \in {"discard", "reprocess"} => intake[r] \in Queue
  PROVE  RowsAreAsRead'
<1>1. /\ team' = [team EXCEPT ![w] = q] /\ team \in [Team -> Request]
      /\ crossed \subseteq crossed' /\ intake' = intake
      /\ r \notin crossed' => \A v \in Team : team[v].row # r
  BY DEF Takes, TypeOK
<1> SUFFICES ASSUME NEW x \in Rows \ crossed', NEW u \in Team, team'[u].row = x
             PROVE  /\ \A v \in Team : team'[v].row = x => v = u
                    /\ team'[u].act \in {"check", "commit"} => intake'[x] = "needs_allocation"
                    /\ team'[u].act \in {"discard", "reprocess"} => intake'[x] \in Queue
  BY DEF RowsAreAsRead
<1>2. CASE x = r
  <2>1. u = w /\ \A v \in Team : team'[v].row = x => v = w
    BY <1>1, <1>2
  <2> QED
    BY <1>1, <1>2, <2>1
<1>3. CASE x # r
  <2>1. u # w /\ \A v \in Team : team'[v].row = x => team[v].row = x
    BY <1>1, <1>3
  <2> QED
    BY <1>1, <1>3, <2>1 DEF RowsAreAsRead
<1> QED
  BY <1>2, <1>3

\* A request that ends, and what it writes to its own row.
LEMMA EndsRead ==
  ASSUME TypeOK, RowsAreAsRead, NEW w \in Team, Drops(w), UNCHANGED crossed,
         \A x \in Rows : x # team[w].row => intake'[x] = intake[x]
  PROVE  RowsAreAsRead'
<1>1. team' = [team EXCEPT ![w] = Free] /\ team \in [Team -> Request] /\ Free.row \notin Rows
  BY EnrollmentAssumption DEF Drops, TypeOK, Free
<1> SUFFICES ASSUME NEW x \in Rows \ crossed', NEW u \in Team, team'[u].row = x
             PROVE  /\ \A v \in Team : team'[v].row = x => v = u
                    /\ team'[u].act \in {"check", "commit"} => intake'[x] = "needs_allocation"
                    /\ team'[u].act \in {"discard", "reprocess"} => intake'[x] \in Queue
  BY DEF RowsAreAsRead
<1>2. u # w /\ team'[u] = team[u] /\ \A v \in Team : team'[v].row = x => team[v].row = x
  BY <1>1
<1>3. /\ \A v \in Team : team[v].row = x => v = u
      /\ team[u].act \in {"check", "commit"} => intake[x] = "needs_allocation"
      /\ team[u].act \in {"discard", "reprocess"} => intake[x] \in Queue
  BY <1>2 DEF RowsAreAsRead
<1>4. intake'[x] = intake[x]
  BY <1>2, <1>3
<1> QED
  BY <1>2, <1>3, <1>4

\* A row that is written for the first time.
LEMMA FirstWriteRead ==
  ASSUME TypeOK, RowsAreAsRead, UNCHANGED <<team, crossed>>,
         \A x \in Rows : intake[x] # "absent" => intake'[x] = intake[x]
  PROVE  RowsAreAsRead'
<1> SUFFICES ASSUME NEW x \in Rows \ crossed, NEW u \in Team, team[u].row = x
             PROVE  /\ \A v \in Team : team[v].row = x => v = u
                    /\ team[u].act \in {"check", "commit"} => intake'[x] = "needs_allocation"
                    /\ team[u].act \in {"discard", "reprocess"} => intake'[x] \in Queue
  BY DEF RowsAreAsRead
<1> QED
  BY DEF RowsAreAsRead, Queue

LEMMA ReadKept ==
  ASSUME TypeOK, RowsAreAsRead, [Next]_vars
  PROVE  RowsAreAsRead'
<1>1. CASE UNCHANGED <<intake, team, crossed>>
  BY <1>1 DEF RowsAreAsRead
<1>2. CASE \E f \in Forms, s \in Senders : Stores(f, s)
  <2>1. \A x \in Rows : intake[x] # "absent" => intake'[x] = intake[x]
    BY <1>2 DEF Stores, TypeOK
  <2> QED
    BY <1>2, <2>1, FirstWriteRead DEF Stores
<1>3. CASE \E q \in Requests : Asks(q)
  <2>1. \A x \in Rows : intake[x] # "absent" => intake'[x] = intake[x]
    BY <1>3 DEF Asks, TypeOK
  <2> QED
    BY <1>3, <2>1, FirstWriteRead DEF Asks
<1>4. CASE \E w \in Team, r \in Rows, g \in Groups : AllocBegins(w, r, g)
  <2>1. PICK w \in Team, r \in Rows, g \in Groups : AllocBegins(w, r, g)
    BY <1>4
  <2> DEFINE q == [Free EXCEPT !.act = "check", !.row = r, !.target = <<g, Head[r]>>,
                               !.party = {Head[r]} \cup With[r]]
  <2>2. q \in Request /\ q.row = r /\ q.act = "check"
    BY EnrollmentAssumption DEF Free, Request, Bookings
  <2> QED
    BY <2>1, <2>2, TakesRead DEF AllocBegins
<1>5. CASE \E w \in Team, b \in Bookings : HandBegins(w, b)
  <2>1. PICK w \in Team, b \in Bookings : HandBegins(w, b)
    BY <1>5
  <2> DEFINE q == [Free EXCEPT !.act = "check", !.target = b, !.party = {b[2]}]
  <2>2. q.row \notin Rows
    BY EnrollmentAssumption DEF Free
  <2>3. \A v \in Team : team'[v].row \in Rows => v # w /\ team'[v] = team[v]
    BY <2>1, <2>2 DEF HandBegins, TypeOK
  <2> QED
    BY <2>1, <2>3 DEF HandBegins, RowsAreAsRead
<1>6. CASE \E w \in Team, r \in Rows : DiscardBegins(w, r) \/ ReprocessBegins(w, r)
  <2>1. \A r \in Rows, act \in {"discard", "reprocess"} :
          LET q == [Free EXCEPT !.act = act, !.row = r]
          IN q \in Request /\ q.row = r /\ q.act = act
    BY DEF Free, Request
  <2> QED
    BY <1>6, <2>1, TakesRead DEF DiscardBegins, ReprocessBegins, Reprocessable, Queue
<1>7. CASE \E w \in Team : Checks(w)
  <2>1. PICK w \in Team : Checks(w)
    BY <1>7
  <2>2. /\ \A v \in Team : team'[v].row = team[v].row
        /\ \A v \in Team \ {w} : team'[v] = team[v]
        /\ team[w].act = "check" /\ team'[w].act = "commit"
        /\ intake' = intake /\ crossed' = crossed
    BY <2>1 DEF Checks, TypeOK, Request
  <2> SUFFICES ASSUME NEW x \in Rows \ crossed, NEW u \in Team, team[u].row = x
               PROVE  /\ \A v \in Team : team[v].row = x => v = u
                      /\ team'[u].act \in {"check", "commit"} => intake[x] = "needs_allocation"
                      /\ team'[u].act \in {"discard", "reprocess"} => intake[x] \in Queue
    BY <2>2 DEF RowsAreAsRead
  <2>3. u = w \/ team'[u] = team[u]
    BY <2>2
  <2> QED
    BY <2>2, <2>3 DEF RowsAreAsRead
<1>8. CASE \E w \in Team : Commits(w) \/ Fails(w) \/ DiscardWrites(w) \/ ReprocessWrites(w)
  <2>1. PICK w \in Team : Commits(w) \/ Fails(w) \/ DiscardWrites(w) \/ ReprocessWrites(w)
    BY <1>8
  <2>2. Drops(w) /\ UNCHANGED crossed
    BY <2>1 DEF Commits, Fails, DiscardWrites, ReprocessWrites
  <2>3. \A x \in Rows : x # team[w].row => intake'[x] = intake[x]
    BY <2>1 DEF Commits, Fails, DiscardWrites, ReprocessWrites, TypeOK
  <2> QED
    BY <2>2, <2>3, EndsRead
<1> QED
  BY <1>1, <1>2, <1>3, <1>4, <1>5, <1>6, <1>7, <1>8
     DEF Next, vars, Arrives, Moves, SetsRule

-----------------------------------------------------------------------------
(* Bookings are made at a commit, and only there.                          *)

\* What a commit does to the bookings: one more, for the row it allocates.
LEMMA CommitMakes ==
  ASSUME TypeOK, RequestsAreWhole, NEW w \in Team, Commits(w)
  PROVE  LET q == team[w] IN
         /\ q.target \in Bookings /\ booking[q.target] = None
         /\ booking'[q.target] # None /\ booking'[q.target].row = q.row
         /\ booking'[q.target].party = q.party
         /\ \A b \in Bookings : b # q.target => booking'[b] = booking[b]
         /\ \A r \in Rows : Made(r)' = IF r = q.row THEN Made(r) \cup {q.target} ELSE Made(r)
<1> DEFINE q == team[w]
           new == [status |-> "pending", source |-> Source(q.row), rule |-> q.rule,
                   party |-> q.party, row |-> q.row]
<1>1. /\ q \in Request /\ q.target \in Bookings /\ q.missing \subseteq People
      /\ booking[q.target] = None
  BY DEF TypeOK, Request, Commits, RequestsAreWhole, Clear
<1>2. new \in Booking
  BY <1>1 DEF Booking, Request, Source
<1>3. new # None
  BY <1>2, EnrollmentAssumption
<1>4. booking' = [booking EXCEPT ![q.target] = new] /\ booking \in [Bookings -> Booking \cup {None}]
  BY DEF Commits, TypeOK
<1>5. booking'[q.target] = new /\ \A b \in Bookings : b # q.target => booking'[b] = booking[b]
  BY <1>1, <1>4
<1>6. ASSUME NEW r \in Rows
      PROVE  Made(r)' = IF r = q.row THEN Made(r) \cup {q.target} ELSE Made(r)
  BY <1>1, <1>3, <1>5 DEF Made
<1> QED
  BY <1>1, <1>3, <1>5, <1>6

\* Nothing else makes a booking or unmakes one.
LEMMA OthersMakeNone ==
  ASSUME TypeOK, [Next]_vars, \A w \in Team : ~Commits(w)
  PROVE  /\ \A b \in Bookings : booking[b] # None => booking'[b] # None
         /\ \A b \in Bookings : booking[b] # None => booking'[b].party = booking[b].party
         /\ \A r \in Rows : Made(r)' = Made(r)
<1>1. CASE UNCHANGED booking
  BY <1>1 DEF Made
<1>2. CASE \E b \in Bookings, st \in {"confirmed", "cancelled"} : Moves(b, st)
  <2>1. PICK b \in Bookings, st \in {"confirmed", "cancelled"} : Moves(b, st)
    BY <1>2
  <2>2. booking[b] \in Booking /\ booking' = [booking EXCEPT ![b].status = st]
    BY <2>1 DEF Moves, TypeOK
  <2>3. /\ booking'[b] \in Booking /\ booking'[b].row = booking[b].row
        /\ booking'[b].party = booking[b].party
    BY <2>2 DEF TypeOK, Booking
  <2>4. booking'[b] # None /\ booking[b] # None
    BY <2>2, <2>3, EnrollmentAssumption
  <2>5. \A c \in Bookings : c # b => booking'[c] = booking[c]
    BY <2>2 DEF TypeOK
  <2> QED
    BY <2>3, <2>4, <2>5 DEF Made
<1> QED
  BY <1>1, <1>2
     DEF Next, vars, Arrives, Stores, Asks, AllocBegins, HandBegins, DiscardBegins,
         ReprocessBegins, Takes, Checks, Fails, DiscardWrites, ReprocessWrites, SetsRule

\* Only a commit allocates a row.
LEMMA OthersAllocateNone ==
  ASSUME TypeOK, [Next]_vars, \A w \in Team : ~Commits(w)
  PROVE  /\ given' = given /\ customers' = customers
         /\ \A r \in Rows : intake'[r] = "allocated" => intake[r] = "allocated"
<1>1. given' = given /\ customers' = customers
  BY DEF Next, vars, Arrives, Stores, Asks, AllocBegins, HandBegins, DiscardBegins,
         ReprocessBegins, Takes, Checks, Fails, DiscardWrites, ReprocessWrites, SetsRule, Moves
<1>2. CASE UNCHANGED intake
  BY <1>1, <1>2
<1>3. CASE \E f \in Forms, s \in Senders : Stores(f, s)
  BY <1>1, <1>3 DEF Stores, TypeOK, Queue
<1>4. CASE \E q \in Requests : Asks(q)
  BY <1>1, <1>4 DEF Asks, TypeOK
<1>5. CASE \E w \in Team : DiscardWrites(w) \/ ReprocessWrites(w)
  BY <1>1, <1>5 DEF DiscardWrites, ReprocessWrites, TypeOK, Queue
<1> QED
  BY <1>2, <1>3, <1>4, <1>5
     DEF Next, vars, Arrives, AllocBegins, HandBegins, DiscardBegins,
         ReprocessBegins, Takes, Checks, Fails, SetsRule, Moves

LEMMA AllocationKept ==
  ASSUME TypeOK, RequestsAreWhole, AllocationIsWhole, [Next]_vars
  PROVE  AllocationIsWhole'
<1>1. CASE \A w \in Team : ~Commits(w)
  <2>1. \A r \in Rows : Made(r)' = Made(r)
    BY <1>1, OthersMakeNone
  <2>2. /\ given' = given /\ customers' = customers
        /\ \A r \in Rows : intake'[r] = "allocated" => intake[r] = "allocated"
    BY <1>1, OthersAllocateNone
  <2>3. \A b \in Bookings : booking[b] # None =>
          booking'[b] # None /\ booking'[b].party = booking[b].party
    BY <1>1, OthersMakeNone
  <2> QED
    BY <2>1, <2>2, <2>3 DEF AllocationIsWhole
<1>2. CASE \E w \in Team : Commits(w)
  <2>1. PICK w \in Team : Commits(w)
    BY <1>2
  <2> DEFINE q == team[w]
  <2>2. /\ q.target \in Bookings /\ booking[q.target] = None
        /\ booking'[q.target] # None /\ booking'[q.target].party = q.party
        /\ \A b \in Bookings : b # q.target => booking'[b] = booking[b]
        /\ \A r \in Rows : Made(r)' = IF r = q.row THEN Made(r) \cup {q.target} ELSE Made(r)
    BY <2>1, CommitMakes
  <2>3. /\ intake' = [r \in Rows |-> IF r = q.row THEN "allocated" ELSE intake[r]]
        /\ given' = [r \in Rows |-> IF r = q.row THEN q.target ELSE given[r]]
        /\ customers' = customers \cup q.missing /\ q.missing \subseteq q.party
    BY <2>1 DEF Commits, RequestsAreWhole
  <2>4. \A r \in Rows : intake'[r] = "allocated" => given'[r] # None
    BY <2>2, <2>3, EnrollmentAssumption DEF AllocationIsWhole
  <2>5. \A r \in Rows : given'[r] # None => given'[r] \in Made(r)'
    BY <2>2, <2>3 DEF AllocationIsWhole
  <2>6. ASSUME NEW p \in customers' \ Known
        PROVE  \E b \in Bookings : booking'[b] # None /\ p \in booking'[b].party
    BY <2>2, <2>3, <2>6 DEF AllocationIsWhole
  <2> QED
    BY <2>4, <2>5, <2>6 DEF AllocationIsWhole
<1> QED
  BY <1>1, <1>2

-----------------------------------------------------------------------------
(* A submission leaves the queue once.                                     *)

\* A row that was allocated or discarded stands, unless it was crossed.
LEMMA LeftStands ==
  ASSUME TypeOK, RowsAreAsRead, [Next]_vars, NEW r \in Rows \ crossed', intake[r] \in Left
  PROVE  intake'[r] = intake[r]
<1>1. r \notin crossed /\ intake[r] \notin Queue /\ intake[r] # "absent"
  <2>1. crossed \subseteq crossed'
    BY DEF Next, vars, Arrives, Stores, Asks, AllocBegins, HandBegins, DiscardBegins, Takes,
           ReprocessBegins, Checks, Commits, Fails, DiscardWrites, ReprocessWrites, SetsRule, Moves
  <2> QED
    BY <2>1 DEF Left, Queue
<1>2. \A w \in Team : team[w].row = r => team[w].act \notin {"check", "commit", "discard", "reprocess"}
  BY <1>1 DEF RowsAreAsRead, Queue
<1>3. CASE UNCHANGED intake
  BY <1>3
<1>4. CASE \E f \in Forms, s \in Senders : Stores(f, s)
  BY <1>1, <1>4 DEF Stores, TypeOK
<1>5. CASE \E q \in Requests : Asks(q)
  BY <1>1, <1>5 DEF Asks, TypeOK
<1>6. CASE \E w \in Team : Commits(w)
  BY <1>2, <1>6 DEF Commits
<1>7. CASE \E w \in Team : DiscardWrites(w) \/ ReprocessWrites(w)
  BY <1>2, <1>7 DEF DiscardWrites, ReprocessWrites, TypeOK
<1> QED
  BY <1>3, <1>4, <1>5, <1>6, <1>7
     DEF Next, vars, Arrives, AllocBegins, HandBegins, DiscardBegins, Takes,
         ReprocessBegins, Checks, Fails, SetsRule, Moves

LEMMA OneBookingKept ==
  ASSUME TypeOK, RequestsAreWhole, RowsAreAsRead, OneBookingPerSubmission, [Next]_vars
  PROVE  OneBookingPerSubmission'
<1>1. crossed \subseteq crossed'
  BY DEF Next, vars, Arrives, Stores, Asks, AllocBegins, HandBegins, DiscardBegins, Takes,
         ReprocessBegins, Checks, Commits, Fails, DiscardWrites, ReprocessWrites, SetsRule, Moves
<1> SUFFICES ASSUME NEW r \in Rows \ crossed'
             PROVE  Made(r)' = IF intake'[r] = "allocated" THEN {given'[r]} ELSE {}
  BY DEF OneBookingPerSubmission
<1>2. Made(r) = IF intake[r] = "allocated" THEN {given[r]} ELSE {}
  BY <1>1 DEF OneBookingPerSubmission
<1>3. CASE \A w \in Team : ~Commits(w)
  <2>1. Made(r)' = Made(r) /\ given' = given
    BY <1>3, OthersMakeNone, OthersAllocateNone
  <2>2. intake'[r] = "allocated" <=> intake[r] = "allocated"
    BY <1>3, OthersAllocateNone, LeftStands DEF Left
  <2> QED
    BY <1>2, <2>1, <2>2
<1>4. CASE \E w \in Team : Commits(w)
  <2>1. PICK w \in Team : Commits(w)
    BY <1>4
  <2>2. Made(r)' = IF r = team[w].row THEN Made(r) \cup {team[w].target} ELSE Made(r)
    BY <2>1, CommitMakes
  <2>3. /\ intake'[r] = IF r = team[w].row THEN "allocated" ELSE intake[r]
        /\ given'[r] = IF r = team[w].row THEN team[w].target ELSE given[r]
    BY <2>1 DEF Commits
  <2>4. r = team[w].row => intake[r] = "needs_allocation"
    BY <1>1, <2>1 DEF RowsAreAsRead, Commits
  <2> QED
    BY <1>2, <2>2, <2>3, <2>4
<1> QED
  BY <1>3, <1>4

-----------------------------------------------------------------------------
(* The promises.                                                           *)

LEMMA DeskStarts == Init => DeskInv
<1> SUFFICES ASSUME Init PROVE DeskInv
  OBVIOUS
<1>1. TypeOK
  BY InitTyped
<1>2. RequestsAreWhole
  BY DEF Init, RequestsAreWhole, Free
<1>3. RowsAreAsRead
  BY EnrollmentAssumption DEF Init, RowsAreAsRead, Free
<1>4. AllocationIsWhole
  BY DEF Init, AllocationIsWhole
<1>5. OneBookingPerSubmission
  BY DEF Init, OneBookingPerSubmission, Made
<1> QED
  BY <1>1, <1>2, <1>3, <1>4, <1>5 DEF DeskInv

LEMMA DeskInductive == DeskInv /\ [Next]_vars => DeskInv'
  BY TypesKept, WholeKept, ReadKept, AllocationKept, OneBookingKept DEF DeskInv

LEMMA DeskHolds == Spec => []DeskInv
  BY DeskStarts, DeskInductive, PTL DEF Spec

\* Rows, customers, bookings and requests always hold values of their kind.
THEOREM DeskIsTyped == Spec => []TypeOK
<1>1. DeskInv => TypeOK
  BY DEF DeskInv
<1> QED
  BY <1>1, DeskHolds, PTL

\* allocateFromQueue is all or nothing, however many requests of the team, forms
\* and failures are mixed: an allocated row names a booking made for it, and no
\* customer is left behind without one.
THEOREM NothingIsHalfAllocated == Spec => []AllocationIsWhole
<1>1. DeskInv => AllocationIsWhole
  BY DEF DeskInv
<1> QED
  BY <1>1, DeskHolds, PTL

\* However often a form is delivered and its row worked and refused, it ends in
\* one booking at most, unless two requests of the team were at it together.
THEOREM SubmissionsAreBookedOnce == Spec => []OneBookingPerSubmission
<1>1. DeskInv => OneBookingPerSubmission
  BY DEF DeskInv
<1> QED
  BY <1>1, DeskHolds, PTL

\* A row that was allocated or discarded never comes back, with the same exception.
THEOREM TheQueueIsLeftOnce == Spec => QueueIsLeftOnce
<1>1. DeskInv /\ [Next]_vars =>
        [\A r \in Rows \ crossed' : intake[r] \in Left => intake'[r] = intake[r]]_vars
  BY LeftStands DEF DeskInv
<1> QED
  BY <1>1, DeskHolds, PTL DEF Spec, QueueIsLeftOnce
-----------------------------------------------------------------------------
(* The credit of the customers.                                            *)

\* The desk works the queue and nothing else happens to it.
LEMMA DeskWorksTheQueue == DeskSpec => Spec
<1>1. DeskInit => Init
  BY DEF DeskInit
<1>2. [DeskNext]_<<vars, entries>> => [Next]_vars
  BY DEF DeskNext, vars, entries
<1>. QED BY <1>1, <1>2, PTL DEF DeskSpec, Spec

LEMMA CreditSums ==
  ASSUME NEW f, NEW S
  PROVE  Credit!Sum(f, S) = SumOver(f, S)
BY DEF Credit!Sum, Credit!MapThenSumSet, Credit!MapThenFoldSet,
       SumOver, MapThenSumSet, MapThenFoldSet

Busy(k) == clerk[k] # Credit!Idle
Paid(p) == SumOver(spent, Credit!Of(p))
Put(p) == SumOver(earned, Credit!Of(p)) + SumOver(granted, Credit!Of(p))

\* A request has one booking in hand, but for the one that lists what expires;
\* until two overlapped there is one request at most.
ClerksWork ==
  /\ \A k \in Clerks :
       /\ clerk[k].act = "none" => ~Busy(k)
       /\ clerk[k].act \in {"accrue", "redeem"} => \A b, e \in Bookings :
            clerk[k].todo[b] > 0 /\ clerk[k].todo[e] > 0 => b = e
  /\ ~raced => \A j, k \in Clerks : Busy(j) /\ Busy(k) => j = k

\* A rule is only frozen on what was asked for in the app.
RulesAreAsked ==
  /\ \A w \in Team : team[w].rule # None => team[w].row \in Requests
  /\ \A b \in Bookings : booking[b] # None /\ booking[b].rule # None
       => booking[b].source = "portal"

\* What a booking earned, and what it is about to, is within its rule.
Allows(b, n) == booking[b] # None /\ booking[b].rule # None /\ n <= booking[b].rule
EarnsByRule ==
  \A b \in Bookings :
    /\ earned[b] > 0 => booking[b] # None /\ booking[b].rule # None
    /\ ~raced /\ earned[b] > 0 => Allows(b, earned[b])
    /\ \A k \in Clerks : clerk[k].act = "accrue" /\ clerk[k].todo[b] > 0 =>
         Allows(b, clerk[k].todo[b]) /\ (~raced => earned[b] = 0)

\* So is what a customer spent.
SpendsCovered ==
  ~raced => \A b \in Bookings :
    /\ Paid(b[2]) <= Put(b[2])
    /\ \A k \in Clerks : clerk[k].act = "redeem" /\ clerk[k].todo[b] > 0 =>
         Paid(b[2]) + clerk[k].todo[b] <= Put(b[2])

\* What is about to lapse is still there, on a booking that earned.
LapsesCovered ==
  ~raced => \A b \in Bookings, k \in Clerks :
    clerk[k].act = "expire" /\ clerk[k].todo[b] > 0 =>
      /\ earned[b] > 0
      /\ spent[b] + lapsed[b] + clerk[k].todo[b] <= earned[b] + granted[b]

CreditInv ==
  /\ DeskInv /\ Credit!TypeOK /\ ClerksWork /\ RulesAreAsked
  /\ EarnsByRule /\ SpendsCovered /\ LapsesCovered

LEMMA BookingsFinite ==
  /\ IsFiniteSet(Bookings)
  /\ \A p : Credit!Of(p) \in SUBSET Bookings /\ IsFiniteSet(Credit!Of(p))
<1>1. IsFiniteSet(Bookings) /\ \A p : Credit!Of(p) \in SUBSET Bookings
  BY CreditAssumption DEF Credit!Of
<1>. QED BY <1>1, FS_Subset

LEMMA CreditStarts == DeskInit => CreditInv
<1>. SUFFICES ASSUME DeskInit PROVE CreditInv
  OBVIOUS
<1>1. DeskInv /\ Credit!TypeOK
  <2>1. DeskInv
    BY DeskStarts DEF DeskInit
  <2>2. 0 \in 0 .. MaxGrant
    BY CreditAssumption
  <2>. QED BY <2>1, <2>2
       DEF DeskInit, Credit!Init, Credit!TypeOK, Credit!Nothing, Credit!Idle, Credit!Task
<1>2. ClerksWork
  BY DEF DeskInit, ClerksWork, Credit!Init, Busy, Credit!Idle, Credit!Nothing
<1>3. RulesAreAsked
  BY DEF DeskInit, RulesAreAsked, Init, Free
<1>4. EarnsByRule /\ LapsesCovered
  BY DEF DeskInit, EarnsByRule, LapsesCovered, Credit!Init, Credit!Idle, Credit!Nothing
<1>5. SpendsCovered
  <2>1. ASSUME NEW p PROVE Paid(p) <= Put(p)
    <3>. DEFINE S == Credit!Of(p)
    <3>1. IsFiniteSet(S) /\ \A x \in S : spent[x] = 0 /\ earned[x] = 0 /\ granted[x] = 0
      BY BookingsFinite DEF DeskInit, Credit!Init, Credit!Nothing
    <3>2. SumOver(granted, S) \in Nat /\ SumOver(earned, S) \in Nat
      <4>. HIDE DEF S
      <4>. QED BY <3>1, SumNat
    <3>3. SumOver(spent, S) = SumOver(earned, S)
      <4>. HIDE DEF S
      <4>. QED BY <3>1, SumAgrees
    <3>. QED BY <3>2, <3>3 DEF Paid, Put
  <2>. QED BY <2>1 DEF DeskInit, SpendsCovered, Credit!Init, Credit!Idle
<1>. QED BY <1>1, <1>2, <1>3, <1>4, <1>5 DEF CreditInv

\* A booking that was made stays, with its source and its rule.
LEMMA BookingsStand ==
  ASSUME DeskInv, [Next]_vars, NEW b \in Bookings, booking[b] # None
  PROVE  /\ booking'[b] # None
         /\ booking'[b].rule = booking[b].rule /\ booking'[b].source = booking[b].source
<1>1. CASE UNCHANGED booking
  BY <1>1
<1>2. ASSUME NEW w \in Team, Commits(w)
      PROVE  booking'[b] = booking[b]
  BY <1>2, CommitMakes DEF DeskInv
<1>3. ASSUME NEW e \in Bookings, NEW st \in {"confirmed", "cancelled"}, Moves(e, st)
      PROVE  /\ booking'[b] # None
             /\ booking'[b].rule = booking[b].rule /\ booking'[b].source = booking[b].source
  <2>1. booking \in [Bookings -> Booking \cup {None}] /\ booking[e] \in Booking
    BY <1>3 DEF DeskInv, TypeOK, Moves
  <2>2. booking' = [booking EXCEPT ![e].status = st] /\ st \in {"pending", "confirmed", "cancelled"}
    BY <1>3 DEF Moves
  <2>3. CASE b = e
    <3>1. booking'[b] = [booking[b] EXCEPT !.status = st]
      BY <2>1, <2>2, <2>3
    <3>2. booking'[b] \in Booking
      BY <2>1, <2>2, <2>3, <3>1 DEF Booking
    <3>. QED BY <2>1, <2>3, <3>1, <3>2, EnrollmentAssumption DEF Booking
  <2>4. CASE b # e
    BY <2>1, <2>2, <2>4
  <2>. QED BY <2>3, <2>4
<1>. QED BY <1>1, <1>2, <1>3
       DEF Next, vars, Arrives, Stores, Asks, AllocBegins, HandBegins, DiscardBegins, Takes,
           ReprocessBegins, Checks, Fails, DiscardWrites, ReprocessWrites, SetsRule

LEMMA AskedKept ==
  ASSUME DeskInv, RulesAreAsked, [Next]_vars
  PROVE  RulesAreAsked'
<1>. USE DEF DeskInv
<1>1. ASSUME NEW w \in Team, team'[w].rule # None PROVE team'[w].row \in Requests
  <2>1. CASE team'[w] = team[w]
    BY <1>1, <2>1 DEF RulesAreAsked
  <2>2. CASE team'[w] = Free
    BY <1>1, <2>2 DEF Free
  <2>3. CASE Checks(w)
    BY <1>1, <2>3 DEF Checks, Frozen, TypeOK, Request
  <2>4. ASSUME NEW r \in Rows, NEW g \in Groups, AllocBegins(w, r, g) PROVE FALSE
    BY <1>1, <2>4 DEF AllocBegins, Takes, TypeOK, Free
  <2>5. ASSUME NEW e \in Bookings, HandBegins(w, e) PROVE FALSE
    BY <1>1, <2>5 DEF HandBegins, TypeOK, Free
  <2>6. ASSUME NEW r \in Rows, DiscardBegins(w, r) \/ ReprocessBegins(w, r) PROVE FALSE
    BY <1>1, <2>6 DEF DiscardBegins, ReprocessBegins, Takes, TypeOK, Free
  <2>7. ASSUME NEW v \in Team,
               \/ \E r \in Rows, g \in Groups : AllocBegins(v, r, g)
               \/ \E e \in Bookings : HandBegins(v, e)
               \/ \E r \in Rows : DiscardBegins(v, r) \/ ReprocessBegins(v, r)
               \/ Checks(v)
        PROVE  v = w \/ team'[w] = team[w]
    BY <2>7 DEF AllocBegins, HandBegins, DiscardBegins, ReprocessBegins, Checks, Takes, TypeOK
  <2>8. ASSUME NEW v \in Team, Commits(v) \/ Fails(v) \/ DiscardWrites(v) \/ ReprocessWrites(v)
        PROVE  team'[w] \in {team[w], Free}
    BY <2>8 DEF Commits, Fails, DiscardWrites, ReprocessWrites, Drops, TypeOK
  <2>9. CASE UNCHANGED team
    BY <1>1, <2>9 DEF RulesAreAsked
  <2>. QED BY <2>1, <2>2, <2>3, <2>4, <2>5, <2>6, <2>7, <2>8, <2>9
         DEF Next, vars, Arrives, Stores, Asks, Moves, SetsRule
<1>2. ASSUME NEW b \in Bookings, booking'[b] # None, booking'[b].rule # None
      PROVE  booking'[b].source = "portal"
  <2>1. CASE booking[b] # None
    BY <1>2, <2>1, BookingsStand DEF RulesAreAsked
  <2>2. CASE booking[b] = None
    <3>1. PICK w \in Team : Commits(w)
      BY <1>2, <2>2 DEF Next, vars, Arrives, Stores, Asks, AllocBegins, HandBegins, Checks, Takes,
                        DiscardBegins, ReprocessBegins, Fails, DiscardWrites, ReprocessWrites,
                        Moves, SetsRule, TypeOK
    <3>2. b = team[w].target
      BY <1>2, <2>2, <3>1, CommitMakes
    <3>3. booking'[b].rule = team[w].rule /\ booking'[b].source = Source(team[w].row)
      BY <3>1, <3>2 DEF Commits, TypeOK
    <3>. QED BY <1>2, <3>3 DEF RulesAreAsked, Source
  <2>. QED BY <2>1, <2>2
<1>. QED BY <1>1, <1>2 DEF RulesAreAsked

LEMMA QueueKeepsCredit ==
  ASSUME CreditInv, [Next]_vars, UNCHANGED entries
  PROVE  CreditInv'
<1>. USE DEF entries, CreditInv
<1>1. DeskInv' /\ RulesAreAsked'
  BY DeskInductive, AskedKept
<1>2. Credit!TypeOK' /\ ClerksWork' /\ SpendsCovered' /\ LapsesCovered'
  BY DEF Credit!TypeOK, ClerksWork, SpendsCovered, LapsesCovered, Busy, Paid, Put
<1>3. EarnsByRule'
  <2>1. \A b \in Bookings : booking[b] # None =>
          booking'[b] # None /\ booking'[b].rule = booking[b].rule
    BY BookingsStand
  <2>. QED BY <2>1 DEF EarnsByRule, Allows
<1>. QED BY <1>1, <1>2, <1>3

LEMMA SumWhole ==
  ASSUME NEW f \in [Bookings -> Nat], NEW p
  PROVE  SumOver(f, Credit!Of(p)) \in Nat
<1>. DEFINE S == Credit!Of(p)
<1>1. IsFiniteSet(S) /\ \A x \in S : f[x] \in Nat
  BY BookingsFinite
<1>. HIDE DEF S
<1>. QED BY <1>1, SumNat DEF S

LEMMA SumsWhole ==
  ASSUME Credit!TypeOK, NEW p
  PROVE  Paid(p) \in Nat /\ Put(p) \in Nat
<1>1. granted \in [Bookings -> Nat] /\ earned \in [Bookings -> Nat] /\ spent \in [Bookings -> Nat]
  BY CreditAssumption DEF Credit!TypeOK
<1>2. /\ SumOver(earned, Credit!Of(p)) \in Nat /\ SumOver(granted, Credit!Of(p)) \in Nat
      /\ SumOver(spent, Credit!Of(p)) \in Nat
  BY <1>1, SumWhole
<1>. QED BY <1>2 DEF Paid, Put

\* What was put in only grows.
LEMMA PutGrows ==
  ASSUME Credit!TypeOK, NEW p, earned' \in [Bookings -> Nat], granted' \in [Bookings -> Nat],
         \A b \in Bookings : earned[b] <= earned'[b] /\ granted[b] <= granted'[b]
  PROVE  Put(p) <= Put(p)'
<1>. DEFINE S == Credit!Of(p)
<1>1. IsFiniteSet(S) /\ S \in SUBSET Bookings
  BY BookingsFinite
<1>2. \A x \in S : /\ earned[x] \in Nat /\ granted[x] \in Nat
                   /\ earned'[x] \in Nat /\ granted'[x] \in Nat
                   /\ earned[x] <= earned'[x] /\ granted[x] <= granted'[x]
  BY <1>1, CreditAssumption DEF Credit!TypeOK
<1>. HIDE DEF S
<1>3. SumOver(earned, S) <= SumOver(earned', S)
  BY <1>1, <1>2, SumAtMost
<1>4. SumOver(granted, S) <= SumOver(granted', S)
  BY <1>1, <1>2, SumAtMost
<1>5. SumOver(earned, S) \in Nat /\ SumOver(earned', S) \in Nat
  BY <1>1, <1>2, SumNat
<1>6. SumOver(granted, S) \in Nat /\ SumOver(granted', S) \in Nat
  BY <1>1, <1>2, SumNat
<1>7. Put(p) = SumOver(earned, S) + SumOver(granted, S)
  BY DEF Put, S
<1>8. Put(p)' = SumOver(earned', S) + SumOver(granted', S)
  BY DEF Put, S, Credit!Of
<1>. QED BY <1>3, <1>4, <1>5, <1>6, <1>7, <1>8

\* A redemption is paid by the customer of its booking.
LEMMA PaidMoves ==
  ASSUME Credit!TypeOK, NEW b \in Bookings, NEW n \in Nat, spent' = [spent EXCEPT ![b] = @ + n],
         NEW p
  PROVE  Paid(p)' = IF p = b[2] THEN Paid(p) + n ELSE Paid(p)
<1>. DEFINE S == Credit!Of(p)
<1>1. IsFiniteSet(S) /\ S \in SUBSET Bookings /\ (b \in S <=> p = b[2])
  BY BookingsFinite DEF Credit!Of
<1>2. /\ spent'[b] = spent[b] + n /\ spent[b] \in Int /\ spent'[b] \in Int
      /\ \A x \in S : spent[x] \in Int /\ (x # b => spent'[x] = spent[x])
  BY <1>1 DEF Credit!TypeOK
<1>3. Paid(p) = SumOver(spent, S) /\ Paid(p)' = SumOver(spent', S)
  BY DEF Paid, S, Credit!Of
<1>. HIDE DEF S
<1>4. CASE p = b[2]
  <2>1. SumOver(spent', S) = SumOver(spent, S) + (spent'[b] - spent[b])
    <3>1. IsFiniteSet(S) /\ b \in S /\ spent'[b] \in Int /\ \A x \in S : spent[x] \in Int
      BY <1>1, <1>2, <1>4
    <3>2. \A x \in S \ {b} : spent'[x] = spent[x]
      BY <1>2
    <3>3. ASSUME NEW f, NEW g, \A x \in S : f[x] \in Int, g[b] \in Int,
                 \A x \in S \ {b} : g[x] = f[x]
          PROVE  SumOver(g, S) = SumOver(f, S) + (g[b] - f[b])
      BY <3>1, <3>3, SumChanges
    <3>. QED BY <3>1, <3>2, <3>3
  <2>2. SumOver(spent, S) \in Int
    BY <1>1, <1>2, SumInt
  <2>. QED BY <2>1, <2>2, <1>2, <1>3, <1>4
<1>5. CASE p # b[2]
  <2>1. \A x \in S : spent'[x] = spent[x]
    BY <1>1, <1>2, <1>5
  <2>2. SumOver(spent', S) = SumOver(spent, S)
    BY <1>1, <2>1, SumAgrees
  <2>. QED BY <2>2, <1>3, <1>5
<1>. QED BY <1>4, <1>5

\* A request that begins holds what it may append, as it was read.
Fits(act, todo) ==
  /\ act \in {"accrue", "redeem"} =>
       \A b, e \in Bookings : todo[b] > 0 /\ todo[e] > 0 => b = e
  /\ \A b \in Bookings : todo[b] > 0 =>
       /\ act = "accrue" => Allows(b, todo[b]) /\ earned[b] = 0
       /\ act = "redeem" => Paid(b[2]) + todo[b] <= Put(b[2])
       /\ act = "expire" => /\ earned[b] > 0
                             /\ spent[b] + lapsed[b] + todo[b] <= earned[b] + granted[b]

LEMMA BeginsKeeps ==
  ASSUME CreditInv, NEW k \in Clerks, NEW act \in {"accrue", "redeem", "expire"},
         NEW todo \in [Bookings -> Nat], Credit!Begins(k, act, todo), Fits(act, todo),
         UNCHANGED <<booking, team>>, DeskInv'
  PROVE  CreditInv'
<1>. USE DEF CreditInv
<1>1. /\ clerk' = [clerk EXCEPT ![k] = [act |-> act, todo |-> todo]] /\ clerk[k] = Credit!Idle
      /\ raced' = (raced \/ \E j \in Clerks \ {k} : clerk[j] # Credit!Idle)
      /\ earned' = earned /\ granted' = granted /\ spent' = spent /\ lapsed' = lapsed /\ due' = due
  BY DEF Credit!Begins
<1>2. Credit!TypeOK'
  BY <1>1 DEF Credit!TypeOK, Credit!Task
<1>3. /\ clerk'[k].act = act /\ clerk'[k].todo = todo
      /\ \A j \in Clerks \ {k} : clerk'[j] = clerk[j]
      /\ raced \in BOOLEAN
  BY <1>1 DEF Credit!TypeOK
<1>4. ~raced' => ~raced /\ \A j \in Clerks \ {k} : ~Busy(j)
  BY <1>1, <1>3 DEF Busy
<1>5. ClerksWork'
  BY <1>3, <1>4 DEF ClerksWork, Busy, Fits
<1>6. RulesAreAsked'
  BY DEF RulesAreAsked
<1>7. EarnsByRule'
  BY <1>1, <1>3, <1>4 DEF EarnsByRule, Fits, Allows
<1>8. \A p : Paid(p)' = Paid(p) /\ Put(p)' = Put(p)
  BY <1>1 DEF Paid, Put, Credit!Of
<1>9. SpendsCovered'
  BY <1>1, <1>3, <1>4, <1>8 DEF SpendsCovered, Fits
<1>10. LapsesCovered'
  BY <1>1, <1>3, <1>4 DEF LapsesCovered, Fits
<1>. QED BY <1>2, <1>5, <1>6, <1>7, <1>9, <1>10

LEMMA ReadsKeep ==
  ASSUME CreditInv, NEW k \in Clerks, UNCHANGED vars, DeskInv',
         \/ \E b \in Bookings : Credit!AccrueReads(k, b) \/ Credit!RedeemReads(k, b)
         \/ Credit!ExpireReads(k)
  PROVE  CreditInv'
<1>. USE DEF CreditInv
<1>1. ASSUME NEW b \in Bookings, Credit!AccrueReads(k, b) PROVE CreditInv'
  <2>1. /\ booking[b] # None /\ earned[b] = 0 /\ booking[b].rule # None
        /\ booking[b].rule \in Nat
    BY <1>1, EnrollmentAssumption
       DEF Credit!AccrueReads, Credit!RuleOf, DeskInv, TypeOK, Booking
  <2>2. PICK n \in 1 .. booking[b].rule :
          Credit!Begins(k, "accrue", [Credit!Nothing EXCEPT ![b] = n])
    BY <1>1 DEF Credit!AccrueReads, Credit!RuleOf
  <2>. DEFINE todo == [Credit!Nothing EXCEPT ![b] = n]
  <2>3. todo \in [Bookings -> Nat] /\ todo[b] = n /\ \A e \in Bookings : todo[e] > 0 => e = b
    BY <2>1 DEF Credit!Nothing
  <2>. HIDE DEF todo
  <2>4. Fits("accrue", todo)
    BY <2>1, <2>3 DEF Fits, Allows
  <2>. QED BY <2>2, <2>3, <2>4, BeginsKeeps DEF todo, vars
<1>2. ASSUME NEW b \in Bookings, Credit!RedeemReads(k, b) PROVE CreditInv'
  <2>1. PICK n \in 1 .. Cap : Credit!Affords(b[2], n) /\
          Credit!Begins(k, "redeem", [Credit!Nothing EXCEPT ![b] = n])
    BY <1>2 DEF Credit!RedeemReads
  <2>. DEFINE todo == [Credit!Nothing EXCEPT ![b] = n]
  <2>2. todo \in [Bookings -> Nat] /\ todo[b] = n /\ \A e \in Bookings : todo[e] > 0 => e = b
    BY CreditAssumption DEF Credit!Nothing
  <2>3. Paid(b[2]) + n <= Put(b[2])
    <3>. DEFINE L == SumOver(lapsed, Credit!Of(b[2]))
    <3>1. L \in Nat
      <4>1. IsFiniteSet(Credit!Of(b[2])) /\ \A x \in Credit!Of(b[2]) : lapsed[x] \in Nat
        BY BookingsFinite DEF Credit!TypeOK
      <4>. QED BY <4>1, SumNat
    <3>2. Paid(b[2]) + L + n <= Put(b[2])
      BY <2>1, CreditSums DEF Credit!Affords, Credit!In, Credit!Out, Paid, Put
    <3>3. Paid(b[2]) \in Nat /\ Put(b[2]) \in Nat /\ n \in Nat
      BY SumsWhole, CreditAssumption
    <3>. HIDE DEF L
    <3>. QED BY <3>1, <3>2, <3>3
  <2>. HIDE DEF todo
  <2>4. Fits("redeem", todo)
    BY <2>2, <2>3 DEF Fits
  <2>. QED BY <2>1, <2>2, <2>4, BeginsKeeps DEF todo, vars
<1>3. CASE Credit!ExpireReads(k)
  <2>. DEFINE todo == [b \in Bookings |-> IF b \in due THEN Credit!Remaining(b) ELSE 0]
  <2>1. ASSUME NEW b \in Bookings
        PROVE  /\ Credit!Remaining(b) \in Nat
               /\ Credit!Remaining(b) > 0
                    => spent[b] + lapsed[b] + Credit!Remaining(b) <= earned[b] + granted[b]
               /\ b \in due => earned[b] > 0
    <3>1. /\ earned[b] \in Nat /\ granted[b] \in Nat /\ spent[b] \in Nat /\ lapsed[b] \in Nat
      BY CreditAssumption DEF Credit!TypeOK
    <3>2. /\ SumOver(earned, {b}) = earned[b] /\ SumOver(granted, {b}) = granted[b]
          /\ SumOver(spent, {b}) = spent[b] /\ SumOver(lapsed, {b}) = lapsed[b]
      BY <3>1, SumOne
    <3>3. /\ Credit!In({b}) = earned[b] + granted[b]
          /\ Credit!Out({b}) = spent[b] + lapsed[b]
      BY <3>2, CreditSums DEF Credit!In, Credit!Out
    <3>. QED BY <3>1, <3>3 DEF Credit!Remaining, Credit!TypeOK
  <2>2. todo \in [Bookings -> Nat] /\ Fits("expire", todo)
    BY <2>1 DEF Fits
  <2>3. Credit!Begins(k, "expire", todo)
    BY <1>3 DEF Credit!ExpireReads
  <2>. HIDE DEF todo
  <2>. QED BY <2>2, <2>3, BeginsKeeps DEF vars
<1>. QED BY <1>1, <1>2, <1>3

\* A request that appends, or dies, has no more in hand than before.
LEMMA HandsShrink ==
  ASSUME CreditInv, NEW k \in Clerks, NEW t \in Credit!Task, clerk' = [clerk EXCEPT ![k] = t],
         raced' = raced, Busy(k),
         t.act = "none" => t = Credit!Idle,
         t.act \in {"none", clerk[k].act},
         \A b \in Bookings : t.todo[b] \in {0, clerk[k].todo[b]}
  PROVE  /\ ClerksWork'
         /\ \A j \in Clerks, b \in Bookings : clerk'[j].todo[b] > 0 =>
              clerk'[j].todo[b] = clerk[j].todo[b] /\ clerk'[j].act = clerk[j].act
<1>. USE DEF CreditInv
<1>1. /\ clerk'[k] = t /\ \A j \in Clerks \ {k} : clerk'[j] = clerk[j]
  BY DEF Credit!TypeOK
<1>2. t.todo \in [Bookings -> Nat] /\ \A b \in Bookings : Credit!Idle.todo[b] = 0
  BY DEF Credit!Task, Credit!Idle, Credit!Nothing
<1>3. ClerksWork'
  BY <1>1, <1>2 DEF ClerksWork, Busy
<1>4. ASSUME NEW j \in Clerks, NEW b \in Bookings, clerk'[j].todo[b] > 0
      PROVE  clerk'[j].todo[b] = clerk[j].todo[b] /\ clerk'[j].act = clerk[j].act
  BY <1>1, <1>2, <1>4
<1>. QED BY <1>3, <1>4

LEMMA AppendsKeeps ==
  ASSUME CreditInv, NEW k \in Clerks, NEW b \in Bookings, Credit!Appends(k, b),
         UNCHANGED vars, DeskInv'
  PROVE  CreditInv'
<1>. USE DEF CreditInv
<1>. DEFINE n == clerk[k].todo[b]
            act == clerk[k].act
            left == [clerk[k].todo EXCEPT ![b] = 0]
            t == IF left = Credit!Nothing THEN Credit!Idle ELSE [clerk[k] EXCEPT !.todo = left]
            Adds(f, a) == [f EXCEPT ![b] = IF act = a THEN @ + n ELSE @]
<1>1. /\ n > 0 /\ clerk' = [clerk EXCEPT ![k] = t]
      /\ earned' = Adds(earned, "accrue") /\ spent' = Adds(spent, "redeem")
      /\ lapsed' = Adds(lapsed, "expire")
      /\ granted' = granted /\ due' = due /\ raced' = raced
  BY DEF Credit!Appends
<1>2. clerk[k] \in Credit!Task /\ n \in Nat /\ act \in {"none", "accrue", "redeem", "expire"}
  BY DEF Credit!TypeOK, Credit!Task
<1>3. left \in [Bookings -> Nat] /\ left[b] = 0 /\ \A e \in Bookings \ {b} : left[e] = clerk[k].todo[e]
  BY <1>2 DEF Credit!Task
<1>4. t \in Credit!Task /\ t.todo = left /\ t.act \in {"none", act}
  BY <1>2, <1>3 DEF Credit!Task, Credit!Idle, Credit!Nothing
<1>5. Busy(k)
  BY <1>1 DEF Busy, Credit!Idle, Credit!Nothing
<1>6. act # "none"
  BY <1>5 DEF ClerksWork
<1>7. t.act = "none" => t = Credit!Idle
  BY <1>2, <1>6 DEF Credit!Task
<1>8. clerk'[k] = t /\ \A j \in Clerks \ {k} : clerk'[j] = clerk[j]
  BY <1>1 DEF Credit!TypeOK
<1>9. /\ ClerksWork'
      /\ \A j \in Clerks, e \in Bookings : clerk'[j].todo[e] > 0 =>
           clerk'[j].todo[e] = clerk[j].todo[e] /\ clerk'[j].act = clerk[j].act
  <2>1. \A e \in Bookings : t.todo[e] \in {0, clerk[k].todo[e]}
    BY <1>3, <1>4
  <2>. HIDE DEF t, n, left
  <2>. QED BY <2>1, <1>1, <1>4, <1>5, <1>7, HandsShrink
<1>10. ~raced => \A j \in Clerks \ {k} : ~Busy(j) /\ \A e \in Bookings : clerk'[j].todo[e] = 0
  BY <1>5, <1>8 DEF ClerksWork, Busy, Credit!Idle, Credit!Nothing
<1>11. /\ earned \in [Bookings -> Nat] /\ spent \in [Bookings -> Nat]
       /\ lapsed \in [Bookings -> Nat] /\ granted \in [Bookings -> 0 .. MaxGrant]
       /\ \A e \in Bookings : granted[e] \in Nat
  BY CreditAssumption DEF Credit!TypeOK
<1>12. /\ earned'[b] = IF act = "accrue" THEN earned[b] + n ELSE earned[b]
       /\ lapsed'[b] = IF act = "expire" THEN lapsed[b] + n ELSE lapsed[b]
       /\ \A e \in Bookings \ {b} : earned'[e] = earned[e] /\ lapsed'[e] = lapsed[e]
       /\ earned' \in [Bookings -> Nat] /\ spent' \in [Bookings -> Nat]
       /\ lapsed' \in [Bookings -> Nat]
  BY <1>1, <1>2, <1>11
<1>13. Credit!TypeOK'
  <2>1. clerk' \in [Clerks -> Credit!Task]
    BY <1>1, <1>4 DEF Credit!TypeOK
  <2>2. due \subseteq {e \in Bookings : earned'[e] > 0}
    BY <1>2, <1>11, <1>12 DEF Credit!TypeOK
  <2>. HIDE DEF t, n, left
  <2>. QED BY <2>1, <2>2, <1>1, <1>11, <1>12 DEF Credit!TypeOK
<1>14. RulesAreAsked'
  BY DEF RulesAreAsked, vars
<1>. HIDE DEF t
\* A request other than the one that lists what expires is done with it.
<1>15. act \in {"accrue", "redeem"} => \A e \in Bookings : clerk'[k].todo[e] = 0
  BY <1>1, <1>2, <1>3, <1>4, <1>8 DEF ClerksWork, Credit!Task
<1>16. EarnsByRule'
  <2>0. booking' = booking
    BY DEF vars
  <2>. SUFFICES ASSUME NEW e \in Bookings
       PROVE /\ earned'[e] > 0 => booking[e] # None /\ booking[e].rule # None
             /\ ~raced /\ earned'[e] > 0 =>
                  booking[e] # None /\ booking[e].rule # None /\ earned'[e] <= booking[e].rule
             /\ \A j \in Clerks : clerk'[j].act = "accrue" /\ clerk'[j].todo[e] > 0 =>
                  /\ booking[e] # None /\ booking[e].rule # None
                  /\ clerk'[j].todo[e] <= booking[e].rule
                  /\ ~raced => earned'[e] = 0
    BY <2>0, <1>1 DEF EarnsByRule, Allows
  <2>1. CASE e = b /\ act = "accrue"
    <3>1. Allows(b, n) /\ (~raced => earned[b] = 0)
      BY <2>1, <1>1 DEF EarnsByRule
    <3>2. ~raced => \A j \in Clerks : clerk'[j].todo[e] = 0
      BY <2>1, <1>10, <1>15
    <3>3. \A j \in Clerks : clerk'[j].act = "accrue" /\ clerk'[j].todo[e] > 0 =>
            Allows(e, clerk'[j].todo[e])
      BY <1>9 DEF EarnsByRule
    <3>4. ~raced => earned'[e] = n
      BY <3>1, <2>1, <1>2, <1>12
    <3>. HIDE DEF n
    <3>. QED BY <3>1, <3>2, <3>3, <3>4, <2>1, <1>2 DEF Allows
  <2>2. CASE ~(e = b /\ act = "accrue")
    <3>1. earned'[e] = earned[e]
      BY <2>2, <1>12
    <3>. HIDE DEF n, left, act
    <3>. QED BY <3>1, <1>9 DEF EarnsByRule, Allows
  <2>. QED BY <2>1, <2>2
<1>17. \A p : /\ Put(p) <= Put(p)' /\ Put(p) \in Nat /\ Put(p)' \in Nat
              /\ Paid(p) \in Nat /\ Paid(p)' \in Nat
  <2>1. /\ granted' \in [Bookings -> Nat]
        /\ \A e \in Bookings : earned[e] <= earned'[e] /\ granted[e] <= granted'[e]
    BY <1>1, <1>2, <1>11, <1>12
  <2>2. ASSUME NEW p PROVE Put(p) <= Put(p)' /\ Put(p) \in Nat /\ Paid(p) \in Nat
    <3>. HIDE DEF n, left, act
    <3>. QED BY <2>1, <1>12, PutGrows, SumsWhole
  <2>3. ASSUME NEW p PROVE Put(p)' \in Nat /\ Paid(p)' \in Nat
    <3>1. /\ SumOver(earned', Credit!Of(p)) \in Nat /\ SumOver(granted', Credit!Of(p)) \in Nat
          /\ SumOver(spent', Credit!Of(p)) \in Nat
      BY <2>1, <1>12, SumWhole
    <3>. QED BY <3>1 DEF Paid, Put, Credit!Of
  <2>. QED BY <2>2, <2>3
<1>18. SpendsCovered'
  <2>0. raced' = raced
    BY <1>1
  <2>. SUFFICES ASSUME ~raced, NEW e \in Bookings
       PROVE /\ Paid(e[2])' <= Put(e[2])'
             /\ \A j \in Clerks : clerk'[j].act = "redeem" /\ clerk'[j].todo[e] > 0 =>
                  Paid(e[2])' + clerk'[j].todo[e] <= Put(e[2])'
    BY <2>0 DEF SpendsCovered
  <2>1. CASE act = "redeem"
    <3>1. spent' = [spent EXCEPT ![b] = @ + n]
      BY <1>1, <2>1
    <3>2. Paid(e[2])' = IF e[2] = b[2] THEN Paid(e[2]) + n ELSE Paid(e[2])
      <4>. HIDE DEF n
      <4>. QED BY <3>1, <1>2, PaidMoves
    <3>3. Paid(b[2]) + n <= Put(b[2]) /\ Paid(e[2]) <= Put(e[2])
      BY <1>1, <2>1 DEF SpendsCovered
    <3>4. \A j \in Clerks : clerk'[j].todo[e] = 0
      BY <2>1, <1>10, <1>15
    <3>5. Put(e[2]) <= Put(e[2])' /\ Put(e[2]) \in Nat /\ Put(e[2])' \in Nat /\ Paid(e[2]) \in Nat
      BY <1>17
    <3>6. e[2] = b[2] => Paid(e[2]) + n <= Put(e[2])
      BY <3>3
    <3>7. Paid(e[2])' <= Put(e[2])'
      <4>. HIDE DEF n
      <4>. QED BY <3>2, <3>3, <3>5, <3>6, <1>2
    <3>. QED BY <3>4, <3>7
  <2>2. CASE act # "redeem"
    <3>1. spent' = spent
      BY <1>1, <1>11, <2>2
    <3>2. Paid(e[2])' = Paid(e[2])
      BY <3>1 DEF Paid, Credit!Of
    <3>3. Paid(e[2]) <= Put(e[2])
      BY DEF SpendsCovered
    <3>4. ASSUME NEW j \in Clerks, clerk'[j].act = "redeem", clerk'[j].todo[e] > 0
          PROVE  Paid(e[2]) + clerk'[j].todo[e] <= Put(e[2]) /\ clerk'[j].todo[e] \in Nat
      <4>1. clerk[j].act = "redeem" /\ clerk'[j].todo[e] = clerk[j].todo[e]
        BY <3>4, <1>9
      <4>. QED BY <4>1, <3>4 DEF SpendsCovered, Credit!TypeOK, Credit!Task
    <3>5. Put(e[2]) <= Put(e[2])' /\ Put(e[2]) \in Nat /\ Put(e[2])' \in Nat /\ Paid(e[2]) \in Nat
      BY <1>17
    <3>. QED BY <3>2, <3>3, <3>4, <3>5
  <2>. QED BY <2>1, <2>2
<1>19. LapsesCovered'
  <2>. SUFFICES ASSUME ~raced, NEW e \in Bookings, NEW j \in Clerks,
                       clerk'[j].act = "expire", clerk'[j].todo[e] > 0
       PROVE /\ earned'[e] > 0
             /\ spent'[e] + lapsed'[e] + clerk'[j].todo[e] <= earned'[e] + granted'[e]
    BY <1>1 DEF LapsesCovered
  <2>1. clerk[j].act = "expire" /\ clerk'[j].todo[e] = clerk[j].todo[e]
    BY <1>9
  <2>2. j = k /\ act = "expire"
    BY <2>1, <1>10
  <2>3. e # b
    BY <2>2, <1>3, <1>4, <1>8
  <2>4. /\ earned'[e] = earned[e] /\ lapsed'[e] = lapsed[e]
        /\ spent'[e] = spent[e] /\ granted'[e] = granted[e]
    BY <2>2, <2>3, <1>1, <1>11, <1>12
  <2>. QED BY <2>1, <2>4 DEF LapsesCovered
<1>. QED BY <1>9, <1>13, <1>14, <1>16, <1>18, <1>19

LEMMA DiesKeeps ==
  ASSUME CreditInv, NEW k \in Clerks, Credit!Dies(k), UNCHANGED vars, DeskInv'
  PROVE  CreditInv'
<1>. USE DEF CreditInv
<1>1. /\ clerk' = [clerk EXCEPT ![k] = Credit!Idle] /\ Busy(k)
      /\ earned' = earned /\ granted' = granted /\ spent' = spent /\ lapsed' = lapsed
      /\ due' = due /\ raced' = raced /\ booking' = booking /\ team' = team
  BY DEF Credit!Dies, Busy, vars
<1>2. Credit!Idle \in Credit!Task /\ Credit!Idle.act = "none" /\ \A b \in Bookings : Credit!Idle.todo[b] = 0
  BY DEF Credit!Idle, Credit!Task, Credit!Nothing
<1>3. /\ ClerksWork'
      /\ \A j \in Clerks, b \in Bookings : clerk'[j].todo[b] > 0 =>
           clerk'[j].todo[b] = clerk[j].todo[b] /\ clerk'[j].act = clerk[j].act
  BY <1>1, <1>2, HandsShrink
<1>4. \A p : Paid(p)' = Paid(p) /\ Put(p)' = Put(p)
  BY <1>1 DEF Paid, Put, Credit!Of
<1>5. Credit!TypeOK'
  BY <1>1, <1>2 DEF Credit!TypeOK
<1>6. RulesAreAsked' /\ EarnsByRule'
  BY <1>1, <1>3 DEF RulesAreAsked, EarnsByRule, Allows
<1>7. SpendsCovered' /\ LapsesCovered'
  BY <1>1, <1>3, <1>4 DEF SpendsCovered, LapsesCovered
<1>. QED BY <1>3, <1>5, <1>6, <1>7

LEMMA OthersKeep ==
  ASSUME CreditInv, NEW b \in Bookings, Credit!Grants(b) \/ Credit!FallsDue(b),
         UNCHANGED vars, DeskInv'
  PROVE  CreditInv'
<1>. USE DEF CreditInv
<1>1. /\ clerk' = clerk /\ earned' = earned /\ spent' = spent /\ lapsed' = lapsed /\ raced' = raced
      /\ booking' = booking /\ team' = team
  BY DEF Credit!Grants, Credit!FallsDue, vars
<1>2. Credit!TypeOK' /\ \A e \in Bookings : granted[e] <= granted'[e]
  <2>1. CASE Credit!Grants(b)
    <3>1. granted \in [Bookings -> 0 .. MaxGrant] /\ granted' = [granted EXCEPT ![b] = @ + 1]
          /\ due' = due /\ SumOver(granted, Bookings) < MaxGrant
      BY <2>1, CreditSums DEF Credit!Grants, Credit!TypeOK
    <3>2. granted[b] <= SumOver(granted, Bookings) /\ SumOver(granted, Bookings) \in Nat
      <4>1. IsFiniteSet(Bookings) /\ \A x \in Bookings : granted[x] \in Nat
        BY <3>1, BookingsFinite, CreditAssumption
      <4>. QED BY <4>1, SumBoundsEach, SumNat
    <3>3. granted' \in [Bookings -> 0 .. MaxGrant] /\ \A e \in Bookings : granted[e] <= granted'[e]
      <4>1. \A e \in Bookings : granted[e] \in 0 .. MaxGrant /\ granted'[e] = IF e = b THEN granted[e] + 1 ELSE granted[e]
        BY <3>1
      <4>2. granted[b] + 1 \in 0 .. MaxGrant
        BY <3>1, <3>2, <4>1, CreditAssumption
      <4>. QED BY <3>1, <4>1, <4>2, CreditAssumption
    <3>. QED BY <1>1, <3>1, <3>3 DEF Credit!TypeOK
  <2>2. CASE Credit!FallsDue(b)
    <3>1. granted' = granted /\ \A e \in Bookings : granted[e] \in Int
      BY <2>2 DEF Credit!FallsDue, Credit!TypeOK
    <3>2. Credit!TypeOK'
      BY <2>2, <1>1 DEF Credit!FallsDue, Credit!TypeOK
    <3>. QED BY <3>1, <3>2
  <2>. QED BY <2>1, <2>2
<1>3. ClerksWork' /\ RulesAreAsked' /\ EarnsByRule'
  BY <1>1 DEF ClerksWork, Busy, RulesAreAsked, EarnsByRule, Allows
<1>4. /\ granted' \in [Bookings -> Nat] /\ granted \in [Bookings -> Nat]
      /\ earned \in [Bookings -> Nat] /\ earned' \in [Bookings -> Nat]
      /\ lapsed \in [Bookings -> Nat] /\ clerk \in [Clerks -> Credit!Task]
      /\ \A e \in Bookings : earned[e] <= earned'[e]
  BY <1>1, <1>2, CreditAssumption DEF Credit!TypeOK
<1>5. ASSUME NEW p
      PROVE  /\ Paid(p)' = Paid(p) /\ Put(p) <= Put(p)'
             /\ Put(p) \in Nat /\ Put(p)' \in Nat /\ Paid(p) \in Nat
  <2>1. Paid(p)' = Paid(p)
    BY <1>1 DEF Paid, Credit!Of
  <2>2. Put(p) <= Put(p)' /\ Put(p) \in Nat /\ Paid(p) \in Nat
    BY <1>2, <1>4, PutGrows, SumsWhole
  <2>3. SumOver(earned', Credit!Of(p)) \in Nat /\ SumOver(granted', Credit!Of(p)) \in Nat
    BY <1>4, SumWhole
  <2>. QED BY <2>1, <2>2, <2>3 DEF Put, Credit!Of
<1>6. SpendsCovered'
  <2>. SUFFICES ASSUME ~raced, NEW e \in Bookings
       PROVE /\ Paid(e[2])' <= Put(e[2])'
             /\ \A j \in Clerks : clerk[j].act = "redeem" /\ clerk[j].todo[e] > 0 =>
                  Paid(e[2])' + clerk[j].todo[e] <= Put(e[2])'
    BY <1>1 DEF SpendsCovered
  <2>1. Paid(e[2]) <= Put(e[2])
    BY DEF SpendsCovered
  <2>2. ASSUME NEW j \in Clerks, clerk[j].act = "redeem", clerk[j].todo[e] > 0
        PROVE  Paid(e[2]) + clerk[j].todo[e] <= Put(e[2]) /\ clerk[j].todo[e] \in Nat
    BY <2>2, <1>4 DEF SpendsCovered, Credit!Task
  <2>. QED BY <2>1, <2>2, <1>5
<1>7. LapsesCovered'
  <2>. SUFFICES ASSUME ~raced, NEW e \in Bookings, NEW j \in Clerks,
                       clerk[j].act = "expire", clerk[j].todo[e] > 0
       PROVE earned[e] > 0 /\ spent[e] + lapsed[e] + clerk[j].todo[e] <= earned[e] + granted'[e]
    BY <1>1 DEF LapsesCovered
  <2>1. earned[e] > 0 /\ spent[e] + lapsed[e] + clerk[j].todo[e] <= earned[e] + granted[e]
    BY DEF LapsesCovered
  <2>2. /\ spent[e] \in Nat /\ lapsed[e] \in Nat /\ clerk[j].todo[e] \in Nat
        /\ earned[e] \in Nat /\ granted[e] \in Nat /\ granted'[e] \in Nat
        /\ granted[e] <= granted'[e]
    BY <1>2, <1>4 DEF Credit!TypeOK, Credit!Task
  <2>. QED BY <2>1, <2>2
<1>. QED BY <1>2, <1>3, <1>6, <1>7

LEMMA CreditInductive == CreditInv /\ [DeskNext]_<<vars, entries>> => CreditInv'
<1>. SUFFICES ASSUME CreditInv, [DeskNext]_<<vars, entries>> PROVE CreditInv'
  OBVIOUS
<1>1. [Next]_vars /\ DeskInv'
  <2>1. [Next]_vars
    BY DEF DeskNext, vars, entries
  <2>. QED BY <2>1, DeskInductive DEF CreditInv
<1>2. CASE UNCHANGED entries
  BY <1>1, <1>2, QueueKeepsCredit
<1>3. CASE Credit!Next /\ UNCHANGED vars
  BY <1>1, <1>3, ReadsKeep, AppendsKeeps, DiesKeeps, OthersKeep DEF Credit!Next
<1>. QED BY <1>2, <1>3 DEF DeskNext, vars, entries

LEMMA CreditHolds == DeskSpec => []CreditInv
  BY CreditStarts, CreditInductive, PTL DEF DeskSpec

\* The queue and the ledger of credit always hold values of their kind; what is due
\* to expire was earned, and refunds give no more than the bound.
THEOREM DeskTypes == DeskSpec => []DeskTypeOK
<1>1. CreditInv => DeskTypeOK
  BY DEF CreditInv, DeskInv, DeskTypeOK
<1>. QED BY <1>1, CreditHolds, PTL

\* A booking earns only when it was asked for in the app (accrueCashback reads the
\* rule frozen on it), and until two requests overlapped no more than that rule
\* gives, however often it is confirmed and whatever the settings became.
THEOREM EarnedByTheFrozenRule == DeskSpec => []EarnsByItsFrozenRule
<1>1. CreditInv => EarnsByItsFrozenRule
  <2>. SUFFICES ASSUME CreditInv PROVE EarnsByItsFrozenRule
    OBVIOUS
  <2>1. \A b \in Bookings : earned[b] > 0 => booking[b].source = "portal"
    BY DEF CreditInv, EarnsByRule, RulesAreAsked
  <2>2. Credit!EarnsByItsFrozenRule
    BY DEF CreditInv, EarnsByRule, Allows, Credit!EarnsByItsFrozenRule
  <2>. QED BY <2>1, <2>2 DEF EarnsByItsFrozenRule
<1>. QED BY <1>1, CreditHolds, PTL

\* Until two requests overlapped, no customer spends more than was put in, with
\* any number of bookings, redemptions, refunds and expiries in any order.
THEOREM SpentWasGiven == DeskSpec => []SpendsWhatWasGiven
<1>1. CreditInv => SpendsWhatWasGiven
  BY CreditSums DEF CreditInv, SpendsCovered, Paid, Put, SpendsWhatWasGiven,
                    Credit!SpendsWhatWasGiven, Credit!In
<1>. QED BY <1>1, CreditHolds, PTL

\* With the same exception, the expiry job takes only from a booking that earned and
\* only what is still there, wherever it died, however often it ran and whatever was
\* redeemed or refunded between its read and its writes.
THEOREM LapsesWhatIsLeft == DeskSpec => ExpiresWhatIsLeft
<1>. DEFINE Lapses == ~raced => \A b \in Bookings : lapsed'[b] # lapsed[b] =>
                        earned[b] > 0 /\ lapsed'[b] + spent[b] <= Credit!In({b})
<1>1. CreditInv /\ [DeskNext]_<<vars, entries>> => [Lapses]_lapsed
  <2>. SUFFICES ASSUME CreditInv, [DeskNext]_<<vars, entries>>, ~raced,
                       NEW b \in Bookings, lapsed'[b] # lapsed[b]
       PROVE earned[b] > 0 /\ lapsed'[b] + spent[b] <= Credit!In({b})
    OBVIOUS
  <2>1. PICK k \in Clerks, e \in Bookings : Credit!Appends(k, e)
    BY DEF DeskNext, entries, vars, Credit!Next, Credit!AccrueReads, Credit!RedeemReads,
           Credit!ExpireReads, Credit!Begins, Credit!Dies, Credit!Grants, Credit!FallsDue
  <2>2. /\ lapsed \in [Bookings -> Nat] /\ spent[b] \in Nat /\ clerk[k].todo[e] \in Nat
        /\ earned[b] \in Nat /\ granted[b] \in Nat
    BY CreditAssumption DEF CreditInv, Credit!TypeOK, Credit!Task
  <2>3. /\ clerk[k].todo[e] > 0
        /\ lapsed' = [lapsed EXCEPT ![e] = IF clerk[k].act = "expire"
                                             THEN @ + clerk[k].todo[e] ELSE @]
    BY <2>1 DEF Credit!Appends
  <2>4. e = b /\ clerk[k].act = "expire" /\ lapsed'[b] = lapsed[b] + clerk[k].todo[b]
    BY <2>2, <2>3
  <2>5. earned[b] > 0 /\ spent[b] + lapsed[b] + clerk[k].todo[b] <= earned[b] + granted[b]
    BY <2>3, <2>4 DEF CreditInv, LapsesCovered
  <2>6. Credit!In({b}) = earned[b] + granted[b]
    <3>1. earned[b] \in Int /\ granted[b] \in Int
      BY <2>2
    <3>. QED BY <3>1, SumOne, CreditSums DEF Credit!In
  <2>. QED BY <2>2, <2>4, <2>5, <2>6
<1>. QED BY <1>1, CreditHolds, PTL DEF DeskSpec, ExpiresWhatIsLeft, Credit!ExpiresWhatIsLeft

\* The credit is kept beside the queue: what Enrollment promises holds with it.
THEOREM DeskKeepsItsPromises ==
  DeskSpec => [](AllocationIsWhole /\ OneBookingPerSubmission) /\ QueueIsLeftOnce
<1>. QED BY DeskWorksTheQueue, NothingIsHalfAllocated, SubmissionsAreBookedOnce,
            TheQueueIsLeftOnce, PTL

=============================================================================
