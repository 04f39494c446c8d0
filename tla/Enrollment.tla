----------------------------- MODULE Enrollment -----------------------------
(***************************************************************************)
(* From a submission to a booking: forms and the app put submissions in    *)
(* the queue of the team, which allocates each one to a group in one       *)
(* transaction, discards it, or has it processed again.  The team also     *)
(* books families by hand.                                                 *)
(*                                                                         *)
(* The database reads committed rows: a transaction writes at its commit,  *)
(* and fails there when a unique key was taken meanwhile.  A family is its *)
(* head and the companions a submission names; people are their CPF.       *)
(***************************************************************************)
EXTENDS Naturals, FiniteSets

CONSTANTS Team,      \* requests of the team that may be under way at once
          Senders,   \* deliveries of one form that may be under way at once
          Forms,     \* submissions of a form: source and externalId
          Requests,  \* requests made in the app, by families that are known
          Groups, People,
          Head, With,   \* of each submission: the responsible, the companions
          Known,        \* customers registered beforehand
          Rules,        \* rules of cashback, as the credit a booking may earn
          None

Rows == Forms \cup Requests

\* Unique (groupId, responsibleCustomerId).
Bookings == Groups \X People

Booking == [status : {"pending", "confirmed", "cancelled"},
            source : {"webhook", "portal", "manual"},
            rule : Rules \cup {None},      \* cashbackRuleSnapshot
            party : SUBSET People,
            row : Rows \cup {None}]        \* observer: whom it was made for

ASSUME EnrollmentAssumption ==
  /\ Forms \cap Requests = {}
  /\ Head \in [Rows -> People] /\ With \in [Rows -> SUBSET People]
  /\ Known \subseteq People
  /\ \A q \in Requests : {Head[q]} \cup With[q] \subseteq Known
  /\ Rules \subseteq Nat \ {0}
  /\ None \notin Rows /\ None \notin Rules /\ None \notin Bookings /\ None \notin Booking

VARIABLES
  intake,     \* IntakeEvent.status, "absent" before the row is written
  given,      \* IntakeEvent.bookingId
  customers,  \* the customers of the tenant
  booking,    \* the bookings
  rule,       \* the rule of cashback the settings resolve to now
  sending,    \* deliveries that found no row and are about to write it
  team,       \* the requests of the team under way
  crossed     \* observer: rows two requests of the team were at together

vars == <<intake, given, customers, booking, rule, sending, team, crossed>>

Queue == {"error", "needs_allocation"}
Left == {"allocated", "discarded"}

Request == [act : {"none", "check", "commit", "discard", "reprocess"},
            row : Rows \cup {None}, target : Bookings \cup {None},
            party : SUBSET People, missing : SUBSET People,
            rule : Rules \cup {None}]

\* Rows, bookings and requests hold values of their kind.
TypeOK ==
  /\ intake \in [Rows -> {"absent"} \cup Queue \cup Left]
  /\ given \in [Rows -> Bookings \cup {None}]
  /\ customers \subseteq People
  /\ booking \in [Bookings -> Booking \cup {None}]
  /\ rule \in Rules \cup {None}
  /\ sending \in SUBSET (Forms \X Senders)
  /\ team \in [Team -> Request] /\ crossed \subseteq Rows

Free == [act |-> "none", row |-> None, target |-> None, party |-> {},
         missing |-> {}, rule |-> None]

Init ==
  /\ intake = [r \in Rows |-> "absent"] /\ given = [r \in Rows |-> None]
  /\ customers = Known /\ booking = [b \in Bookings |-> None]
  /\ rule = None /\ sending = {}
  /\ team = [w \in Team |-> Free] /\ crossed = {}

-----------------------------------------------------------------------------
(* Submissions arrive.                                                     *)

\* receiveIntake and receivePublicEnrollment look the submission up; one they
\* find is answered as a duplicate.
Arrives(f, s) ==
  /\ intake[f] = "absent" /\ <<f, s>> \notin sending
  /\ sending' = sending \cup {<<f, s>>}
  /\ UNCHANGED <<intake, given, customers, booking, rule, team, crossed>>

\* Mutant: the status is left to the default of the schema.
StoresByDefault(f, s) ==
  /\ <<f, s>> \in sending
  /\ sending' = sending \ {<<f, s>>}
  /\ intake' = [intake EXCEPT ![f] = IF @ = "absent" THEN "received" ELSE @]
  /\ UNCHANGED <<given, customers, booking, rule, team, crossed>>

\* They store it, mapped or as an error, unless the unique key was taken.
Stores(f, s) ==
  /\ <<f, s>> \in sending
  /\ sending' = sending \ {<<f, s>>}
  /\ \E st \in Queue :
       intake' = [intake EXCEPT ![f] = IF @ = "absent" THEN st ELSE @]
  /\ UNCHANGED <<given, customers, booking, rule, team, crossed>>

\* requestSelfEnrollment: no external id, every request is a row of its own.
Asks(q) ==
  /\ intake[q] = "absent"
  /\ intake' = [intake EXCEPT ![q] = "needs_allocation"]
  /\ UNCHANGED <<given, customers, booking, rule, sending, team, crossed>>

-----------------------------------------------------------------------------
(* The team works the queue.                                               *)

\* A request takes up a row: another one at it makes the row a crossed one.
Takes(w, r, request) ==
  /\ team[w] = Free
  /\ team' = [team EXCEPT ![w] = request]
  /\ crossed' = IF \E v \in Team : team[v].row = r THEN crossed \cup {r} ELSE crossed
  /\ UNCHANGED <<intake, given, customers, booking, rule, sending>>

Drops(w) == team' = [team EXCEPT ![w] = Free]

\* allocateFromQueue reads the row in its transaction.
AllocBegins(w, r, g) ==
  /\ intake[r] = "needs_allocation"
  /\ Takes(w, r, [Free EXCEPT !.act = "check", !.row = r, !.target = <<g, Head[r]>>,
                              !.party = {Head[r]} \cup With[r]])

\* The team books a family it knows: allocateBooking, allocateManualBooking.
\* Bound: one that was registered beforehand.
HandBegins(w, b) ==
  /\ b[2] \in Known /\ team[w] = Free
  /\ team' = [team EXCEPT ![w] = [Free EXCEPT !.act = "check", !.target = b,
                                              !.party = {b[2]}]]
  /\ UNCHANGED <<intake, given, customers, booking, rule, sending, crossed>>

\* Mutant: every booking freezes the rule.
FrozenForAll(r) == rule

\* Only what the customer asked for in the app freezes the rule of cashback.
Frozen(r) == IF r \in Requests THEN rule ELSE None

\* A customer is reused by CPF and created otherwise; the app's request names
\* customers, who are never missing.
Missing(party) == party \ customers

\* allocateBooking: the family is not in the group yet; its rule is frozen.
Checks(w) ==
  LET q == team[w]
  IN /\ q.act = "check" /\ booking[q.target] = None
     /\ team' = [team EXCEPT ![w].act = "commit", ![w].missing = Missing(q.party),
                             ![w].rule = Frozen(q.row)]
     /\ UNCHANGED <<intake, given, customers, booking, rule, sending, crossed>>

\* No unique key of what it writes was taken since.
Clear(q) == booking[q.target] = None /\ q.missing \cap customers = {}

Source(r) == IF r \in Requests THEN "portal" ELSE IF r \in Forms THEN "webhook" ELSE "manual"

\* Customers, booking and the mark on the row, by its id, at once.
Commits(w) ==
  LET q == team[w]
  IN /\ q.act = "commit" /\ Clear(q)
     /\ customers' = customers \cup q.missing
     /\ booking' = [booking EXCEPT ![q.target] =
          [status |-> "pending", source |-> Source(q.row), rule |-> q.rule,
           party |-> q.party, row |-> q.row]]
     /\ intake' = [r \in Rows |-> IF r = q.row THEN "allocated" ELSE intake[r]]
     /\ given' = [r \in Rows |-> IF r = q.row THEN q.target ELSE given[r]]
     /\ Drops(w)
     /\ UNCHANGED <<rule, sending, crossed>>

\* Mutant: the customers are created outside the transaction.
FailsLeavingCustomers(w) ==
  /\ team[w] # Free
  /\ Drops(w)
  /\ customers' = customers \cup team[w].missing
  /\ UNCHANGED <<intake, given, booking, rule, sending, crossed>>

\* A refusal, a taken key, a price that is missing, a crash: nothing is kept.
Fails(w) ==
  /\ team[w] # Free
  /\ Drops(w)
  /\ UNCHANGED <<intake, given, customers, booking, rule, sending, crossed>>

\* Mutant: what was allocated can be discarded too.
DiscardAnyBegins(w, r) ==
  /\ intake[r] \in Queue \cup {"allocated"}
  /\ Takes(w, r, [Free EXCEPT !.act = "discard", !.row = r])

\* discardIntake reads the row, outside any transaction.
DiscardBegins(w, r) ==
  /\ intake[r] \in Queue
  /\ Takes(w, r, [Free EXCEPT !.act = "discard", !.row = r])

\* markDiscarded, by id.
DiscardWrites(w) ==
  /\ team[w].act = "discard"
  /\ intake' = [intake EXCEPT ![team[w].row] = "discarded"]
  /\ Drops(w)
  /\ UNCHANGED <<given, customers, booking, rule, sending, crossed>>

\* Mutant: any row that arrived.
ReprocessableAlways(r) == intake[r] # "absent"

\* Only a row in error is processed again.
Reprocessable(r) == intake[r] = "error"

ReprocessBegins(w, r) ==
  /\ Reprocessable(r)
  /\ Takes(w, r, [Free EXCEPT !.act = "reprocess", !.row = r])

\* markReprocessed or markError, by id.
ReprocessWrites(w) ==
  /\ team[w].act = "reprocess"
  /\ \E st \in Queue : intake' = [intake EXCEPT ![team[w].row] = st]
  /\ Drops(w)
  /\ UNCHANGED <<given, customers, booking, rule, sending, crossed>>

-----------------------------------------------------------------------------
(* What the other parts of the system do to a booking and to the settings. *)

\* Payments confirm a booking and refunds or the team cancel it (BookingLedger).
Moves(b, st) ==
  /\ booking[b] # None /\ booking[b].status # "cancelled" /\ booking[b].status # st
  /\ booking' = [booking EXCEPT ![b].status = st]
  /\ UNCHANGED <<intake, given, customers, rule, sending, team, crossed>>

\* saveCashbackConfig, setGroupCashbackOverride.
SetsRule(v) ==
  /\ rule' = v
  /\ UNCHANGED <<intake, given, customers, booking, sending, team, crossed>>

-----------------------------------------------------------------------------

Next ==
  \/ \E f \in Forms, s \in Senders : Arrives(f, s) \/ Stores(f, s)
  \/ \E q \in Requests : Asks(q)
  \/ \E w \in Team :
       \/ \E r \in Rows, g \in Groups : AllocBegins(w, r, g)
       \/ \E b \in Bookings : HandBegins(w, b)
       \/ \E r \in Rows : DiscardBegins(w, r) \/ ReprocessBegins(w, r)
       \/ Checks(w) \/ Commits(w) \/ Fails(w) \/ DiscardWrites(w) \/ ReprocessWrites(w)
  \/ \E b \in Bookings, st \in {"confirmed", "cancelled"} : Moves(b, st)
  \/ \E v \in Rules \cup {None} : SetsRule(v)

Spec == Init /\ [][Next]_vars

-----------------------------------------------------------------------------
(* Properties.                                                             *)

Made(r) == {b \in Bookings : booking[b] # None /\ booking[b].row = r}

\* All or nothing (allocateFromQueue.ts 25-27, "sem cliente órfão nem inscrição
\* sem aceite"): a row that is allocated names a booking made for it, and every
\* customer was known or travels with some booking, whatever else failed or
\* committed in between.
AllocationIsWhole ==
  /\ \A r \in Rows : intake[r] = "allocated" => given[r] # None
  /\ \A r \in Rows : given[r] # None => given[r] \in Made(r)
  /\ \A p \in customers \ Known :
       \E b \in Bookings : booking[b] # None /\ p \in booking[b].party

\* A submission delivered, worked and refused any number of times ends in one
\* booking at most, and in none when it was discarded, unless two requests of
\* the team were at its row together.
OneBookingPerSubmission ==
  \A r \in Rows \ crossed :
    Made(r) = IF intake[r] = "allocated" THEN {given[r]} ELSE {}

\* What left the queue stays out of it, with the same exception.
QueueIsLeftOnce ==
  [][\A r \in Rows \ crossed' : intake[r] \in Left => intake'[r] = intake[r]]_vars

-----------------------------------------------------------------------------
(* What the promises rest on.                                              *)

\* An allocation names its booking, and creates nobody it does not book.
RequestsAreWhole ==
  \A w \in Team :
    /\ team[w].act \in {"check", "commit"} => team[w].target \in Bookings
    /\ team[w].missing \subseteq team[w].party

\* A row that never was a crossed one has one request at it at most, and is still
\* as that request read it.
RowsAreAsRead ==
  \A r \in Rows \ crossed, w \in Team : team[w].row = r =>
    /\ \A v \in Team : team[v].row = r => v = w
    /\ team[w].act \in {"check", "commit"} => intake[r] = "needs_allocation"
    /\ team[w].act \in {"discard", "reprocess"} => intake[r] \in Queue

DeskInv ==
  TypeOK /\ RequestsAreWhole /\ RowsAreAsRead /\ AllocationIsWhole /\ OneBookingPerSubmission
=============================================================================
