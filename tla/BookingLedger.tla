--------------------------- MODULE BookingLedger ---------------------------
(***************************************************************************)
(* The money of one booking: its rows of booking_payments, its status, one *)
(* charge issued at the provider in parcels, the webhook requests that     *)
(* settle the parcels paid and the team's requests that register, refund   *)
(* and delete.  A request reads, decides and writes in separate statements *)
(* of the database; others run between them.                               *)
(*                                                                         *)
(* Amounts are in cents.  Dates, methods, notes, the audit trail, roles    *)
(* and the status shown on the charge are left out.                        *)
(***************************************************************************)
EXTENDS Integers, Sequences, FiniteSets, FiniteSetsExt

CONSTANTS Hooks,     \* webhook requests that may run at the same time
          Desks,     \* requests of the team that may run at the same time
          Parcels,   \* payments the provider splits the charge into
          Value,     \* what the customer pays for each parcel
          Gross,     \* amountCents of the charge
          Net,       \* netAmountCents: what settles the booking
          Amounts,   \* amounts the team types
          MaxOps,    \* bound: requests the team makes
          MaxFaults, \* bound: requests that die half way
          None

Billings == {"card", "slip"}

ASSUME MoneyAssumption ==
  /\ Gross \in Nat \ {0} /\ Net \in Nat \ {0}
  /\ Value \in [Parcels -> Nat \ {0}]
  /\ Amounts \subseteq Nat \ {0}
  /\ None \notin Parcels

ASSUME BoundAssumption == IsFiniteSet(Desks) /\ MaxOps \in Nat /\ MaxFaults \in Nat

VARIABLES
  status,   \* of the booking
  rows,     \* booking_payments, in the order of creation
  received, \* sum of the rows not deleted
  settled,  \* the part of it that came from the charge
  mark,     \* bookingPaymentId of the charge: a row, or 0
  billing,  \* billingType of the charge
  credit,   \* cashback credited by refunds
  paid,     \* parcels the customer has paid at the provider
  acked,    \* parcels whose webhook got its 200
  hook,     \* the webhook requests
  desk,     \* the team's requests
  ops,      \* requests the team has made
  faults,   \* requests that died
  torn      \* requests of the team that died between two writes

book  == <<status, rows, received, settled>>
world == <<billing, paid>>
done  == <<ops, faults, torn>>
vars  == <<book, mark, credit, acked, world, hook, desk, done>>

Row == [kind : {"payment", "refund", "cashback"}, amount : Int,
        parcel : Parcels \cup {None}, live : BOOLEAN]

\* A request between two requests: nothing in memory.
IdleHook == [at |-> "idle", parcel |-> None, first |-> FALSE, confirms |-> FALSE,
             quit |-> 0, row |-> 0]
IdleDesk == [at |-> "idle", amount |-> 0, confirms |-> FALSE, kind |-> "payment",
             left |-> 0, open |-> FALSE]

HookType == [at : {"idle", "reads", "writes", "marks"}, parcel : Parcels \cup {None},
             first : BOOLEAN, confirms : BOOLEAN, quit : Nat, row : Nat]
DeskType == [at : {"idle", "pays", "refunds", "credits", "closes", "confirms"},
             amount : Nat, confirms : BOOLEAN,
             kind : {"payment", "refund", "cashback"}, left : Nat, open : BOOLEAN]

\* Every column and every local variable holds a value of its kind; what a
\* refund expects to leave behind is never negative.
TypeOK ==
  /\ status \in {"pending", "confirmed", "cancelled"}
  /\ rows \in Seq(Row) /\ received \in Int /\ settled \in Int
  /\ mark \in Nat /\ billing \in Billings /\ credit \in Nat
  /\ paid \subseteq Parcels /\ acked \subseteq Parcels
  /\ hook \in [Hooks -> HookType] /\ desk \in [Desks -> DeskType]
  /\ ops \in 0 .. MaxOps /\ faults \in 0 .. MaxFaults /\ torn \in Nat

\* The booking is pending and the charge is issued.
Init ==
  /\ status = "pending" /\ rows = <<>> /\ received = 0 /\ settled = 0
  /\ mark = 0 /\ billing \in Billings /\ credit = 0
  /\ paid = {} /\ acked = {}
  /\ hook = [h \in Hooks |-> IdleHook] /\ desk = [d \in Desks |-> IdleDesk]
  /\ ops = 0 /\ faults = 0 /\ torn = 0

-----------------------------------------------------------------------------
(* The table.                                                              *)

\* sumCents over a set of rows.
SumOf(S) == MapThenSumSet(LAMBDA i : rows[i].amount, S)

\* Mutant: a confirmation that does not look at the status it replaces.
ConfirmedAlways(wanted) == IF wanted THEN "confirmed" ELSE status

\* Mutant: the row without the confirmation.
ConfirmedNever(wanted) == status

\* The status after a row is created, in the same transaction: updateMany with
\* the condition that the booking is still pending.
Confirmed(wanted) ==
  IF wanted /\ status = "pending" THEN "confirmed" ELSE status

\* payments.create.
Creates(kind, amount, parcel, wanted) ==
  /\ rows' = Append(rows, [kind |-> kind, amount |-> amount,
                           parcel |-> parcel, live |-> TRUE])
  /\ received' = received + amount
  /\ settled' = IF parcel = None THEN settled ELSE settled + amount
  /\ status' = Confirmed(wanted)

-----------------------------------------------------------------------------
(* The webhook: settleChargeFromWebhook.                                   *)

\* A customer pays a parcel at the provider.
CustomerPays(p) ==
  /\ p \notin paid
  /\ paid' = paid \cup {p}
  /\ UNCHANGED <<book, mark, credit, acked, billing, hook, desk, done>>

\* The provider sends the event of a parcel until it gets a 200.  The handler
\* reads the charge and the booking.
Delivers(h, p) ==
  /\ p \in paid \ acked /\ hook[h].at = "idle"
  /\ hook' = [hook EXCEPT ![h] = [IdleHook EXCEPT
                !.at = "reads", !.parcel = p,
                !.first = (mark = 0), !.confirms = (status = "pending")]]
  /\ UNCHANGED <<book, mark, credit, acked, world, desk, done>>

\* Mutant: every event is new.
BookedNever(p) == FALSE

\* Mutant: the mark is the charge and not the parcel.
BookedByCharge(p) == \E i \in DOMAIN rows : rows[i].live /\ rows[i].parcel # None

\* A row that is not deleted carries the parcel in its reference.
Booked(p) == \E i \in DOMAIN rows : rows[i].live /\ rows[i].parcel = p

Least(a, b) == IF a < b THEN a ELSE b

Remaining == IF settled < Net THEN Net - settled ELSE 0

\* Math.round(paid * net / gross).
Share(p) == (2 * Value[p] * Net + Gross) \div (2 * Gross)

\* Mutant: the share without what is left to settle.
QuitationUncapped(p) == IF billing = "card" THEN Remaining ELSE Share(p)

\* quitationOf: a card settles the whole charge, a slip or a pix its share.
Quitation(p) == IF billing = "card" THEN Remaining ELSE Least(Share(p), Remaining)

\* Mutant: what changed nothing is answered with an error.
AnswersHandled(h) ==
  /\ acked' = IF hook[h].at = "marks" THEN acked \cup {hook[h].parcel} ELSE acked
  /\ hook' = [hook EXCEPT ![h] = IdleHook]

\* 200: the provider stops sending this parcel.
Answers(h) ==
  /\ acked' = acked \cup {hook[h].parcel}
  /\ hook' = [hook EXCEPT ![h] = IdleHook]

\* The ledger already has the parcel, or nothing is left to settle.
Ignores(h) ==
  LET p == hook[h].parcel IN
  /\ hook[h].at = "reads"
  /\ Booked(p) \/ Quitation(p) = 0
  /\ Answers(h)
  /\ UNCHANGED <<book, mark, credit, world, desk, done>>

\* The ledger is read and the amount decided.
Decides(h) ==
  LET p == hook[h].parcel IN
  /\ hook[h].at = "reads"
  /\ ~Booked(p) /\ Quitation(p) > 0
  /\ hook' = [hook EXCEPT ![h].at = "writes", ![h].quit = Quitation(p)]
  /\ UNCHANGED <<book, mark, credit, acked, world, desk, done>>

Settles(h) ==
  /\ hook[h].at = "writes"
  /\ Creates("payment", hook[h].quit, hook[h].parcel, hook[h].confirms)
  /\ hook' = [hook EXCEPT ![h].at = "marks", ![h].row = Len(rows) + 1]
  /\ UNCHANGED <<mark, credit, acked, world, desk, done>>

\* markSettled, if the charge was read without a mark, and the answer.
Marks(h) ==
  /\ hook[h].at = "marks"
  /\ mark' = IF hook[h].first THEN hook[h].row ELSE mark
  /\ Answers(h)
  /\ UNCHANGED <<book, credit, world, desk, done>>

\* A request that dies gives no answer.
HookDies(h) ==
  /\ hook[h].at # "idle" /\ faults < MaxFaults
  /\ hook' = [hook EXCEPT ![h] = IdleHook] /\ faults' = faults + 1
  /\ UNCHANGED <<book, mark, credit, acked, world, desk, ops, torn>>

-----------------------------------------------------------------------------
(* The team: registerPayment, registerRefund, deletePayment, cancelBooking *)
(* and confirmBookingManually.                                             *)

Asks(d) == desk[d].at = "idle" /\ ops < MaxOps /\ ops' = ops + 1

\* a is net of the provider's fee, which may leave nothing.
RegisterReads(d, a) ==
  /\ Asks(d) /\ status # "cancelled"
  /\ desk' = [desk EXCEPT ![d] = [IdleDesk EXCEPT
                !.at = "pays", !.amount = a, !.confirms = (status = "pending")]]
  /\ UNCHANGED <<book, mark, credit, acked, world, hook, faults, torn>>

RegisterWrites(d) ==
  /\ desk[d].at = "pays"
  /\ Creates("payment", desk[d].amount, None, desk[d].confirms)
  /\ desk' = [desk EXCEPT ![d] = IdleDesk]
  /\ UNCHANGED <<mark, credit, acked, world, hook, done>>

\* Mutant: what was already given back still counts.
RefundableGross(a) ==
  a <= SumOf({i \in DOMAIN rows : rows[i].live /\ rows[i].kind = "payment"})

\* No more than was received.
Refundable(a) == a <= received

RefundReads(d, a, k) ==
  /\ Asks(d) /\ Refundable(a)
  /\ desk' = [desk EXCEPT ![d] = [IdleDesk EXCEPT
                !.at = "refunds", !.amount = a, !.kind = k,
                !.left = received - a, !.open = (status # "cancelled")]]
  /\ UNCHANGED <<book, mark, credit, acked, world, hook, faults, torn>>

\* Mutant: money that left is credited too.
AfterRefundAlways(k) == "credits"

\* Only a refund kept as credit goes to the cashback ledger.
AfterRefund(k) == IF k = "cashback" THEN "credits" ELSE "closes"

\* The counterpart: a negative row.
RefundWrites(d) ==
  /\ desk[d].at = "refunds"
  /\ Creates(desk[d].kind, -desk[d].amount, None, FALSE)
  /\ desk' = [desk EXCEPT ![d].at = AfterRefund(desk[d].kind)]
  /\ UNCHANGED <<mark, credit, acked, world, hook, done>>

RefundCredits(d) ==
  /\ desk[d].at = "credits"
  /\ credit' = credit + desk[d].amount
  /\ desk' = [desk EXCEPT ![d].at = "closes"]
  /\ UNCHANGED <<book, mark, acked, world, hook, done>>

\* Mutant: the last cent is not seen.
ClosesLate(d) == desk[d].left < 0 /\ desk[d].open

\* Everything was given back, by what the request read at its start.
Closes(d) == desk[d].left = 0 /\ desk[d].open

RefundCloses(d) ==
  /\ desk[d].at = "closes"
  /\ status' = IF Closes(d) THEN "cancelled" ELSE status
  /\ desk' = [desk EXCEPT ![d] = IdleDesk]
  /\ UNCHANGED <<rows, received, settled, mark, credit, acked, world, hook, done>>

\* The row stays and leaves every sum.
DeletePayment(d, i) ==
  /\ Asks(d) /\ i \in DOMAIN rows /\ rows[i].live
  /\ rows' = [rows EXCEPT ![i].live = FALSE]
  /\ received' = received - rows[i].amount
  /\ settled' = IF rows[i].parcel = None THEN settled ELSE settled - rows[i].amount
  /\ UNCHANGED <<status, mark, credit, acked, world, hook, desk, faults, torn>>

CancelBooking(d) ==
  /\ Asks(d) /\ status # "cancelled"
  /\ status' = "cancelled"
  /\ UNCHANGED <<rows, received, settled, mark, credit, acked, world, hook, desk,
                 faults, torn>>

ConfirmReads(d) ==
  /\ Asks(d) /\ status = "pending"
  /\ desk' = [desk EXCEPT ![d].at = "confirms"]
  /\ UNCHANGED <<book, mark, credit, acked, world, hook, faults, torn>>

\* confirmManually updates by id, whatever the status has become.
ConfirmWrites(d) ==
  /\ desk[d].at = "confirms"
  /\ status' = "confirmed"
  /\ desk' = [desk EXCEPT ![d] = IdleDesk]
  /\ UNCHANGED <<rows, received, settled, mark, credit, acked, world, hook, done>>

DeskDies(d) ==
  /\ desk[d].at # "idle" /\ faults < MaxFaults
  /\ torn' = IF desk[d].at \in {"credits", "closes"} THEN torn + 1 ELSE torn
  /\ desk' = [desk EXCEPT ![d] = IdleDesk] /\ faults' = faults + 1
  /\ UNCHANGED <<book, mark, credit, acked, world, hook, ops>>

-----------------------------------------------------------------------------
Webhook(h) == \/ \E p \in Parcels : Delivers(h, p)
              \/ Ignores(h) \/ Decides(h) \/ Settles(h) \/ Marks(h)

Writes(d) == \/ RegisterWrites(d) \/ RefundWrites(d) \/ RefundCredits(d)
             \/ RefundCloses(d) \/ ConfirmWrites(d)

Reads(d) == \/ \E a \in Amounts \cup {0} : RegisterReads(d, a)
            \/ \E a \in Amounts : RefundReads(d, a, "refund") \/ RefundReads(d, a, "cashback")
            \/ \E i \in DOMAIN rows : DeletePayment(d, i)
            \/ CancelBooking(d) \/ ConfirmReads(d)

Next == \/ \E p \in Parcels : CustomerPays(p)
        \/ \E h \in Hooks : Webhook(h) \/ HookDies(h)
        \/ \E d \in Desks : Reads(d) \/ Writes(d) \/ DeskDies(d)

Spec == Init /\ [][Next]_vars

\* The provider sends again what got no 200, and a request that started goes
\* on; nothing makes a customer pay or the team ask.
Fairness == \A h \in Hooks : WF_vars(Webhook(h))

FairSpec == Spec /\ Fairness

-----------------------------------------------------------------------------
(* What the ledger promises.                                               *)

AllLive == \A i \in DOMAIN rows : rows[i].live

\* PG-03: sending the event of a parcel again does not book it again.  For a
\* provider that waits for an answer before it sends again.
OneRowPerParcel ==
  \A i, j \in DOMAIN rows :
    rows[i].live /\ rows[j].live /\ rows[i].parcel # None
      /\ rows[i].parcel = rows[j].parcel => i = j

\* PG-08: parcels, resent events and deleted rows never make the charge settle
\* more than its net value.  For one webhook request at a time.
NeverOverSettled == settled <= Net

\* IN-08: money that came in, by hand or by webhook, left no booking pending,
\* and it stays so when the row is deleted (IN-11).
MoneyConfirms ==
  (\E i \in DOMAIN rows : rows[i].kind = "payment") => status # "pending"

\* "A devolucao nao pode passar do que foi recebido", while nothing is
\* deleted.  For one request of the team at a time, webhooks in between.
RefundsAreCovered == AllLive => received >= 0

\* "Dinheiro devolvido com inscricao ainda de pe e estado inconsistente":
\* when everything was given back the booking is cancelled, unless the request
\* died or rows were deleted.
EmptiedIsCancelled ==
  AllLive /\ torn = 0 /\ (\A d \in Desks : desk[d].at \notin {"credits", "closes"})
    /\ (\E i \in DOMAIN rows : rows[i].kind # "payment") /\ received = 0
      => status = "cancelled"

\* Every refund kept as credit is in the cashback ledger, once, when none is
\* half way and none died.
CreditIsBacked ==
  torn = 0 /\ (\A d \in Desks : desk[d].at # "credits") =>
    credit = -SumOf({i \in DOMAIN rows : rows[i].kind = "cashback"})

\* A parcel answered with 200 is in the ledger, or the charge was settled
\* whole without it: the 200 ends the sending, and money not booked by then
\* never is.  While nothing is deleted.
AnsweredIsBooked ==
  AllLive => \A p \in acked :
    settled = Net \/ \E i \in DOMAIN rows : rows[i].parcel = p

\* A cancelled booking stays cancelled, whatever money arrives or was on its
\* way.  For one request of the team at a time.
CancelledStays == [][status = "cancelled" => status' = "cancelled"]_vars

\* Every parcel paid gets its 200: duplicates and requests that die do not
\* make the provider send for ever.
PaidIsAnswered == \A p \in Parcels : p \in paid ~> p \in acked

\* "A ultima leva o arredondamento e a inscricao fecha exata": with every
\* parcel in the ledger the charge has settled its whole net value.
ClosesExactly == AllLive /\ acked = Parcels => settled = Net

-----------------------------------------------------------------------------
(* What the promises rest on: the strengthenings that are inductive.       *)

\* A request that did not read "pending" knows why; what it is about to write
\* is of the right kind and sign.  For any number of requests.
Requests ==
  /\ \A h \in Hooks : hook[h].at # "idle" =>
       /\ hook[h].parcel \in Parcels
       /\ ~hook[h].confirms => status # "pending"
       /\ hook[h].at = "writes" => hook[h].quit > 0
  /\ \A d \in Desks :
       /\ desk[d].at = "pays" /\ ~desk[d].confirms => status # "pending"
       /\ desk[d].at = "refunds" => desk[d].kind # "payment" /\ desk[d].amount > 0

\* A row of the charge is money that came in.
RowsOfTheCharge ==
  \A i \in DOMAIN rows : rows[i].parcel # None => rows[i].amount > 0

\* What a webhook read is still so when it writes.  For one at a time.
HookIsCurrent ==
  \A h \in Hooks :
    /\ hook[h].at = "writes" => ~Booked(hook[h].parcel) /\ settled + hook[h].quit <= Net
    /\ hook[h].at = "marks" => \E i \in DOMAIN rows : rows[i].parcel = hook[h].parcel

\* What a request of the team read still holds, or more money came in, when it
\* writes.  For one at a time.
DeskIsCurrent ==
  \A d \in Desks :
    /\ desk[d].at \in {"pays", "confirms"} => status # "cancelled"
    /\ desk[d].at = "refunds" => received >= desk[d].left + desk[d].amount
    /\ desk[d].at \in {"credits", "closes"} => received >= desk[d].left
    /\ desk[d].at \in {"refunds", "credits", "closes"} /\ ~desk[d].open
         => status = "cancelled"

AnyInv == TypeOK /\ Requests /\ RowsOfTheCharge /\ MoneyConfirms
=============================================================================
