--------------------------- MODULE CustomerCredit ---------------------------
(***************************************************************************)
(* The credit (cashback) of customers: an append-only ledger of entries,   *)
(* each of a booking of its customer.  A request reads sums of the ledger  *)
(* and appends afterwards, outside any transaction.                        *)
(*                                                                         *)
(* Entries are kept as their sum per booking and type.  Amounts are small  *)
(* numbers; a percentage is any part of the amount of the rule.            *)
(***************************************************************************)
EXTENDS Naturals, FiniteSets, FiniteSetsExt

CONSTANTS Bookings,  \* pairs of a group and the customer responsible
          Clerks,    \* requests that may be under way at once
          Cap,       \* what maxRedemptionPct lets one redemption take
          MaxGrant,  \* bound: credit from refunds
          None

VARIABLES
  booking,  \* None, or a record with its status and its frozen rule
  earned, granted, spent, lapsed,  \* accrual, adjustment, redemption, expiry
  due,      \* bookings with an accrual whose expiresAt has come
  clerk,    \* the requests under way
  raced     \* observer: two requests were under way together

\* A request holds what it has read and is about to append.
Task == [act : {"none", "accrue", "redeem", "expire"},
         todo : [Bookings -> Nat]]

\* Sums are of whole amounts, and what is expired was earned.
TypeOK ==
  /\ earned \in [Bookings -> Nat] /\ granted \in [Bookings -> 0 .. MaxGrant]
  /\ spent \in [Bookings -> Nat] /\ lapsed \in [Bookings -> Nat]
  /\ due \subseteq {b \in Bookings : earned[b] > 0}
  /\ clerk \in [Clerks -> Task] /\ raced \in BOOLEAN

Nothing == [b \in Bookings |-> 0]
Idle == [act |-> "none", todo |-> Nothing]

Init ==
  /\ earned = Nothing /\ granted = Nothing /\ spent = Nothing /\ lapsed = Nothing
  /\ due = {} /\ clerk = [k \in Clerks |-> Idle] /\ raced = FALSE

-----------------------------------------------------------------------------

Of(p) == {b \in Bookings : b[2] = p}
Sum(f, S) == MapThenSumSet(LAMBDA b : f[b], S)

\* SUM(amount_cents) of the entries of these bookings, in its two signs.
In(S) == Sum(earned, S) + Sum(granted, S)
Out(S) == Sum(spent, S) + Sum(lapsed, S)

\* Mutant: what expired before is expired again.
RemainingUnspent(b) ==
  IF In({b}) > Sum(spent, {b}) THEN In({b}) - Sum(spent, {b}) ELSE 0

\* listExpiredCredits: what is left of ALL the entries of a booking.
Remaining(b) ==
  IF In({b}) > Out({b}) THEN In({b}) - Out({b}) ELSE 0

\* Mutant: the sum of what is left on each booking (availableCashback), which
\* counts again what was earned on one and spent on another.
AffordsByBooking(p, n) == n <= Sum([b \in Bookings |-> Remaining(b)], Of(p))

\* balance, one sum of all the entries of the customer.
Affords(p, n) == Out(Of(p)) + n <= In(Of(p))

\* A request that read what it needs is about to append.
Begins(k, act, todo) ==
  /\ clerk[k] = Idle
  /\ clerk' = [clerk EXCEPT ![k] = [act |-> act, todo |-> todo]]
  /\ raced' = (raced \/ \E j \in Clerks \ {k} : clerk[j] # Idle)
  /\ UNCHANGED <<earned, granted, spent, lapsed, due>>

\* The rule frozen on the booking: None when it earns nothing.  Every booking of
\* this code has one; a booking from before (61-68) is left out.
RuleOf(b) == booking[b].rule

\* Mutant: without asking whether the booking earned already.
AccrueAgain(k, b) ==
  /\ booking[b] # None /\ booking[b].status = "confirmed" /\ RuleOf(b) # None
  /\ \E n \in 1 .. RuleOf(b) : Begins(k, "accrue", [Nothing EXCEPT ![b] = n])

\* accrueCashback: confirmed, never accrued, and its rule gives something.
AccrueReads(k, b) ==
  /\ booking[b] # None /\ booking[b].status = "confirmed"
  /\ earned[b] = 0 /\ RuleOf(b) # None
  /\ \E n \in 1 .. RuleOf(b) : Begins(k, "accrue", [Nothing EXCEPT ![b] = n])

\* redeemCashback, on a booking in any status.
RedeemReads(k, b) ==
  /\ booking[b] # None
  /\ \E n \in 1 .. Cap : Affords(b[2], n) /\ Begins(k, "redeem", [Nothing EXCEPT ![b] = n])

\* expireCashback lists the bookings with an accrual that is due.
ExpireReads(k) ==
  LET list == [b \in Bookings |-> IF b \in due THEN Remaining(b) ELSE 0]
  IN list # Nothing /\ Begins(k, "expire", list)

\* addEntry, one at a time; the request ends with the last one.
Appends(k, b) ==
  LET n == clerk[k].todo[b]
      left == [clerk[k].todo EXCEPT ![b] = 0]
      Adds(f, act) == [f EXCEPT ![b] = IF clerk[k].act = act THEN @ + n ELSE @]
  IN /\ n > 0
     /\ earned' = Adds(earned, "accrue")
     /\ spent' = Adds(spent, "redeem")
     /\ lapsed' = Adds(lapsed, "expire")
     /\ clerk' = [clerk EXCEPT ![k] = IF left = Nothing THEN Idle ELSE [@ EXCEPT !.todo = left]]
     /\ UNCHANGED <<granted, due, raced>>

\* The request dies: what it did not append stays out.
Dies(k) ==
  /\ clerk[k] # Idle
  /\ clerk' = [clerk EXCEPT ![k] = Idle]
  /\ UNCHANGED <<earned, granted, spent, lapsed, due, raced>>

\* registerRefund to the customer's credit: there was money on the booking, and
\* money confirms it (BookingLedger).  The entry carries no expiresAt ("não expira",
\* line 96) but the booking, with whose bonus Remaining counts it (README.md).
Grants(b) ==
  /\ booking[b] # None /\ booking[b].status # "pending"
  /\ Sum(granted, Bookings) < MaxGrant
  /\ granted' = [granted EXCEPT ![b] = @ + 1]
  /\ UNCHANGED <<earned, spent, lapsed, due, clerk, raced>>

\* The day of expiresAt comes.
FallsDue(b) ==
  /\ earned[b] > 0 /\ b \notin due
  /\ due' = due \cup {b}
  /\ UNCHANGED <<earned, granted, spent, lapsed, clerk, raced>>

Next ==
  \/ \E k \in Clerks :
       \/ \E b \in Bookings : AccrueReads(k, b) \/ RedeemReads(k, b) \/ Appends(k, b)
       \/ ExpireReads(k) \/ Dies(k)
  \/ \E b \in Bookings : Grants(b) \/ FallsDue(b)

-----------------------------------------------------------------------------
(* Properties.                                                             *)

\* CB-09 (accrueCashback.ts, "usa a regra congelada na inscrição"): a booking
\* earns by the rule it was made under and never twice, whatever became of the
\* settings, of its status or of the request before.
EarnsByItsFrozenRule ==
  ~raced => \A b \in Bookings : earned[b] > 0 =>
    booking[b] # None /\ booking[b].rule # None /\ earned[b] <= booking[b].rule

\* A customer never spends more than was put in, on whichever bookings, also
\* after the credit expired (CB-05), unless two requests overlapped.
SpendsWhatWasGiven ==
  ~raced => \A b \in Bookings :
    Sum(spent, Of(b[2])) <= In(Of(b[2]))

\* The expiry job may die half way and run again, with redemptions and refunds in
\* between: it takes from a booking that earned, and only what is still there, not
\* what a redemption spent of it or an earlier run expired (CB-07, "idempotente"),
\* unless two requests overlapped.  What is still there includes the credit of a
\* refund, contrary to registerRefund.ts 96 (README.md, What the code does otherwise).
ExpiresWhatIsLeft ==
  [][~raced => \A b \in Bookings : lapsed'[b] # lapsed[b] =>
       earned[b] > 0 /\ lapsed'[b] + spent[b] <= In({b})]_lapsed

=============================================================================
