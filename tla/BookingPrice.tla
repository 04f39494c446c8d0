---------------------------- MODULE BookingPrice ----------------------------
(***************************************************************************)
(* The price of the booking of BookingLedger: frozen for each participant  *)
(* when the booking is made, cut by discounts of the team, put back to the *)
(* table of the itinerary, while money comes in and goes out.              *)
(*                                                                         *)
(* A request reads the booking and its receipts, computes, and writes all  *)
(* participants in one transaction.  Coupons are left out (nothing calls   *)
(* them); a booking priced by hand has no table and only takes discounts.  *)
(***************************************************************************)
EXTENDS BookingLedger, Pricing

CONSTANTS Party,     \* the participants
          Roll,      \* the order they were booked in, the responsible first
          Band,      \* the age band of each, on the day the group starts
          Tables,    \* versions of the prices, in the order they come to apply
          Percents, Fixed, \* discounts in percent, and in cents
          MaxCuts    \* bound: requests on the price

\* The participants in any order: their query has no orderBy.
Orders == {s \in [1 .. Cardinality(Party) -> Party] : \A i, j \in DOMAIN s :
             s[i] = s[j] => i = j}

ASSUME PriceAssumption ==
  /\ IsFiniteSet(Party) /\ Roll \in Orders /\ Band \in [Party -> AgeBands]
  /\ Tables \in Seq(PriceTable) /\ Tables # <<>>
  /\ Percents \subseteq 1 .. 100 /\ Fixed \subseteq Nat \ {0}
  /\ MaxCuts \in Nat

VARIABLES
  unit,     \* unitPriceCents of each participant
  source,   \* priceSource of the participants
  version,  \* the one that applies on the day the group starts
  quote,    \* the team's requests on the price
  cuts,     \* requests on the price made
  agreed,   \* observer: the total the last request meant to leave
  first     \* observer: what each participant pays by the table, as last priced

price == <<unit, source, agreed, first>>
priceVars == <<price, version, quote, cuts>>
allVars == <<vars, priceVars>>

IdleQuote == [at |-> "idle", unit |-> [p \in Party |-> 0], total |-> 0, late |-> FALSE]

QuoteType == [at : {"idle", "discounts", "restores"}, unit : [Party -> Nat],
              total : Nat, late : BOOLEAN]  \* late: an observer, see Late

\* Prices are whole amounts that are never negative.
PriceTypeOK ==
  /\ TypeOK
  /\ unit \in [Party -> Nat] /\ source \in {"auto", "override"}
  /\ version \in DOMAIN Tables
  /\ quote \in [Desks -> QuoteType] /\ cuts \in 0 .. MaxCuts
  /\ agreed \in Nat /\ first \in [Party -> Nat]

-----------------------------------------------------------------------------
(* Reading the participants.                                               *)

Listed(f, order) == [i \in DOMAIN order |-> f[order[i]]]
ByParticipant(units, order) ==
  [p \in Party |-> units[CHOOSE i \in DOMAIN order : order[i] = p]]

\* priceBooking.
Priced(order, prices) ==
  ByParticipant(PriceParticipants(Listed(Band, order), prices), order)

\* resolveApplicablePrice: the latest version that starts by then.
Table == Tables[version]

\* bookingContracted, of a booking without coupon.
Contracted == Total(unit)

\* allocateBooking.
PriceInit ==
  /\ Init
  /\ version = 1 /\ source = "auto"
  /\ unit = Priced(Roll, Table)
  /\ agreed = BookingTotal(Band, Table) /\ first = unit
  /\ quote = [d \in Desks |-> IdleQuote] /\ cuts = 0

-----------------------------------------------------------------------------
(* The requests.                                                           *)

\* One request of the team at a time on a desk, of either kind.
Free(d) == desk[d].at = "idle" /\ quote[d].at = "idle"
AsksPrice(d) == Free(d) /\ ops + cuts < MaxOps /\ cuts < MaxCuts /\ cuts' = cuts + 1

Cuts == Fixed \cup {DiscountFromPercent(Contracted, n) : n \in Percents}

\* Mutant: a fixed amount is not held against the price.
AllowedAny(cut) == 0 < cut

\* Mutant: what was received is not looked at.
AllowedAlways(cut) == 0 < cut /\ cut <= Contracted

\* Never below what was received.
Allowed(cut) == 0 < cut /\ cut <= Contracted /\ Contracted - cut >= received

\* discountBookingTotal.
DiscountReads(d, order, cut) ==
  /\ AsksPrice(d) /\ status # "cancelled" /\ Allowed(cut)
  /\ quote' = [quote EXCEPT ![d] = [at |-> "discounts",
       unit |-> ByParticipant(DistributeDiscount(Listed(unit, order), cut), order),
       total |-> Contracted - cut, late |-> FALSE]]
  /\ UNCHANGED <<vars, price, version>>

\* Mutant: the booking is confirmed with its new price.
DiscountConfirms(d) ==
  /\ quote[d].at = "discounts"
  /\ unit' = quote[d].unit /\ source' = "override" /\ agreed' = quote[d].total
  /\ quote' = [quote EXCEPT ![d] = IdleQuote]
  /\ status' = "confirmed"
  /\ UNCHANGED <<rows, received, settled, mark, credit, acked, world, hook, desk, done,
                 first, version, cuts>>

\* applyParticipantOverrides, whatever the booking has become.
DiscountWrites(d) ==
  /\ quote[d].at = "discounts"
  /\ unit' = quote[d].unit /\ source' = "override" /\ agreed' = quote[d].total
  /\ quote' = [quote EXCEPT ![d] = IdleQuote]
  /\ UNCHANGED <<vars, first, version, cuts>>

\* restoreBookingTablePrice: by the version that applies now.
RestoreReads(d, order) ==
  /\ AsksPrice(d) /\ status # "cancelled" /\ source = "override"
  /\ quote' = [quote EXCEPT ![d] = [at |-> "restores", unit |-> Priced(order, Table),
       total |-> BookingTotal(Band, Table), late |-> FALSE]]
  /\ UNCHANGED <<vars, price, version>>

\* restoreParticipantTablePrices.
RestoreWrites(d) ==
  /\ quote[d].at = "restores"
  /\ unit' = quote[d].unit /\ source' = "auto" /\ agreed' = quote[d].total
  /\ first' = quote[d].unit
  /\ quote' = [quote EXCEPT ![d] = IdleQuote]
  /\ UNCHANGED <<vars, version, cuts>>

\* A request that dies wrote nothing.
QuoteDies(d) ==
  /\ quote[d].at # "idle"
  /\ quote' = [quote EXCEPT ![d] = IdleQuote]
  /\ UNCHANGED <<vars, price, version, cuts>>

\* addItineraryPriceVersion, of a version that starts later than the one in force
\* and not after the group; another one changes nothing here.  Bound: after a
\* discount, as nothing but a restore reads it.
AddPriceVersion ==
  /\ version < Len(Tables) /\ source = "override"
  /\ version' = version + 1
  /\ UNCHANGED <<vars, price, quote, cuts>>

-----------------------------------------------------------------------------
(* The composition.                                                        *)

\* Observer: the sum of the receipts moved under a discount that has read it.
Late == quote' = [d \in Desks |->
  IF quote[d].at # "idle" /\ received' # received
  THEN [quote[d] EXCEPT !.late = TRUE] ELSE quote[d]]

LedgerSteps ==
  \/ \E p \in Parcels : CustomerPays(p)
  \/ \E h \in Hooks : Webhook(h) \/ HookDies(h)
  \/ \E d \in Desks :
       \/ Free(d) /\ ops + cuts < MaxOps /\ Reads(d)
       \/ Writes(d) \/ DeskDies(d)

PriceSteps ==
  \/ \E d \in Desks :
       \/ \E order \in Orders : RestoreReads(d, order)
       \/ \E order \in Orders, cut \in Cuts : DiscountReads(d, order, cut)
       \/ DiscountWrites(d) \/ RestoreWrites(d) \/ QuoteDies(d)
  \/ AddPriceVersion

PriceNext ==
  \/ LedgerSteps /\ Late /\ UNCHANGED <<price, version, cuts>>
  \/ PriceSteps

PriceSpec == PriceInit /\ [][PriceNext]_allVars

FairPriceSpec ==
  /\ PriceSpec
  /\ \A h \in Hooks : WF_allVars(Webhook(h) /\ Late /\ UNCHANGED <<price, version, cuts>>)

-----------------------------------------------------------------------------
(* Properties.                                                             *)

\* "A soma dos novos unitarios bate exatamente com o total combinado": whatever
\* the order the participants were read in, and after any number of discounts
\* and restores, the prices add up to the total that was agreed, or to the
\* total of the table.
UnitsAddUp == Contracted = agreed

\* A discount raises nobody's price, and who travels for nothing in the price of
\* the couple gets no cent of it, however many times it is cut and rounded.
NobodyPaysMore == \A p \in Party : unit[p] <= first[p]

\* "O desconto deixaria a inscricao abaixo do que ja foi recebido": a discount
\* never leaves the booking owing its customer, but for the money that moved
\* while it was being given.
DiscountsOweNothing ==
  [][\A d \in Desks :
       quote[d].at = "discounts" /\ unit' # unit /\ received <= Contracted
         => received' <= Total(unit') \/ quote[d].late]_allVars

\* The price changes nothing of what the ledger promises.
KeepsTheLedger == Spec
=============================================================================
