------------------------------ MODULE Pricing ------------------------------
(***************************************************************************)
(* What a booking costs: the price of each participant by the table of the *)
(* itinerary, and a discount on the whole spread over the participants.    *)
(* Amounts are in cents.  Participants are given as the sequence the code  *)
(* read, by their age band on the day the group starts.                    *)
(*                                                                         *)
(* Fractions are exact here and floating point in the code: where two of   *)
(* them tie, the code may see a difference.                                *)
(***************************************************************************)
EXTENDS Naturals, Sequences, FiniteSets, FiniteSetsExt

AgeBands == {"adult", "child_mid", "child_young"}
PriceTable == [couple : Nat, solo : Nat, extra : Nat, mid : Nat, young : Nat]

\* sumCents.
Total(units) == MapThenSumSet(LAMBDA i : units[i], DOMAIN units)

Count(bands, band) == Cardinality({i \in DOMAIN bands : bands[i] = band})

\* calculateBookingTotal: the base for a couple or for one, and each of the others.
BookingTotal(bands, prices) ==
  LET adults == Count(bands, "adult")
      base == IF adults >= 2 THEN prices.couple ELSE IF adults = 1 THEN prices.solo ELSE 0
      extras == IF adults > 2 THEN adults - 2 ELSE 0
  IN base + extras * prices.extra + Count(bands, "child_mid") * prices.mid
          + Count(bands, "child_young") * prices.young

\* priceParticipants: the first adult of several carries the price of the couple.
PriceParticipants(bands, prices) ==
  [i \in DOMAIN bands |->
     LET before == Cardinality({j \in 1 .. i - 1 : bands[j] = "adult"})
     IN CASE bands[i] = "child_young" -> prices.young
          [] bands[i] = "child_mid"   -> prices.mid
          [] OTHER -> IF Count(bands, "adult") = 1 THEN prices.solo
                      ELSE IF before = 0 THEN prices.couple
                      ELSE IF before = 1 THEN 0
                      ELSE prices.extra]

\* discountFromPercent: rounded down.
DiscountFromPercent(subtotal, percent) == (subtotal * percent) \div 100

\* Mutant: the cents go to the first of the list.
InOrder(fraction, j, i) == j < i

\* Who gets a cent before whom: the largest fraction, the first of equals.
ByFraction(fraction, j, i) ==
  fraction[j] > fraction[i] \/ (fraction[j] = fraction[i] /\ j < i)

\* Mutant: the cents that are left are lost.
DistributeDown(units, cut) ==
  [i \in DOMAIN units |-> (units[i] * (Total(units) - cut)) \div Total(units)]

\* distributeDiscount: each share is rounded down, and the cents that are left are
\* given one by one.
DistributeDiscount(units, cut) ==
  LET subtotal == Total(units)
      target == subtotal - cut
      share == [i \in DOMAIN units |-> (units[i] * target) \div subtotal]
      fraction == [i \in DOMAIN units |-> (units[i] * target) % subtotal]
      rest == target - Total(share)
      rank(i) == Cardinality({j \in DOMAIN units : ByFraction(fraction, j, i)})
  IN IF target = 0 THEN [i \in DOMAIN units |-> 0]
     ELSE [i \in DOMAIN units |-> IF rank(i) < rest THEN share[i] + 1 ELSE share[i]]
=============================================================================
