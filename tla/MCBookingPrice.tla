--------------------------- MODULE MCBookingPrice ---------------------------
(* A couple and a child, whose booking has a charge in two parcels of 2    *)
(* that settle 3 of 4 (the last share is cut).                             *)
EXTENDS BookingPrice, Fees, TLC

CONSTANTS h1, d1, p1, p2, a1, a2, k

OneHook == {h1}
OneDesk == {d1}
TwoParcels == {p1, p2}
Twos == [p \in Parcels |-> 2]
Typed == {2, 3}

Family == {a1, a2, k}
HeadFirst == <<a1, k, a2>>
Six == {6}
Ages == [p \in Family |-> IF p = k THEN "child_mid" ELSE "adult"]
Five == [couple |-> 5, solo |-> 3, extra |-> 2, mid |-> 2, young |-> 1]
TwoVersions == <<Five, [Five EXCEPT !.couple = 3]>>
Third == {33}

\* Every composition of up to four participants adds up to its total.
ASSUME SnapshotAddsUp ==
  \A n \in 0 .. 4 : \A bands \in [1 .. n -> AgeBands] :
    Total(PriceParticipants(bands, Five)) = BookingTotal(bands, Five)

\* What BookingPriceProofs proves of every fee, on small ones.
ASSUME FeesGoThereAndBack ==
  \A net \in 0 .. 9, fixed \in 0 .. 2, transaction \in 0 .. Whole,
     anticipation \in 0 .. Whole :
    LET fee == [transaction |-> transaction, fixed |-> fixed, anticipation |-> anticipation]
        gross == GrossUp(net, fee)
    IN Possible(fee) =>
         /\ Leaves(gross, fee, net)
         /\ \A g \in 0 .. gross - 1 : ~Leaves(g, fee, net)
         /\ NetOfFee(gross, fee) \in net - 1 .. net + 1
=============================================================================
