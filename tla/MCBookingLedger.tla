-------------------------- MODULE MCBookingLedger --------------------------
(* One booking with a charge in parcels of 2: two of them, settling 3 of 4 *)
(* (the last share is cut), or three, settling 4 of 6 (the shares round    *)
(* down).                                                                  *)
EXTENDS BookingLedger, TLC

CONSTANTS h1, h2, d1, p1, p2, p3

OneHook == {h1}
TwoHooks == {h1, h2}
OneDesk == {d1}
TwoParcels == {p1, p2}
ThreeParcels == {p1, p2, p3}
Twos == [p \in Parcels |-> 2]
Typed == {2, 3}
=============================================================================
