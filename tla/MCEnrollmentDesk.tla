-------------------------- MODULE MCEnrollmentDesk --------------------------
(* A family that fills in a form and asks in the app as well.               *)
EXTENDS EnrollmentDesk, TLC

CONSTANTS w1, w2, s1, s2, f, ask, g1, g2, h, c, k1

OneForm == {f}
OneRequest == {ask}
TwoGroups == {g1, g2}
Family == {h, c}
HeadIs == f :> h @@ ask :> h
WithIs == f :> {c} @@ ask :> {}
KnownHead == {h}
OneRule == {1}
TwoRequests == {w1, w2}
TwoSenders == {s1, s2}
OneClerk == {k1}

Symmetry == Permutations(Team) \cup Permutations(Senders) \cup Permutations(Groups)
=============================================================================
