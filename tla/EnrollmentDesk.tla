--------------------------- MODULE EnrollmentDesk ---------------------------
(* The bookings that come out of the queue earn and spend the credit of      *)
(* their customers: Enrollment and CustomerCredit over the same bookings.    *)
EXTENDS Enrollment

CONSTANTS Clerks, Cap, MaxGrant  \* see CustomerCredit

ASSUME CreditAssumption == IsFiniteSet(Bookings) /\ Cap \in Nat /\ MaxGrant \in Nat

VARIABLES earned, granted, spent, lapsed, due, clerk, raced

Credit == INSTANCE CustomerCredit

entries == <<earned, granted, spent, lapsed, due, clerk, raced>>

DeskInit == Init /\ Credit!Init

\* Bound: the credit is followed until two requests of the team crossed.
DeskNext ==
  \/ Next /\ UNCHANGED entries
  \/ crossed = {} /\ Credit!Next /\ UNCHANGED vars

DeskSpec == DeskInit /\ [][DeskNext]_<<vars, entries>>

\* The state of both parts is of its kind.
DeskTypeOK == TypeOK /\ Credit!TypeOK

\* See CustomerCredit; here over the bookings the queue made.  Only what a family
\* asked for in the app earns (enrollment source portal): a form, or the team,
\* never brings credit, whatever the settings became.
EarnsByItsFrozenRule ==
  /\ Credit!EarnsByItsFrozenRule
  /\ \A b \in Bookings : earned[b] > 0 => booking[b].source = "portal"

\* Nor spends more than was put in, nor loses what is no longer there
\* (CustomerCredit).
SpendsWhatWasGiven == Credit!SpendsWhatWasGiven
ExpiresWhatIsLeft == Credit!ExpiresWhatIsLeft

=============================================================================
