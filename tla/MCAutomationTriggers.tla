------------------------ MODULE MCAutomationTriggers ------------------------
(* Automations e and e2 wait for an event, s and q for their time.          *)
EXTENDS AutomationTriggers, TLC

CONSTANTS p1, e, e2, s, q, d, o

One == {p1}
TwoEvents == {e, e2}
OneScheduled == {s}
OneRecurring == {q}
OneDeparture == {d}
OneOccurrence == {o}
AllWants == o :> Events

\* The departure starts tomorrow; s looks at it the day before.
Tomorrow == d :> 1
DayBefore == s :> -1
Minute == q :> 1
=============================================================================
