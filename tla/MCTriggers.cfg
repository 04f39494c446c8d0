\* One process, one fault or switch, two automations that wait for one event.
CONSTANTS
  p1 = p1  e = e  e2 = e2  s = s  q = q  d = d  o = o
  Procs <- One  Events <- TwoEvents  Scheduled <- OneScheduled
  Recurring <- OneRecurring  Occurrences <- OneOccurrence  Wants <- AllWants
  Departures <- OneDeparture  Start <- Tomorrow  Offset <- DayBefore
  Period <- Minute  DayLength = 2  MaxTime = 1  Limit = 1  MaxBatches = 2
  MaxFaults = 1
SPECIFICATION Spec
INVARIANTS TypeOK SweepMissesNothing LeftForAReason
PROPERTIES EveryRunIsTaken
CHECK_DEADLOCK FALSE
