\* One process that crashes, tears actions and starts again.
CONSTANTS
  w1 = w1  w2 = w2  r1 = r1  r2 = r2  i1 = i1
  t = t  a = a  c = c  d = d  f = f  s = s  b = b  u = u  l = l  e = e
  none = none  gone = gone
  None = none  Gone = gone
  Workers <- One  Roots <- OneRoot  Items <- OneItem
  Nodes <- AllNodes  Graphs <- BothDrawings
  MaxSteps = 5  MaxAttempts = 2  Limit = 1  MaxFaults = 2
SPECIFICATION FairSpec
INVARIANTS RepeatsOnlyAfterFault
PROPERTIES WaitsAreKept CancelledStands Settles
CHECK_DEADLOCK FALSE
