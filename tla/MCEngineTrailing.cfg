\* A wait that closes a branch.
CONSTANTS
  w1 = w1  w2 = w2  r1 = r1  r2 = r2  i1 = i1
  t = t  a = a  c = c  d = d  f = f  s = s  b = b  u = u  l = l  e = e
  none = none  gone = gone
  None = none  Gone = gone
  Workers <- One  Roots <- OneRoot  Items <- NoItem
  Nodes <- AllNodes  Graphs <- OnlyTrailingWait
  MaxSteps = 5  MaxAttempts = 2  Limit = 1  MaxFaults = 0
SPECIFICATION Spec
INVARIANTS EffectsOnce
CHECK_DEADLOCK FALSE
