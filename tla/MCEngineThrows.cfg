\* Two runs in one batch, at a lookup that throws.
CONSTANTS
  w1 = w1  w2 = w2  r1 = r1  r2 = r2  i1 = i1
  t = t  a = a  c = c  d = d  f = f  s = s  b = b  u = u  l = l  e = e
  none = none  gone = gone
  None = none  Gone = gone
  Workers <- One  Roots <- TwoRoots  Items <- NoItem
  Nodes <- AllNodes  Graphs <- OnlyUnset
  MaxSteps = 5  MaxAttempts = 2  Limit = 2  MaxFaults = 0
SPECIFICATION Spec
PROPERTIES OthersAreServed
CHECK_DEADLOCK FALSE
