\* Two processes and one fault.
CONSTANTS
  w1 = w1  w2 = w2  r1 = r1  r2 = r2  i1 = i1
  t = t  a = a  c = c  d = d  f = f  s = s  b = b  u = u  l = l  e = e
  none = none  gone = gone
  None = none  Gone = gone
  Workers <- Two  Roots <- OneRoot  Items <- OneItem
  Nodes <- AllNodes  Graphs <- OnlyFanOutUnset
  MaxSteps = 5  MaxAttempts = 2  Limit = 1  MaxFaults = 1
SPECIFICATION Spec
SYMMETRY SameWorkers
INVARIANTS TypeOK Exclusive LogTellsAll EffectsOnce ThreeStrikes
PROPERTIES FinishedStands IsQueue
CHECK_DEADLOCK FALSE
