\* Parcels whose shares round down.
CONSTANTS
  h1 = h1  h2 = h2  d1 = d1  p1 = p1  p2 = p2  p3 = p3  None = None
  Hooks <- OneHook  Desks <- OneDesk  Parcels <- ThreeParcels  Value <- Twos
  Gross = 6  Net = 4  Amounts <- Typed
  MaxOps = 1  MaxFaults = 0
SPECIFICATION Spec
INVARIANTS ClosesExactly
CHECK_DEADLOCK FALSE
