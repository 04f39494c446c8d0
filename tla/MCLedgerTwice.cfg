\* The same parcel in two webhook requests at once.
CONSTANTS
  h1 = h1  h2 = h2  d1 = d1  p1 = p1  p2 = p2  p3 = p3  None = None
  Hooks <- TwoHooks  Desks <- OneDesk  Parcels <- TwoParcels  Value <- Twos
  Gross = 4  Net = 3  Amounts <- Typed
  MaxOps = 1  MaxFaults = 0
SPECIFICATION Spec
INVARIANTS OneRowPerParcel
CHECK_DEADLOCK FALSE
