\* One webhook and one request of the team at a time.
CONSTANTS
  h1 = h1  d1 = d1  p1 = p1  p2 = p2  a1 = a1  a2 = a2  k = k  None = None
  Hooks <- OneHook  Desks <- OneDesk  Parcels <- TwoParcels  Value <- Twos
  Gross = 4  Net = 3  Amounts <- Typed
  MaxOps = 3  MaxFaults = 1  Whole = 6
  Party <- Family  Band <- Ages  Roll <- HeadFirst
  Tables <- TwoVersions  Percents <- Third  Fixed <- Six
  MaxCuts = 2
SPECIFICATION FairPriceSpec
INVARIANTS PriceTypeOK OneRowPerParcel NeverOverSettled MoneyConfirms RefundsAreCovered
           EmptiedIsCancelled CreditIsBacked AnsweredIsBooked UnitsAddUp NobodyPaysMore
PROPERTIES CancelledStays PaidIsAnswered DiscountsOweNothing KeepsTheLedger
CHECK_DEADLOCK FALSE
