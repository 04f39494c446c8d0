\* Two requests of the team, one of the credit at a time, one form delivered by
\* two senders at once and one request in the app of one family, two groups.
CONSTANTS
  w1 = w1  w2 = w2  s1 = s1  s2 = s2  f = f  ask = ask  g1 = g1  g2 = g2  h = h  c = c
  k1 = k1  None = None
  Team <- TwoRequests  Senders <- TwoSenders  Forms <- OneForm
  Requests <- OneRequest  Groups <- TwoGroups  People <- Family
  Head <- HeadIs  With <- WithIs  Known <- KnownHead  Rules <- OneRule
  Clerks <- OneClerk  Cap = 1  MaxGrant = 1
SPECIFICATION DeskSpec
SYMMETRY Symmetry
INVARIANTS DeskTypeOK AllocationIsWhole OneBookingPerSubmission
  EarnsByItsFrozenRule SpendsWhatWasGiven
PROPERTIES QueueIsLeftOnce ExpiresWhatIsLeft
