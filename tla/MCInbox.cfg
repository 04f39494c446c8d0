\* Two messages of a contact and a reply, the first delivered twice at once, one fault.
CONSTANTS
  i = i  j = j  r = r  l = l  p = p  p9 = p9  ficha = ficha  ana = ana
  None = None
  Messages <- TwoAndAReply  Inbound <- TheirTwo  Replies <- OneReply  Contact <- AllOfAna
  Ways <- SomeWays  Lids <- OneLid  Phones <- Spellings  Twin <- Swap  Cards <- OneCard
  CardPhone <- OnTheirCard  Slots <- FirstTwice  MaxFaults = 1
SPECIFICATION Spec
INVARIANTS TypeOK WokenOnce OneThread
PROPERTIES ArrivesInTheEnd
CHECK_DEADLOCK FALSE
