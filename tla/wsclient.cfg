SPECIFICATION FairSpec
CONSTANTS
  s1 = s1
  s2 = s2
  h1 = h1
  Sender = {s1, s2}
  Webhook = {h1}
  MaxSeq = 4
CHECK_DEADLOCK FALSE
INVARIANTS TypeOK OwnResponse PendingIsInFlight
PROPERTIES SendReturns ImplementsCall
