SPECIFICATION Spec
CONSTANTS
  h1 = h1
  h2 = h2
  c1 = c1
  c2 = c2
  p1 = p1
  None = None
  Hook = {h1, h2}
  Conn = {c1}
  Replayer = {}
  Status = {200, 500}
  Key = {h1, h2}
  KeyOf <- Same
  Dedup = TRUE
  Poison = {}
  Oversized = {}
  ReplayLimit = 0
  MaxAge = TRUE
  MaxRows = 0
  MaxFaults = 2
CHECK_DEADLOCK FALSE
SYMMETRY Symmetry
INVARIANTS AcceptedIsStored OneWebhookPerKeyServed PassedThroughIsReal
PROPERTIES ImplementsQueue
