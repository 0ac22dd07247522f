SPECIFICATION Spec
CONSTANTS
  h1 = h1
  h2 = h2
  c1 = c1
  c2 = c2
  p1 = p1
  None = None
  Hook = {h1}
  Conn = {c1}
  Replayer = {}
  Status = {200, 500}
  Key = {h1, h2}
  KeyOf <- Distinct
  Dedup = FALSE
  Poison = {}
  Oversized = {}
  ReplayLimit = 0
  MaxAge = FALSE
  MaxRows = 0
  MaxFaults = 1
CHECK_DEADLOCK FALSE
INVARIANTS ServerErrorIsLocal
