SPECIFICATION FairSpec
CONSTANTS
  t1 = t1
  c1 = c1
  c2 = c2
  c3 = c3
  k1 = k1
  k2 = k2
  d1 = d1
  d2 = d2
  None = None
  Token = {t1}
  Secret = {k1, k2}
  Conn = {c1, c2, c3}
  Deleter = {d1, d2}
CHECK_DEADLOCK TRUE
INVARIANTS TypeOK NoOrphanTunnel NoDeadEntry SecretInForce
PROPERTIES ClosedLeavesHub SupersededEnds
