SPECIFICATION Spec
CONSTANTS
  t1 = t1
  c1 = c1
  c2 = c2
  k1 = k1
  k2 = k2
  d1 = d1
  None = None
  Token = {t1}
  Secret = {k1, k2}
  Conn = {c1, c2}
  Deleter = {d1}
SYMMETRY Symmetry
INVARIANTS DeletedTokenDisconnected
