SPECIFICATION Spec
CONSTANTS
  k1 = k1
  k2 = k2
  g1 = g1
  g2 = g2
  Key = {k1, k2}
  Caller = {g1, g2}
  Limit = 2
  Window = 3
  Delay = 2
  MaxTime = 7
CHECK_DEADLOCK FALSE
SYMMETRY Symmetry
INVARIANTS TypeOK BurstBounded
PROPERTIES PruneForgetsNothing
