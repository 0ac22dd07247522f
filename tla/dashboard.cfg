SPECIFICATION Spec
CONSTANTS
  h1 = h1
  h2 = h2
  h3 = h3
  d1 = d1
  b1 = b1
  Hook = {h1, h2, h3}
  Old = {h2, h3}
  Deliverer = {d1}
  Browser = {b1}
  Status = {200}
  Filter = {"all", "pending", "2xx", "search"}
  Found <- InText
  PageSize = 1
  Buffer = 1
CHECK_DEADLOCK FALSE
SYMMETRY Symmetry
INVARIANTS TypeOK ShownDeliveredIsDelivered LivePageIsCurrent 
