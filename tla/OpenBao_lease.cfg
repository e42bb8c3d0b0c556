\* Two writes; leases of four ticks run out while they wait.
CONSTANTS
  k2 = k2
  w3 = w3
  w1 = w1
  w2 = w2
  p1 = p1
  k1 = k1
  None = None
  Other = Other
  Writers = {w1, w2}
  Paths = {p1}
  Keys = {k1}
  LEASE = 4
  TIMEOUT = 1
  TOKEN_MARGIN = 3
  MaxTime = 4
  MaxRevoked = 0
  OthersWrite = FALSE
SPECIFICATION Spec
SYMMETRY Symmetry
INVARIANTS LeaseHolds
CHECK_DEADLOCK FALSE
