\* Two writes to one secret; tokens without a lease, time stands still.
CONSTANTS
  w3 = w3
  w1 = w1
  w2 = w2
  p1 = p1
  k1 = k1
  k2 = k2
  None = None
  Other = Other
  Writers = {w1, w2}
  Paths = {p1}
  Keys = {k1, k2}
  LEASE = 0
  TIMEOUT = 1
  TOKEN_MARGIN = 3
  MaxTime = 0
  MaxRevoked = 1
  OthersWrite = TRUE
SPECIFICATION Spec
SYMMETRY Symmetry
INVARIANTS BaoTypeOK RetryIsFresh
PROPERTIES PromiseSpec KeptWhereItExists
CHECK_DEADLOCK FALSE
