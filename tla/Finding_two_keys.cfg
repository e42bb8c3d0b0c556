\* Two rotations at the same time.
CONSTANTS
  a1 = a1
  a2 = a2
  t1 = t1
  t2 = t2
  None = None
  Actors = {a1, a2}
  Targets = {t1, t2}
  HISTORY_LIMIT = 2
  Mutations <- MCMutations
  Conditions <- MCOneCondition
  Specs <- MCOneSpec
  MAX_STATUS_ATTEMPTS = 2
  MaxVersion = 1
  MaxTime = 0
  Expiries <- NoExpiry
SPECIFICATION Spec
INVARIANTS AcknowledgedRotationsAgree
CHECK_DEADLOCK FALSE
