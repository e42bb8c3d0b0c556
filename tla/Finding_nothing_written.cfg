\* One rotation whose status cannot be saved.
CONSTANTS
  a1 = a1
  a2 = a2
  t1 = t1
  t2 = t2
  None = None
  Actors = {a1}
  Targets = {t1, t2}
  HISTORY_LIMIT = 2
  Mutations <- MCMutations
  Conditions <- MCOneCondition
  Specs <- MCOneSpec
  MAX_STATUS_ATTEMPTS = 2
  MaxVersion = 2
  MaxTime = 0
  Expiries <- NoExpiry
SPECIFICATION Spec
INVARIANT NothingWrittenIsSo
CHECK_DEADLOCK FALSE
