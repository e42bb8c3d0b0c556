\* One request against valid, invalid and empty specs, edits, deletion, a moving clock.
\* MaxVersion lets every attempt to save meet another write, so that the last one ends
\* in Conflict.
CONSTANTS
  a1 = a1
  a2 = a2
  t1 = t1
  t2 = t2
  None = None
  Actors = {a1}
  Targets = {t1, t2}
  HISTORY_LIMIT = 2
  Mutations <- MCMutations
  Conditions <- MCOneCondition
  Specs <- MCAllSpecs
  MAX_STATUS_ATTEMPTS = 2
  MaxVersion = 3
  MaxTime = 1
  Expiries <- SomeExpiries
SPECIFICATION FairSpec
INVARIANTS RefusedWroteNothing
PROPERTIES RequestEnds
CHECK_DEADLOCK FALSE
