\* Three callers, a history of two: the oldest entry is displaced.
CONSTANTS
  a1 = a1
  a2 = a2
  a3 = a3
  s1 = s1
  s2 = s2
  t1 = t1
  t2 = t2
  None = None
  Actors = {a1, a2, a3}
  Targets <- MCTargets
  HISTORY_LIMIT = 2
  Mutations <- MCMutations
  Conditions <- MCConditions
  Specs <- MCSpecs
  MAX_STATUS_ATTEMPTS = 2
  MaxVersion = 3
SPECIFICATION StoreSpec
SYMMETRY Symmetry
INVARIANTS StoreTypeOK HistoryIsLog HeadAgrees RecordedOnce
PROPERTIES ConflictMeansInterference WritersKeepApart AtomicSpec
CHECK_DEADLOCK FALSE
