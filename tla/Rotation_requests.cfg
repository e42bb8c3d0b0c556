\* Two requests at two targets: together, at one spec, or one after the other while
\* the spec changes.  The controller is left to StatusStore_safety and Rotation_specs.
CONSTANTS
  a1 = a1
  a2 = a2
  t1 = t1
  t2 = t2
  None = None
  Actors = {a1, a2}
  Targets = {t1, t2}
  HISTORY_LIMIT = 2
  Mutations <- MCMutations
  Conditions = {}
  Specs <- MCSpecs
  MAX_STATUS_ATTEMPTS = 1
  MaxVersion = 3
  MaxTime = 0
  Expiries <- NoExpiry
SPECIFICATION Spec
SYMMETRY Symmetry
INVARIANTS RotTypeOK RotatedMeansWritten AcknowledgementsAreTrue CalmStatusIsTrue
CONSTRAINT OthersWriteInCalmOnly
CHECK_DEADLOCK FALSE
