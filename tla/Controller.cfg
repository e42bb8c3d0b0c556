\* Two specs, two allow lists; one edit of each creation, one new creation, one fault.
CONSTANTS
  bad = bad
  narrow = narrow
  a1 = a1
  a2 = a2
  None = None
  Specs = {bad, narrow}
  AllowLists = {a1, a2}
  Verdict <- VerdictOf
  MaxGen = 2
  MaxUid = 2
  MaxFaults = 1
SPECIFICATION Spec
INVARIANTS CtlTypeOK ObservedMeansJudged StaleIsNoticed
PROPERTIES Converges BecomesReady
CHECK_DEADLOCK FALSE
