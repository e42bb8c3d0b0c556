\* Every short pattern against every short path; one key for four moments, in a list
\* of three.
CONSTANTS
  None = None
  Invalid = Invalid
  SecondsPer <- Units
  MAX_I64 = 31
  MAX_TIMESTAMP = 20
  WARN_BEFORE = 2
  CRITICAL_BEFORE = 1
  Rotations <- Policies
  Expiries = {1, 3}
  MaxTime = 3
  UNKNOWN_FOR = 2
  Whitespace = {" "}
  OtherKeys <- Others
  CasesToJudge <- Cases
SPECIFICATION MCSpec
INVARIANTS AlertsTypeOK AlertsMatchPage GlobMeaning ValidTargetsAreDistinct ValidMeansScheduled
  OrderIsTotal ExpiredFirst ChipsCountRows
PROPERTIES UrgencyGrows
CHECK_DEADLOCK FALSE
