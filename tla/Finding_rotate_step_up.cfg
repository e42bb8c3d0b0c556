\* One tab; the cookie key is random, so a restart ends every session.
CONSTANTS
  t1 = t1
  t2 = t2
  u1 = u1
  u2 = u2
  None = None
  Tabs = {t1}
  Users = {u1}
  SESSION_TTL = 1
  STEP_UP = 0
  LOGIN_TTL_SECS = 1
  CLOCK_SKEW_SECS = 1
  KeyFile = FALSE
  Offsets <- BothWays
  Earlier <- LongAgo
  MaxTime = 3
  MaxLogins = 2
  MaxCodes = 2
  MaxKeys = 1
SPECIFICATION Spec
SYMMETRY Symmetry
INVARIANT RotatingNeedsRecentLogin
CHECK_DEADLOCK FALSE
