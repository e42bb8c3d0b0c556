\* Two tabs, two users.
CONSTANTS
  t1 = t1
  t2 = t2
  u1 = u1
  u2 = u2
  None = None
  Tabs = {t1, t2}
  Users = {u1, u2}
  SESSION_TTL = 1
  STEP_UP = 0
  LOGIN_TTL_SECS = 1
  CLOCK_SKEW_SECS = 1
  KeyFile = TRUE
  Offsets <- BothWays
  Earlier <- LongAgo
  MaxTime = 2
  MaxLogins = 2
  MaxCodes = 2
  MaxKeys = 1
SPECIFICATION Spec
SYMMETRY Symmetry
INVARIANTS SessTypeOK ReauthMeansLogin RightsAreRecent ActorIsWhoThePageShowed RecordIsFresh CallbackIsHeard
PROPERTIES NoStepUpLoop
CHECK_DEADLOCK FALSE
