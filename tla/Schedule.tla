------------------------------- MODULE Schedule -------------------------------
(***************************************************************************)
(* Durations as they are written in a spec (duration.rs) and the deadline  *)
(* and alert state computed from a key (schedule.rs).  Times are seconds.  *)
(***************************************************************************)
EXTENDS Integers

CONSTANTS SecondsPer,       \* the seconds of each unit
          MAX_I64,          \* largest number of 64 bits
          MAX_TIMESTAMP,    \* last moment a Timestamp can name
          WARN_BEFORE, CRITICAL_BEFORE,   \* cfg.thresholds()
          None, Invalid     \* a field left out, a text that is no duration

ASSUME DurationAssumption ==
  /\ SecondsPer \in [DOMAIN SecondsPer -> Nat \ {0}]
  /\ {MAX_I64, MAX_TIMESTAMP, WARN_BEFORE, CRITICAL_BEFORE} \subseteq Nat
  /\ None \notin Int /\ Invalid \notin Int /\ None # Invalid

\* A text <number><unit>; number is None where it is not all digits.
Text == [number : Nat \cup {None}, unit : STRING]

RotationPolicy == [maxAge : Text \cup {None}, warnBefore : Text \cup {None},
                   criticalBefore : Text \cup {None}]

\* Faulty variant: the product wraps around.
ParseWrapping(d) ==
  IF d = None THEN None
  ELSE IF d.number # None /\ d.number <= MAX_I64 /\ d.unit \in DOMAIN SecondsPer
       THEN LET n == (d.number * SecondsPer[d.unit]) % (2 * MAX_I64 + 2)
            IN IF n > MAX_I64 THEN n - (2 * MAX_I64 + 2) ELSE n
       ELSE Invalid

\* duration::parse of a field that may be left out.
Parse(d) ==
  IF d = None THEN None
  ELSE IF /\ d.number # None
          /\ d.number <= MAX_I64
          /\ d.unit \in DOMAIN SecondsPer
          /\ d.number * SecondsPer[d.unit] <= MAX_I64
       THEN d.number * SecondsPer[d.unit]
       ELSE Invalid

\* parse_or: a threshold of the key's own, else the configured one.
ParseOr(d, default) == IF Parse(d) \in {None, Invalid} THEN default ELSE Parse(d)

WarnBefore(rotation) == ParseOr(rotation.warnBefore, WARN_BEFORE)
CriticalBefore(rotation) == ParseOr(rotation.criticalBefore, CRITICAL_BEFORE)

\* Faulty variant: the sum is not looked at.
RotateByUnchecked(at, rotation) ==
  IF at = None \/ Parse(rotation.maxAge) \in {None, Invalid} THEN None
  ELSE at + Parse(rotation.maxAge)

\* lastRotated + maxAge, if both are known and the sum is a moment.
RotateBy(at, rotation) ==
  LET age == Parse(rotation.maxAge)
  IN IF at = None \/ age \in {None, Invalid} THEN None
     ELSE IF at + age > MAX_TIMESTAMP THEN None ELSE at + age

\* Schedule::compute: the earlier of expiry and rotate-by.
Deadline(key) ==
  LET e == key.expiresAt
      r == RotateBy(key.lastRotated, key.rotation)
  IN IF e = None THEN r
     ELSE IF r # None /\ r < e THEN r ELSE e

\* Faulty variant: the distance to the deadline, before or after it.
StateByDistance(key, now) ==
  LET d == Deadline(key)
      r == IF d >= now THEN d - now ELSE now - d
  IN CASE d = None -> "unknown"
       [] d # None /\ r = 0 -> "expired"
       [] d # None /\ r > 0 /\ r < CriticalBefore(key.rotation) -> "critical"
       [] OTHER -> IF r < WarnBefore(key.rotation) THEN "warning" ELSE "ok"

\* Schedule::state
State(key, now) ==
  LET d == Deadline(key)
      r == d - now
  IN IF d = None THEN "unknown"
     ELSE IF r <= 0 THEN "expired"
     ELSE IF r < CriticalBefore(key.rotation) THEN "critical"
     ELSE IF r < WarnBefore(key.rotation) THEN "warning"
     ELSE "ok"

States == {"expired", "critical", "warning", "unknown", "ok"}
\* "Nothing chosen" is not the name of a state.
ASSUME StatesAssumption == None \notin States
=============================================================================
