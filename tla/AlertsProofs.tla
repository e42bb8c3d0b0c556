----------------------------- MODULE AlertsProofs -----------------------------
(***************************************************************************)
(* Proofs about deadlines, alert states and the list of keys, for any      *)
(* thresholds, units, policies, expiries and keys.                         *)
(*                                                                         *)
(* Everything rests on where the numbers lie: a duration that parses is a  *)
(* natural number, a deadline a moment.  From there the state, the rules   *)
(* and the order of the list are comparisons of the same numbers.          *)
(***************************************************************************)
EXTENDS IndexPage, TLAPS

\* A duration is read as a number of seconds, or left out, or refused; it never
\* becomes negative (duration::parse).
LEMMA ParseType ==
  ASSUME NEW d \in Text \cup {None}
  PROVE  Parse(d) \in Nat \cup {None, Invalid}
<1>1. CASE d = None
  BY <1>1 DEF Parse
<1>2. CASE d # None /\ d.number # None /\ d.unit \in DOMAIN SecondsPer
  <2>1. d.number \in Nat /\ SecondsPer[d.unit] \in Nat
    BY <1>2, DurationAssumption DEF Text
  <2>2. d.number * SecondsPer[d.unit] \in Nat
    BY <2>1
  <2> QED
    BY <2>2 DEF Parse
<1>3. CASE d # None /\ ~(d.number # None /\ d.unit \in DOMAIN SecondsPer)
  BY <1>3 DEF Parse
<1> QED
  BY <1>1, <1>2, <1>3

\* A threshold is a number whatever the spec says (parse_or).
LEMMA ThresholdType ==
  ASSUME NEW r \in RotationPolicy
  PROVE  WarnBefore(r) \in Nat /\ CriticalBefore(r) \in Nat
<1>1. r.warnBefore \in Text \cup {None} /\ r.criticalBefore \in Text \cup {None}
  BY DEF RotationPolicy
<1>2. Parse(r.warnBefore) \in Nat \cup {None, Invalid}
      /\ Parse(r.criticalBefore) \in Nat \cup {None, Invalid}
  BY <1>1, ParseType
<1> QED
  BY <1>2, DurationAssumption DEF WarnBefore, CriticalBefore, ParseOr

\* A deadline is a moment that can be written down (rotate_by's checked_add).
LEMMA DeadlineType ==
  ASSUME NEW k, k.rotation \in RotationPolicy,
         k.lastRotated \in Moments \cup {None}, k.expiresAt \in Moments \cup {None}
  PROVE  Deadline(k) \in Moments \cup {None}
<1>1. k.rotation.maxAge \in Text \cup {None}
  BY DEF RotationPolicy
<1> DEFINE at == k.lastRotated
           age == Parse(k.rotation.maxAge)
<1>2. age \in Nat \cup {None, Invalid}
  BY <1>1, ParseType
<1>3. RotateBy(at, k.rotation) \in Moments \cup {None}
  <2>1. CASE at = None \/ age \in {None, Invalid}
    BY <2>1 DEF RotateBy
  <2>2. CASE ~(at = None \/ age \in {None, Invalid})
    <3>1. at \in Moments /\ age \in Nat
      BY <1>1, <1>2, <2>2
    <3>2. RotateBy(at, k.rotation) = IF at + age > MAX_TIMESTAMP THEN None ELSE at + age
      BY <2>2 DEF RotateBy
    <3> HIDE DEF at, age
    <3> QED
      BY <3>1, <3>2, DurationAssumption DEF Moments
  <2> QED
    BY <2>1, <2>2
<1> QED
  BY <1>1, <1>3 DEF Deadline

-----------------------------------------------------------------------------
\* The key, the clock and what Prometheus read stay what they can be.
THEOREM AlertsTypes == AlertsSpec => []AlertsTypeOK
<1>1. AlertsInit => AlertsTypeOK
  BY DurationAssumption DEF AlertsInit, AlertsTypeOK, Moments
<1>2. ASSUME AlertsTypeOK, [AlertsNext]_alertVars PROVE AlertsTypeOK'
  <2> USE <1>2 DEF AlertsTypeOK
  <2>1. CASE Rotated
    BY <2>1, AlertsAssumption DEF Rotated, Moments
  <2>2. CASE Recorded
    <3>1. 0 .. now \subseteq Moments
      BY DurationAssumption DEF Moments
    <3> QED
      BY <2>2, <3>1, AlertsAssumption DEF Recorded, Moments
  <2>3. CASE EditRotation
    BY <2>3 DEF EditRotation
  <2>4. CASE Scrape
    <3>1. /\ key.rotation \in RotationPolicy
          /\ key.lastRotated \in Moments \cup {None} /\ key.expiresAt \in Moments \cup {None}
      BY AlertsAssumption
    <3>2. Gauges(key) \in [deadline : Moments \cup {None}, warn : Nat, critical : Nat]
      BY <3>1, DeadlineType, ThresholdType DEF Gauges
    <3>3. unknownSince' \in {None, unknownSince, now}
      BY <2>4 DEF Scrape
    <3> QED
      BY <2>4, <3>2, <3>3 DEF Scrape
  <2>5. CASE Tick
    <3>1. now + 1 \in Moments
      BY <2>5, AlertsAssumption, DurationAssumption DEF Tick, Moments
    <3> QED
      BY <2>5, <3>1 DEF Tick
  <2>6. CASE UNCHANGED alertVars
    BY <2>6 DEF alertVars
  <2> QED
    BY <1>2, <2>1, <2>2, <2>3, <2>4, <2>5, <2>6 DEF AlertsNext
<1> QED
  BY <1>1, <1>2, PTL DEF AlertsSpec

\* The page of a key and the chart's rules judge it alike for any thresholds, at any
\* moment, from gauges that are still those of the key.
THEOREM PageAndAlertsAgree == AlertsSpec => []AlertsMatchPage
<1>1. ASSUME AlertsTypeOK PROVE AlertsMatchPage
  <2>1. /\ key.rotation \in RotationPolicy /\ now \in Int
        /\ key.lastRotated \in Moments \cup {None} /\ key.expiresAt \in Moments \cup {None}
    BY <1>1, AlertsAssumption DEF AlertsTypeOK, Moments
  <2> DEFINE d == Deadline(key)
             w == WarnBefore(key.rotation)
             c == CriticalBefore(key.rotation)
  <2>2. d \in Int \cup {None} /\ w \in Nat /\ c \in Nat /\ None \notin Int
    BY <2>1, DeadlineType, ThresholdType, DurationAssumption DEF Moments
  <2>3. /\ Gauges(key).deadline = d /\ Gauges(key).warn = w /\ Gauges(key).critical = c
    BY DEF Gauges
  <2>4. State(key, now) = IF d = None THEN "unknown"
                          ELSE IF d - now <= 0 THEN "expired"
                          ELSE IF d - now < c THEN "critical"
                          ELSE IF d - now < w THEN "warning"
                          ELSE "ok"
    BY DEF State
  <2> HIDE DEF d, w, c
  <2>5. CASE d = None
    BY <2>1, <2>2, <2>3, <2>4, <2>5
       DEF AlertsMatchPage, ExpiringSoon, ExpiringVerySoon, Expired, StateUnknown
  <2>6. CASE d \in Int
    <3>1. d # None
      BY <2>2, <2>6
    <3> SUFFICES ASSUME gauges = Gauges(key)
                 PROVE  LET atDeadline == c = 0 /\ d = now /\ w > 0
                            s == State(key, now)
                        IN /\ ExpiringSoon(gauges, now) <=> s = "warning" \/ atDeadline
                           /\ ExpiringVerySoon(gauges, now) <=> s = "critical"
                           /\ Expired(gauges, now) <=> s = "expired"
                           /\ StateUnknown(gauges, now)
                                <=> s = "unknown" /\ now - unknownSince >= UNKNOWN_FOR
      BY <2>3 DEF AlertsMatchPage
    <3>2. /\ ExpiringSoon(gauges, now) <=> d - now < w /\ d - now >= c
          /\ ExpiringVerySoon(gauges, now) <=> d - now < c /\ d - now > 0
          /\ Expired(gauges, now) <=> d - now <= 0
          /\ ~StateUnknown(gauges, now)
      BY <2>3, <3>1 DEF ExpiringSoon, ExpiringVerySoon, Expired, StateUnknown
    <3>3. CASE d - now <= 0
      <4>1. State(key, now) = "expired"
        BY <2>4, <3>1, <3>3
      <4> QED
        BY <2>1, <2>2, <2>6, <3>2, <3>3, <4>1
    <3>4. CASE d - now > 0 /\ d - now < c
      <4>1. State(key, now) = "critical"
        BY <2>1, <2>4, <2>6, <3>1, <3>4
      <4> QED
        BY <2>1, <2>2, <2>6, <3>2, <3>4, <4>1
    <3>5. CASE d - now > 0 /\ d - now >= c /\ d - now < w
      <4>1. State(key, now) = "warning"
        BY <2>1, <2>2, <2>4, <2>6, <3>1, <3>5
      <4> QED
        BY <2>1, <2>2, <2>6, <3>2, <3>5, <4>1
    <3>6. CASE d - now > 0 /\ d - now >= c /\ d - now >= w
      <4>1. State(key, now) = "ok"
        BY <2>1, <2>2, <2>4, <2>6, <3>1, <3>6
      <4> QED
        BY <2>1, <2>2, <2>6, <3>2, <3>6, <4>1
    <3> QED
      BY <2>1, <2>2, <2>6, <3>3, <3>4, <3>5, <3>6
  <2> QED
    BY <2>2, <2>5, <2>6
<1> QED
  BY <1>1, AlertsTypes, PTL

\* A key only gets more urgent while nobody touches it.
THEOREM TimeNeverCalms == AlertsSpec => UrgencyGrows
<1> DEFINE Worse == key' = key =>
                      LET s == State(key, now)
                          t == State(key', now')
                      IN IF s = "unknown" THEN t = "unknown"
                         ELSE t # "unknown" /\ Urgency[t] >= Urgency[s]
<1>1. ASSUME AlertsTypeOK, [AlertsNext]_alertVars PROVE [Worse]_alertVars
  <2>1. SUFFICES ASSUME key' = key PROVE Worse
    OBVIOUS
  <2>2. /\ key.rotation \in RotationPolicy /\ now \in Int
        /\ key.lastRotated \in Moments \cup {None} /\ key.expiresAt \in Moments \cup {None}
    BY <1>1, AlertsAssumption DEF AlertsTypeOK, Moments
  <2>3. now' \in Int /\ now <= now'
    <3>1. now' = now \/ now' = now + 1
      BY <1>1 DEF AlertsNext, alertVars, Rotated, Recorded, EditRotation, Scrape, Tick
    <3> QED
      BY <2>2, <3>1
  <2> DEFINE d == Deadline(key)
             w == WarnBefore(key.rotation)
             c == CriticalBefore(key.rotation)
             StateOf(left) == IF left <= 0 THEN "expired"
                              ELSE IF left < c THEN "critical"
                              ELSE IF left < w THEN "warning"
                              ELSE "ok"
  <2>4. d \in Int \cup {None} /\ w \in Nat /\ c \in Nat /\ None \notin Int
    BY <2>2, DeadlineType, ThresholdType, DurationAssumption DEF Moments
  <2>5. CASE d = None
    <3>1. State(key, now) = "unknown" /\ State(key', now') = "unknown"
      BY <2>1, <2>5 DEF State
    <3> QED
      BY <3>1
  <2>6. CASE d \in Int
    <3> DEFINE before == d - now
               after == d - now'
    <3>1. before \in Int /\ after \in Int /\ after <= before
      BY <2>2, <2>3, <2>6
    <3>2. State(key, now) = StateOf(before) /\ State(key', now') = StateOf(after)
      BY <2>1, <2>4, <2>6 DEF State
    <3> HIDE DEF d, w, c, before, after
    <3>3. /\ Urgency["ok"] = 0 /\ Urgency["warning"] = 1
          /\ Urgency["critical"] = 2 /\ Urgency["expired"] = 3
      BY DEF Urgency
    <3>4. CASE before <= 0
      <4>1. StateOf(before) = "expired" /\ StateOf(after) = "expired"
        BY <3>1, <3>4
      <4> QED
        BY <3>2, <3>3, <4>1
    <3>5. CASE before > 0 /\ before < c
      <4>1. StateOf(before) = "critical" /\ StateOf(after) \in {"expired", "critical"}
        BY <2>4, <3>1, <3>5
      <4> QED
        BY <3>2, <3>3, <4>1
    <3>6. CASE before > 0 /\ before >= c /\ before < w
      <4>1. /\ StateOf(before) = "warning"
            /\ StateOf(after) \in {"expired", "critical", "warning"}
        BY <2>4, <3>1, <3>6
      <4> QED
        BY <3>2, <3>3, <4>1
    <3>7. CASE before > 0 /\ before >= c /\ before >= w
      <4>1. /\ StateOf(before) = "ok"
            /\ StateOf(after) \in {"expired", "critical", "warning", "ok"}
        BY <2>4, <3>1, <3>7
      <4> QED
        BY <3>2, <3>3, <4>1
    <3> QED
      BY <2>4, <3>1, <3>4, <3>5, <3>6, <3>7
  <2> QED
    BY <2>4, <2>5, <2>6
<1>2. AlertsTypeOK /\ [AlertsNext]_alertVars => [Worse]_alertVars
  BY <1>1
<1> QED
  BY <1>2, AlertsTypes, PTL DEF AlertsSpec, UrgencyGrows
-----------------------------------------------------------------------------
(* The list of keys.                                                       *)

\* What is compared: numbers, or moments that may be missing.
MaybeInt == Int \cup {None}

\* Comparing two numbers (Ord::cmp).
LEMMA CompareNumbers ==
  ASSUME NEW x \in Int, NEW y \in Int
  PROVE  /\ Compare(x, y) = -Compare(y, x)
         /\ Compare(x, y) <= 0 <=> x <= y
         /\ Compare(x, y) = -1 <=> x < y
BY DEF Compare

\* Comparing two numbers of which one may be missing is an order: alike from both
\* sides, and transitive (Option's Ord).
LEMMA CompareOptions ==
  /\ \A x, y \in MaybeInt : CompareOption(x, y) = -CompareOption(y, x)
  /\ \A x, y, z \in MaybeInt :
       CompareOption(x, y) <= 0 /\ CompareOption(y, z) <= 0 => CompareOption(x, z) <= 0
<1>1. ASSUME NEW x \in MaybeInt, NEW y \in MaybeInt
      PROVE  /\ CompareOption(x, y) = -CompareOption(y, x)
             /\ CompareOption(x, y) <= 0 <=> x = None \/ (y # None /\ x <= y)
  BY CompareNumbers, DurationAssumption DEF MaybeInt, CompareOption
<1>2. ASSUME NEW x \in MaybeInt, NEW y \in MaybeInt, NEW z \in MaybeInt,
             CompareOption(x, y) <= 0, CompareOption(y, z) <= 0
      PROVE  CompareOption(x, z) <= 0
  <2>1. /\ x = None \/ (y # None /\ x <= y)
        /\ y = None \/ (z # None /\ y <= z)
    BY <1>1, <1>2
  <2>2. x = None \/ (z # None /\ x <= z)
    BY <2>1 DEF MaybeInt
  <2> QED
    BY <1>1, <2>2
<1> QED
  BY <1>1, <1>2

\* The order by deadlines: rows without one come last, by name among themselves
\* (sort_rows, the default).
Sooner(a, b) ==
  IF a.deadline = None /\ b.deadline = None THEN Compare(a.name, b.name)
  ELSE IF a.deadline = None THEN 1
  ELSE IF b.deadline = None THEN -1
  ELSE Compare(a.deadline, b.deadline)

\* The three ways to sort, one by one.
LEMMA OrderCases ==
  ASSUME NEW a, NEW b
  PROVE  /\ Order(a, b, "name") = Compare(a.displayName, b.displayName)
         /\ Order(a, b, "rotated") = CompareOption(a.lastRotated, b.lastRotated)
         /\ Order(a, b, "deadline") = Sooner(a, b)
<1>1. "rotated" # "name" /\ "deadline" # "name" /\ "deadline" # "rotated"
  OBVIOUS
<1> QED
  BY <1>1 DEF Order, Sooner

\* What rows are compared by.
RowType(r) == /\ r.name \in Int /\ r.displayName \in Int
              /\ r.lastRotated \in MaybeInt /\ r.deadline \in MaybeInt

LEMMA SoonerIsAnOrder ==
  ASSUME NEW a, RowType(a), NEW b, RowType(b), NEW c, RowType(c)
  PROVE  /\ Sooner(a, b) = -Sooner(b, a)
         /\ Sooner(a, b) <= 0 /\ Sooner(b, c) <= 0 => Sooner(a, c) <= 0
<1> DEFINE m == a.name
           n == b.name
           o == c.name
           d == a.deadline
           e == b.deadline
           f == c.deadline
           Before(x, y, s, t) == (x = None /\ y = None /\ s <= t)
                                   \/ (x # None /\ (y = None \/ x <= y))
<1>1. m \in Int /\ n \in Int /\ o \in Int /\ d \in MaybeInt /\ e \in MaybeInt /\ f \in MaybeInt
  BY DEF RowType
<1>2. /\ Sooner(a, b) = -Sooner(b, a)
      /\ Sooner(a, b) <= 0 <=> Before(d, e, m, n)
  BY <1>1, CompareNumbers, DurationAssumption DEF MaybeInt, Sooner
<1>3. Sooner(b, c) <= 0 <=> Before(e, f, n, o)
  BY <1>1, CompareNumbers, DurationAssumption DEF MaybeInt, Sooner
<1>4. Sooner(a, c) <= 0 <=> Before(d, f, m, o)
  BY <1>1, CompareNumbers, DurationAssumption DEF MaybeInt, Sooner
<1> HIDE DEF m, n, o, d, e, f
<1>5. Before(d, e, m, n) /\ Before(e, f, n, o) => Before(d, f, m, o)
  BY <1>1 DEF MaybeInt
<1> QED
  BY <1>2, <1>3, <1>4, <1>5

\* What a state says of the deadline (Schedule::state).
LEMMA StateMeaning ==
  ASSUME NEW k, k.rotation \in RotationPolicy, NEW t \in Int, Deadline(k) \in MaybeInt
  PROVE  /\ State(k, t) \in States
         /\ State(k, t) = "unknown" <=> Deadline(k) = None
         /\ State(k, t) = "expired" <=> Deadline(k) # None /\ Deadline(k) <= t
<1> DEFINE d == Deadline(k)
           c == CriticalBefore(k.rotation)
           w == WarnBefore(k.rotation)
<1>1. State(k, t) = IF d = None THEN "unknown"
                    ELSE IF d - t <= 0 THEN "expired"
                    ELSE IF d - t < c THEN "critical"
                    ELSE IF d - t < w THEN "warning"
                    ELSE "ok"
  BY DEF State
<1>2. d \in MaybeInt
  OBVIOUS
<1>3. d # None => d \in Int /\ (d - t <= 0 <=> d <= t)
  BY <1>2 DEF MaybeInt
<1> HIDE DEF d, c, w
<1>4. /\ State(k, t) \in States
      /\ State(k, t) = "unknown" <=> d = None
      /\ State(k, t) = "expired" <=> d # None /\ d <= t
  BY <1>1, <1>3 DEF States
<1> QED
  BY <1>4 DEF d

\* Every row of the list has what it is compared by, and a state that goes with its
\* deadline.
LEMMA RowsHaveTypes ==
  ASSUME AlertsTypeOK, NEW r \in Rows
  PROVE  /\ RowType(r) /\ now \in Int
         /\ r.state \in States
         /\ r.state = "unknown" <=> r.deadline = None
         /\ r.state = "expired" <=> r.deadline # None /\ r.deadline <= now
<1>1. PICK k \in OtherKeys \cup {Named(key, 1)} : r = Row(k, now)
  BY DEF Rows
<1>2. /\ k.name \in Int /\ k.displayName \in Int /\ k.rotation \in RotationPolicy
      /\ k.lastRotated \in Moments \cup {None} /\ k.expiresAt \in Moments \cup {None}
  <2>1. CASE k \in OtherKeys
    BY <2>1, OtherKeysAssumption
  <2>2. CASE k = Named(key, 1)
    <3>1. /\ key.rotation \in RotationPolicy
          /\ key.lastRotated \in Moments \cup {None} /\ key.expiresAt \in Moments \cup {None}
      BY AlertsAssumption DEF AlertsTypeOK
    <3>2. 1 % 2 \in Int
      OBVIOUS
    <3> QED
      BY <2>2, <3>1, <3>2 DEF Named
  <2> QED
    BY <2>1, <2>2
<1>3. now \in Int /\ Moments \cup {None} \subseteq MaybeInt
  BY DurationAssumption DEF AlertsTypeOK, Moments, MaybeInt
<1>4. Deadline(k) \in MaybeInt
  BY <1>2, <1>3, DeadlineType
<1>5. RowType(r) /\ r.deadline = Deadline(k) /\ r.state = State(k, now)
  BY <1>1, <1>2, <1>3, <1>4 DEF Row, RowType
<1> QED
  BY <1>2, <1>3, <1>4, <1>5, StateMeaning

\* Whatever keys are listed and whenever, each of the three ways to sort them is an
\* order: what sort_rows hands to the standard library can be sorted.
THEOREM SortingIsAnOrder == AlertsSpec => []OrderIsTotal
<1>1. ASSUME AlertsTypeOK PROVE OrderIsTotal
  <2> SUFFICES ASSUME NEW sort \in Sorts, NEW a \in Rows, NEW b \in Rows, NEW c \in Rows
               PROVE  /\ Order(a, b, sort) = -Order(b, a, sort)
                      /\ Order(a, b, sort) <= 0 /\ Order(b, c, sort) <= 0
                           => Order(a, c, sort) <= 0
    BY DEF OrderIsTotal
  <2>1. RowType(a) /\ RowType(b) /\ RowType(c)
    BY <1>1, RowsHaveTypes
  <2>2. CASE sort = "name"
    <3>1. /\ a.displayName \in Int /\ b.displayName \in Int /\ c.displayName \in Int
      BY <2>1 DEF RowType
    <3>2. /\ Order(a, b, sort) = -Order(b, a, sort)
          /\ Order(a, b, sort) <= 0 <=> a.displayName <= b.displayName
          /\ Order(b, c, sort) <= 0 <=> b.displayName <= c.displayName
          /\ Order(a, c, sort) <= 0 <=> a.displayName <= c.displayName
      BY <2>2, <3>1, CompareNumbers, OrderCases
    <3> QED
      BY <3>1, <3>2
  <2>3. CASE sort = "rotated"
    BY <2>1, <2>3, CompareOptions, OrderCases DEF RowType
  <2>4. CASE sort = "deadline"
    BY <2>1, <2>4, SoonerIsAnOrder, OrderCases
  <2> QED
    BY <2>2, <2>3, <2>4 DEF Sorts
<1> QED
  BY <1>1, AlertsTypes, PTL

\* Whatever keys are listed, the expired ones come first and the unknown ones last.
THEOREM ExpiredOnTop == AlertsSpec => []ExpiredFirst
<1>1. ASSUME AlertsTypeOK PROVE ExpiredFirst
  <2> SUFFICES ASSUME NEW a \in Rows, NEW b \in Rows
               PROVE  /\ a.state = "expired" /\ b.state # "expired"
                           => Order(a, b, "deadline") = -1
                      /\ a.state # "unknown" /\ b.state = "unknown"
                           => Order(a, b, "deadline") = -1
    BY DEF ExpiredFirst
  <2>1. /\ a.deadline \in MaybeInt /\ b.deadline \in MaybeInt /\ now \in Int
        /\ a.state = "unknown" <=> a.deadline = None
        /\ b.state = "unknown" <=> b.deadline = None
        /\ a.state = "expired" <=> a.deadline # None /\ a.deadline <= now
        /\ b.state = "expired" <=> b.deadline # None /\ b.deadline <= now
    BY <1>1, RowsHaveTypes DEF RowType
  <2>2. Order(a, b, "deadline") = Sooner(a, b)
    BY OrderCases
  <2>3. CASE b.deadline = None
    BY <2>1, <2>2, <2>3 DEF Sooner
  <2>4. CASE a.deadline \in Int /\ b.deadline \in Int
    <3>1. a.deadline # None /\ b.deadline # None
      BY <2>4, DurationAssumption
    <3>2. Order(a, b, "deadline") = Compare(a.deadline, b.deadline)
      BY <2>2, <3>1 DEF Sooner
    <3> QED
      BY <2>1, <2>4, <3>1, <3>2, CompareNumbers
  <2>5. CASE a.deadline = None
    BY <2>1, <2>5
  <2> QED
    BY <2>1, <2>3, <2>4, <2>5 DEF MaybeInt
<1> QED
  BY <1>1, AlertsTypes, PTL

\* Whatever keys are listed and whatever is asked for, the chips count what choosing
\* them shows, and no found row is on none of them.
THEOREM ChipsAreTrue == AlertsSpec => []ChipsCountRows
<1>1. ASSUME AlertsTypeOK PROVE ChipsCountRows
  <2> SUFFICES ASSUME NEW q \in Queries, NEW provider \in Providers,
                      NEW chosen \in {None} \cup States
               PROVE  LET f == [q |-> q, provider |-> provider, state |-> chosen]
                      IN /\ \A s \in States :
                              Count(Rows, f, s)
                                = Cardinality(Shown(Rows, [f EXCEPT !.state = s]))
                         /\ \A r \in Searched(Rows, f) : r.state \in States
    BY DEF ChipsCountRows
  <2> DEFINE f == [q |-> q, provider |-> provider, state |-> chosen]
  <2>1. ASSUME NEW s \in States
        PROVE  Count(Rows, f, s) = Cardinality(Shown(Rows, [f EXCEPT !.state = s]))
    <3> DEFINE g == [f EXCEPT !.state = s]
    <3>1. g.q = f.q /\ g.provider = f.provider /\ g.state = s
      OBVIOUS
    <3>2. s # None
      BY StatesAssumption
    <3> HIDE DEF f, g
    <3>3. Shown(Rows, g) = {r \in Searched(Rows, f) : r.state = s}
      BY <3>1, <3>2 DEF Shown, Searched
    <3>4. Count(Rows, f, s) = Cardinality(Shown(Rows, g))
      BY <3>3 DEF Count
    <3> QED
      BY <3>4 DEF g
  <2>2. \A r \in Searched(Rows, f) : r.state \in States
    BY <1>1, RowsHaveTypes DEF Searched
  <2> QED
    BY <2>1, <2>2
<1> QED
  BY <1>1, AlertsTypes, PTL
=============================================================================
