------------------------------ MODULE IndexPage ------------------------------
(***************************************************************************)
(* The list of keys (web/pages.rs, index and sort_rows): which rows it has *)
(* and in which order.  Names and last rotations are compared as numbers.  *)
(* KeyRow::matches is a set of search words a key is found under.          *)
(***************************************************************************)
EXTENDS Alerts, FiniteSets

CONSTANTS OtherKeys   \* the keys that are listed beside the key of Alerts

ASSUME OtherKeysAssumption ==
  \A k \in OtherKeys :
    /\ k.name \in Int /\ k.displayName \in Int /\ k.rotation \in RotationPolicy
    /\ k.lastRotated \in Moments \cup {None} /\ k.expiresAt \in Moments \cup {None}

\* How KeyRow::new presents a listed key.
Row(k, t) == [name |-> k.name, displayName |-> k.displayName, words |-> k.words,
                provider |-> k.provider, lastRotated |-> k.lastRotated,
                deadline |-> Deadline(k), state |-> State(k, t)]

\* Filters: None where nothing is asked for.
Searched(rows, f) == {r \in rows : /\ f.q = None \/ f.q \in r.words
                                   /\ f.provider = None \/ r.provider = f.provider}

\* Faulty variant: the chips count the rows that are shown.
CountShown(rows, f, s) ==
  Cardinality({r \in Searched(rows, f) : r.state = s /\ f.state \in {None, s}})

\* The number on the chip of state s.
Count(rows, f, s) == Cardinality({r \in Searched(rows, f) : r.state = s})

Shown(rows, f) == {r \in Searched(rows, f) : f.state = None \/ r.state = f.state}

\* Options order None first, as Rust does.
Compare(x, y) == IF x < y THEN -1 ELSE IF x > y THEN 1 ELSE 0
CompareOption(x, y) == IF x = None /\ y = None THEN 0
                       ELSE IF x = None THEN -1
                       ELSE IF y = None THEN 1
                       ELSE Compare(x, y)

\* Faulty variant: deadlines are compared as options.
UnknownFirst(a, b, sort) == CompareOption(a.deadline, b.deadline)

\* Faulty variant: rows without a deadline come after whatever they are compared with.
UnknownAfterAll(a, b, sort) ==
  IF a.deadline = None THEN 1
  ELSE IF b.deadline = None THEN -1 ELSE Compare(a.deadline, b.deadline)

\* The comparison sort_rows sorts by.
Order(a, b, sort) ==
  CASE sort = "name" -> Compare(a.displayName, b.displayName)
    [] sort = "rotated" -> CompareOption(a.lastRotated, b.lastRotated)
    [] OTHER -> IF a.deadline = None /\ b.deadline = None THEN Compare(a.name, b.name)
                ELSE IF a.deadline = None THEN 1
                ELSE IF b.deadline = None THEN -1
                ELSE Compare(a.deadline, b.deadline)

-----------------------------------------------------------------------------
\* The key of Alerts under a name, and the list at this moment.
Named(k, n) == [name |-> n, displayName |-> n % 2, words |-> {n, n % 2},
                provider |-> n % 2, lastRotated |-> k.lastRotated,
                expiresAt |-> k.expiresAt, rotation |-> k.rotation]

Rows == {Row(k, now) : k \in OtherKeys \cup {Named(key, 1)}}

Sorts == {"name", "rotated", "deadline"}

\* The order of the list is one: whatever it is sorted by, two rows compare alike from
\* both sides, and no three rows go round in a circle, rows without a deadline and
\* without a rotation among them (sort_rows; the standard library may panic otherwise).
OrderIsTotal ==
  LET rows == Rows
  IN \A sort \in Sorts, a, b \in rows :
       /\ Order(a, b, sort) = -Order(b, a, sort)
       /\ \A c \in rows : Order(a, b, sort) <= 0 /\ Order(b, c, sort) <= 0
                             => Order(a, c, sort) <= 0

\* By default an expired key is above every key that is not, and a key of unknown
\* state below every key with a deadline.
ExpiredFirst ==
  LET rows == Rows
  IN \A a, b \in rows :
       /\ a.state = "expired" /\ b.state # "expired" => Order(a, b, "deadline") = -1
       /\ a.state # "unknown" /\ b.state = "unknown" => Order(a, b, "deadline") = -1

\* What the search box and the provider filter can ask for.
Queries == {None} \cup UNION {r.words : r \in Rows}
Providers == {None} \cup {r.provider : r \in Rows}

\* A state's chip shows how many rows choosing it would show, whichever state is
\* chosen now, and every row that the search found is counted on one chip.
ChipsCountRows ==
  LET rows == Rows
  IN \A q \in Queries, provider \in Providers, chosen \in {None} \cup States :
       LET f == [q |-> q, provider |-> provider, state |-> chosen]
       IN /\ \A s \in States :
               Count(rows, f, s) = Cardinality(Shown(rows, [f EXCEPT !.state = s]))
          /\ \A r \in Searched(rows, f) : r.state \in States
=============================================================================
