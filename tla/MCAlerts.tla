------------------------------- MODULE MCAlerts -------------------------------
(***************************************************************************)
(* Small instances of Validation, Alerts and IndexPage for TLC.  The       *)
(* judging of a spec and the life of a key share no state, so each is      *)
(* explored from one state of the other.                                   *)
(***************************************************************************)
EXTENDS IndexPage, Validation

Units == [s |-> 1, m |-> 3]

D(n, u) == [number |-> n, unit |-> u]

\* 12 minutes are more seconds than 31, the largest number here, and wrap to a
\* negative one; 30 seconds lead beyond the last timestamp.  Thresholds are absent,
\* zero, unreadable, in order and crossed.
Policies ==
  {[maxAge |-> a, warnBefore |-> t[1], criticalBefore |-> t[2]] :
     a \in {None, D(2, "s"), D(30, "s")},
     t \in {<<None, None>>, <<None, D(0, "s")>>, <<D(1, "m"), D(0, "s")>>,
            <<D(1, "m"), D(2, "m")>>, <<D(None, "s"), D(2, "s")>>}}

Durations == {None, D(2, "s"), D(12, "m"), D(40, "s"), D(None, "s"), D(1, "x"), D(30, "s")}

Segments == {<<>>, <<"a">>, <<"+">>, <<"a", "b">>, <<"a", "+">>}
\* Up to two segments of any kind, and three of fewer kinds.
SegmentSeqs(S) == [1 .. 1 -> S] \cup [1 .. 2 -> S]
                  \cup [1 .. 3 -> S \cap {<<>>, <<"a">>, <<"+">>}]
Patterns == [segments : {<<<<"m">>, DATA>> \o s : s \in SegmentSeqs(Segments)}
                        \cup {<<<<>>>>, <<PLUS>>, <<<<"m">>, PLUS>>, <<<<"m">>, PLUS, <<>>>>},
             prefix : BOOLEAN] \ {[segments |-> <<<<>>>>, prefix |-> FALSE]}
Everything == [segments |-> <<<<>>>>, prefix |-> TRUE]

Target(mount, path, k) == [mount |-> mount, path |-> path, key |-> k]
NoPolicy == [maxAge |-> None, warnBefore |-> None, criticalBefore |-> None]
SpecOf(policy, targets, url) == [rotation |-> policy, targets |-> targets, renewUrl |-> url]

PathSpecs == {SpecOf(NoPolicy, <<Target(<<<<"m">>>>, p, <<"k">>)>>, "none") :
                p \in SegmentSeqs(Segments \ {<<"a", "+">>})}
SomeTargets == {None} \cup
  {Target(m, p, k) : m \in {<<<<>>>>, <<<<"m">>>>, <<<<"m">>, <<>>>>},
                     p \in {<<<<>>>>, <<<<"a">>>>, <<<<"a">>, <<>>>>, <<<<"a">>, DOTS>>},
                     k \in {<<>>, <<"k">>}}
  \cup {Target(<<<<" ">>>>, <<<<" ", " ">>>>, <<" ", "k">>),
        Target(<<<<"m">>>>, <<<<" ">>, <<>>>>, <<" ">>)}
TwoTargets == {SpecOf(NoPolicy, <<t, u>>, "none") : t \in SomeTargets, u \in SomeTargets}
PolicySpecs == {SpecOf([maxAge |-> a, warnBefore |-> w, criticalBefore |-> c], <<>>, url) :
                  a \in Durations, w \in Durations, c \in Durations, url \in {"link", "other"}}

Cases == {[spec |-> s, allowed |-> {p}] : s \in PathSpecs, p \in Patterns}
         \cup {[spec |-> s, allowed |-> a] : s \in TwoTargets \cup PolicySpecs,
                                             a \in {{}, {Everything}}}

\* Listed beside the key that changes: one that was never rotated and has no
\* deadline, and one with both.
Others == {Named([lastRotated |-> None, expiresAt |-> None, rotation |-> NoPolicy], 0),
           Named([lastRotated |-> 1, expiresAt |-> 2, rotation |-> NoPolicy], 2)}

OneKey == [lastRotated |-> None, expiresAt |-> None, rotation |-> NoPolicy]
OneSpec == SpecOf(NoPolicy, <<>>, "none")

MCInit == \/ /\ ValidationInit
             /\ key = OneKey /\ now = 0 /\ gauges = None /\ unknownSince = None
          \/ AlertsInit /\ spec = OneSpec /\ allowed = {} /\ problems = None

MCNext == \/ Judge /\ UNCHANGED alertVars
          \/ spec = OneSpec /\ AlertsNext /\ UNCHANGED validationVars

MCSpec == MCInit /\ [][MCNext]_<<alertVars, validationVars>>
=============================================================================
