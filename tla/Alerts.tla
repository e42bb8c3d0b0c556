-------------------------------- MODULE Alerts --------------------------------
(***************************************************************************)
(* One key over time: what its page says (schedule.rs, web/views.rs) and   *)
(* which alerts fire.  Prometheus reads the gauges (metrics.rs) now and    *)
(* then and evaluates the chart's rules on what it read last; it is        *)
(* external, the rules are those of files/alerts.yaml.                     *)
(***************************************************************************)
EXTENDS Schedule

CONSTANTS Rotations,   \* rotation policies the spec can have
          Expiries,    \* expiries that are probed or entered by hand
          UNKNOWN_FOR, \* how long a state is unknown before an alert says so
          MaxTime      \* bound: the clock stops there

ASSUME AlertsAssumption ==
  /\ Expiries \subseteq 0 .. MAX_TIMESTAMP
  /\ UNKNOWN_FOR \in Nat
  /\ MaxTime \in 0 .. MAX_TIMESTAMP
  /\ Rotations \subseteq RotationPolicy

VARIABLES key, now,
          gauges,   \* what Prometheus read last
          unknownSince \* when it first found no deadline, and none since

alertVars == <<key, now, gauges, unknownSince>>

Moments == 0 .. MAX_TIMESTAMP

\* Types; what Prometheus reads as a deadline is a moment a Timestamp can name.
AlertsTypeOK ==
  /\ key \in [lastRotated : Moments \cup {None}, expiresAt : Moments \cup {None},
              rotation : Rotations]
  /\ now \in Moments
  /\ gauges \in [deadline : Moments \cup {None}, warn : Nat, critical : Nat] \cup {None}
  /\ unknownSince \in Moments \cup {None}

AlertsInit == /\ \E r \in Rotations :
                   key = [lastRotated |-> None, expiresAt |-> None, rotation |-> r]
              /\ now = 0
              /\ gauges = None
              /\ unknownSince = None

\* A rotation that completed.
Rotated == \E e \in Expiries \cup {None} :
             /\ key' = [key EXCEPT !.lastRotated = now, !.expiresAt = e]
             /\ UNCHANGED <<now, gauges, unknownSince>>

\* One recorded by hand, up to now.
Recorded == \E at \in 0 .. now, e \in Expiries \cup {None} :
              /\ key' = [key EXCEPT !.lastRotated = at, !.expiresAt = e]
              /\ UNCHANGED <<now, gauges, unknownSince>>

EditRotation == \E r \in Rotations :
                  /\ key' = [key EXCEPT !.rotation = r]
                  /\ UNCHANGED <<now, gauges, unknownSince>>

\* Faulty variant: the gauges show the configured thresholds.
DefaultGauges(k) == [deadline |-> Deadline(k), warn |-> WARN_BEFORE,
                     critical |-> CRITICAL_BEFORE]

\* KeyCollector::encode; state_known is 0 where there is no deadline.
Gauges(k) == [deadline |-> Deadline(k), warn |-> WarnBefore(k.rotation),
              critical |-> CriticalBefore(k.rotation)]

\* Prometheus reads the gauges and evaluates the rule of the unknown state, which
\* stays pending as long as every reading in a row holds it true.
Scrape == /\ gauges' = Gauges(key)
          /\ unknownSince' = IF gauges'.deadline # None THEN None
                             ELSE IF unknownSince # None THEN unknownSince
                             ELSE now
          /\ UNCHANGED <<key, now>>

Tick == /\ now < MaxTime
        /\ now' = now + 1
        /\ UNCHANGED <<key, gauges, unknownSince>>

AlertsNext == Rotated \/ Recorded \/ EditRotation \/ Scrape \/ Tick

AlertsSpec == AlertsInit /\ [][AlertsNext]_alertVars

-----------------------------------------------------------------------------
(* The rules of alerts.yaml, on gauges g at time t.                        *)
ExpiringSoon(g, t) == /\ g.deadline # None
                      /\ g.deadline - t < g.warn
                      /\ g.deadline - t >= g.critical
ExpiringVerySoon(g, t) == /\ g.deadline # None
                          /\ g.deadline - t < g.critical
                          /\ g.deadline - t > 0
Expired(g, t) == g.deadline # None /\ g.deadline - t <= 0
StateUnknown(g, t) == g.deadline = None /\ t - unknownSince >= UNKNOWN_FOR

\* The alerts say what the page says, however long ago the gauges were read, as long
\* as they are still those of the key: the rules compare with the clock anew.  The
\* one exception: with a critical threshold of zero the moment of the deadline is
\* both expired and due soon.  That the state is unknown is said after it was so at
\* every reading for a while.
AlertsMatchPage ==
  gauges = Gauges(key) =>
    LET atDeadline == gauges.critical = 0 /\ gauges.deadline = now /\ gauges.warn > 0
        s == State(key, now)
    IN /\ ExpiringSoon(gauges, now) <=> s = "warning" \/ atDeadline
       /\ ExpiringVerySoon(gauges, now) <=> s = "critical"
       /\ Expired(gauges, now) <=> s = "expired"
       /\ StateUnknown(gauges, now)
            <=> s = "unknown" /\ now - unknownSince >= UNKNOWN_FOR

Urgency == [ok |-> 0, warning |-> 1, critical |-> 2, expired |-> 3]

\* Time alone never makes a key look less urgent, whatever its thresholds are and in
\* whatever order, nor a known deadline unknown.
UrgencyGrows ==
  [][key' = key =>
       LET s == State(key, now)
           t == State(key', now')
       IN IF s = "unknown" THEN t = "unknown"
          ELSE t # "unknown" /\ Urgency[t] >= Urgency[s]]_alertVars
=============================================================================
