------------------------------ MODULE KeyStatus ------------------------------
(***************************************************************************)
(* The status of an ApiKey resource and the two mutations the program      *)
(* makes of it: apply_rotation (rotation.rs) and the closure with which    *)
(* Rotator::rotate_inner stores the outcome of its writes.  Both are pure; *)
(* StatusStore says when they are applied.                                 *)
(*                                                                         *)
(* Instants are natural numbers.  An actor is identified with the one      *)
(* request it makes, so a history entry names the request that made it.    *)
(***************************************************************************)
EXTENDS Integers, Sequences

CONSTANTS Actors,         \* the requests (crd.rs Actor: who made the request)
          Targets,        \* references of OpenBao targets
          HISTORY_LIMIT,  \* 10 in the code
          None            \* Option::None

ASSUME HistoryLimitAssumption == HISTORY_LIMIT \in Nat \ {0}
ASSUME NoneAssumption == None \notin Actors /\ None \notin Nat

Instant == Nat
MaybeInstant == Instant \cup {None}

HistoryEntry == [at : Instant, by : Actors, kind : {"Rotated", "Recorded"},
                 expires : MaybeInstant]

\* A TargetStatus: when the target was last written and whether that succeeded.
TargetStatus == [at : Instant, ok : BOOLEAN]

ASSUME NoTargetStatusAssumption == None \notin TargetStatus

ProbeStatus == [at : Instant, expires : MaybeInstant]

\* The Valid condition together with status.observedGeneration.
Condition == [gen : Nat, ok : BOOLEAN]

Status == [lastRotated : MaybeInstant,
           rotatedBy   : Actors \cup {None},
           expires     : MaybeInstant,
           source      : {"Probe", "Manual", "None", None},
           manual      : MaybeInstant,
           probe       : ProbeStatus \cup {None},
           history     : Seq(HistoryEntry),
           targets     : [Targets -> TargetStatus \cup {None}],
           valid       : Condition \cup {None}]

\* ApiKeyStatus::default(); an absent .status is read as this one.
DefaultStatus == [lastRotated |-> None, rotatedBy |-> None, expires |-> None,
                  source |-> None, manual |-> None, probe |-> None,
                  history |-> <<>>, targets |-> [t \in Targets |-> None],
                  valid |-> None]

-----------------------------------------------------------------------------
\* Faulty variant: the new entry goes to the end.
PushHistoryLast(h, e) ==
  LET n == IF Len(h) < HISTORY_LIMIT THEN Len(h) + 1 ELSE HISTORY_LIMIT
  IN  [i \in 1..n |-> IF i <= Len(h) THEN h[i] ELSE e]

\* history.insert(0, e); history.truncate(HISTORY_LIMIT)
PushHistory(h, e) ==
  LET n == IF Len(h) < HISTORY_LIMIT THEN Len(h) + 1 ELSE HISTORY_LIMIT
  IN  [i \in 1..n |-> IF i = 1 THEN e ELSE h[i - 1]]

\* The expiry that counts and where it comes from: a probed one wins.
EffectiveExpiry(probe, manual) ==
  IF probe # None /\ probe.expires # None
  THEN [at |-> probe.expires, source |-> "Probe"]
  ELSE IF manual # None THEN [at |-> manual, source |-> "Manual"]
                        ELSE [at |-> None, source |-> "None"]

\* apply_rotation; m carries its arguments at, by, kind, manual and probe.
ApplyRotation(s, m) ==
  LET e == EffectiveExpiry(m.probe, m.manual)
  IN [s EXCEPT !.lastRotated = m.at,
               !.rotatedBy   = m.by,
               !.manual      = m.manual,
               !.expires     = e.at,
               !.source      = e.source,
               !.probe       = m.probe,
               !.history     = PushHistory(@, [at |-> m.at, by |-> m.by,
                                               kind |-> m.kind, expires |-> e.at])]

\* Faulty variant: entries of targets that left the spec stay.
RetainEverything(ts, refs) == ts

\* status.targets.retain(|t| spec_refs.contains(..))
RetainTargets(ts, refs) == [t \in Targets |-> IF t \in refs THEN ts[t] ELSE None]

\* Replace or push the entry of every outcome; a failed write counts as a write.
UpsertTargets(ts, ok, at) ==
  [t \in Targets |-> IF t \in DOMAIN ok THEN [at |-> at, ok |-> ok[t]] ELSE ts[t]]

-----------------------------------------------------------------------------
(***************************************************************************)
(* What a StatusMutation closure has captured.  "Recorded" is the closure  *)
(* of rotation::record, "Rotated" the one of rotate_inner: ok maps every   *)
(* target of the request's own snapshot of the spec to its outcome, so its *)
(* domain is spec_refs.                                                    *)
(***************************************************************************)
Outcomes == UNION {[S -> BOOLEAN] : S \in SUBSET Targets}

Mutation == [kind : {"Rotated", "Recorded"}, by : Actors, at : Instant,
             manual : MaybeInstant, probe : ProbeStatus \cup {None}, ok : Outcomes]

\* Faulty variant: one written target is enough.
AnyWritten(ok) == \E t \in DOMAIN ok : ok[t]

\* Every target was written.
Completed(ok) == \A t \in DOMAIN ok : ok[t]

MergeTargets(s, m) ==
  [s EXCEPT !.targets = UpsertTargets(RetainTargets(@, DOMAIN m.ok), m.ok, m.at)]

\* mutate(&mut status)
Apply(m, s) ==
  CASE m.kind = "Recorded" -> ApplyRotation(s, m)
    [] m.kind = "Rotated" /\ Completed(m.ok) -> ApplyRotation(MergeTargets(s, m), m)
    [] m.kind = "Rotated" /\ ~Completed(m.ok) -> MergeTargets(s, m)

=============================================================================
