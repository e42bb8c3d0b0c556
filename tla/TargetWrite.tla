----------------------------- MODULE TargetWrite -----------------------------
(***************************************************************************)
(* What TargetWriter::write promises the Rotator: the value reaches the    *)
(* target in one step, at most once, and before the caller is told Ok.  A  *)
(* caller that is told of an error, or is gone, does not know: the value   *)
(* may have reached the target or may still do so.  These are the outcomes *)
(* Rotation lets a write have.  Other keys of the same secret survive or   *)
(* are lost with the write; nobody else's secret is touched.               *)
(***************************************************************************)
CONSTANTS Writers, Paths, Keys, None, Other

VARIABLES secret,   \* per path: None, or the value under each key
          call      \* per writer: phase, target, landed or not

vars == <<secret, call>>

Init == /\ secret = [p \in Paths |-> None]
        /\ call = [w \in Writers |-> [phase |-> "idle", path |-> None, key |-> None,
                                      landed |-> FALSE]]

Open(w, p, k) ==
  /\ call[w].phase = "idle"
  /\ call' = [call EXCEPT ![w] = [@ EXCEPT !.phase = "open", !.path = p, !.key = k]]
  /\ UNCHANGED secret

\* The value is there; the other keys are as before or gone.
Land(w) ==
  /\ call[w].phase \in {"open", "failed"} /\ ~call[w].landed
  /\ call' = [call EXCEPT ![w].landed = TRUE]
  /\ \E kept \in SUBSET (Keys \ {call[w].key}) :
       secret' = [secret EXCEPT ![call[w].path] =
                    [k \in Keys |-> IF k = call[w].key THEN w
                                    ELSE IF k \in kept /\ @ # None THEN @[k] ELSE None]]

Succeed(w) ==
  /\ call[w].phase = "open" /\ call[w].landed
  /\ call' = [call EXCEPT ![w].phase = "ok"]
  /\ UNCHANGED secret

Fail(w) ==
  /\ call[w].phase = "open"
  /\ call' = [call EXCEPT ![w].phase = "failed"]
  /\ UNCHANGED secret

\* The process restarts: every open call fails.
FailAll ==
  /\ call' = [w \in Writers |-> IF call[w].phase = "open"
                                THEN [call[w] EXCEPT !.phase = "failed"] ELSE call[w]]
  /\ UNCHANGED secret

\* Other users of the store write their own values, or delete a secret.
Others == /\ \E p \in Paths : \E s \in [Keys -> {None, Other}] \cup {None} :
               secret' = [secret EXCEPT ![p] = s]
          /\ UNCHANGED call

Next == \/ \E w \in Writers : \/ \E p \in Paths, k \in Keys : Open(w, p, k)
                              \/ Land(w) \/ Succeed(w) \/ Fail(w)
        \/ FailAll \/ Others

Spec == Init /\ [][Next]_vars
=============================================================================
