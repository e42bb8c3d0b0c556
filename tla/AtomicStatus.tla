---------------------------- MODULE AtomicStatus ----------------------------
(***************************************************************************)
(* What Repository::update_status promises its callers: the mutation is    *)
(* applied to the status of the resource in one step, at most once, and    *)
(* exactly once before a caller is told Ok.  A caller that is told of an   *)
(* error, or that never hears anything, learns nothing: its mutation may   *)
(* have been applied or may still be applied later.  MemoryRepository      *)
(* (repo.rs) is this specification under its lock; StatusStore shows that  *)
(* KubeRepository implements it without one.                               *)
(***************************************************************************)
EXTENDS KeyStatus

CONSTANTS Mutations,    \* mutations the callers make
          Conditions    \* conditions the controller patches

VARIABLES exists,   \* the resource exists
          status,   \* its status
          call      \* per caller: phase, captured mutation, applied or not

vars == <<exists, status, call>>

\* A call is idle, open, ok or failed.
Init == /\ exists = TRUE
        /\ status = DefaultStatus
        /\ call = [c \in Actors |-> [phase |-> "idle", m |-> None, applied |-> FALSE]]

Opened(k, m) == [phase |-> "open", m |-> m, applied |-> k.applied]

\* A caller hands over its mutation.
Open(c) ==
  /\ call[c].phase = "idle"
  /\ \E m \in Mutations :
       /\ m.by = c
       /\ call' = [call EXCEPT ![c] = Opened(@, m)]
  /\ UNCHANGED <<exists, status>>

\* A mutation that is applied while its caller waits is answered Ok.
Committed(k) == [phase |-> IF k.phase = "open" THEN "ok" ELSE k.phase,
                 m |-> k.m, applied |-> TRUE]

\* The one step that mutates the status.
Commit(c) ==
  /\ exists
  /\ call[c].phase \in {"open", "failed"}
  /\ ~call[c].applied
  /\ status' = Apply(call[c].m, status)
  /\ call' = [call EXCEPT ![c] = Committed(@)]
  /\ UNCHANGED exists

\* The caller gets an error, or is gone.
Fail(c) ==
  /\ call[c].phase = "open"
  /\ call' = [call EXCEPT ![c].phase = "failed"]
  /\ UNCHANGED <<exists, status>>

\* The controller rewrites the Valid condition and nothing else.
Patch == /\ exists
         /\ \E v \in Conditions : status' = [status EXCEPT !.valid = v]
         /\ UNCHANGED <<exists, call>>

Delete == exists /\ exists' = FALSE /\ UNCHANGED <<status, call>>

Create == /\ ~exists
          /\ exists' = TRUE
          /\ status' = DefaultStatus
          /\ UNCHANGED call

Next == \/ \E c \in Actors : Open(c) \/ Commit(c) \/ Fail(c)
        \/ Patch \/ Delete \/ Create

Spec == Init /\ [][Next]_vars
=============================================================================
