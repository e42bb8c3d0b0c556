------------------------------ MODULE Rotation ------------------------------
(***************************************************************************)
(* Requests that rotate a key (Rotator::rotate) or record a rotation done  *)
(* elsewhere (rotation::record), running concurrently in one process       *)
(* against the stores that hold the key, the status kept by StatusStore    *)
(* and the reflector cache from which the spec is read.  Each await of the *)
(* handlers is a step; a handler's future may be dropped at every one of   *)
(* them, and the process may restart.                                      *)
(***************************************************************************)
EXTENDS StatusStore

CONSTANTS MaxTime,    \* bound: the clock stops there
          Expiries    \* expiry dates an admin enters or a provider reports

ASSUME MaxTimeAssumption == MaxTime \in Nat
ASSUME ExpiriesAssumption == Expiries \subseteq MaybeInstant

\* targets in the order of the spec; probed: the provider is not Generic;
\* valid: validate() finds no problem, so no reference occurs twice.
KeySpec == [targets : Seq(Targets), probed : BOOLEAN, valid : BOOLEAN]

RefsOf(spec) == {spec.targets[i] : i \in 1..Len(spec.targets)}

ASSUME SpecsAssumption ==
  /\ Specs \subseteq KeySpec
  /\ \A s \in Specs : s.valid =>
       \A i, j \in 1..Len(s.targets) : s.targets[i] = s.targets[j] => i = j

VARIABLES req,      \* per request: where its handler is
          cache,    \* the spec in the reflector store, None without the resource
          store,    \* per target: whose key it holds
          late,     \* writes nobody waits for any more that may still be applied
          clock,
          answered, \* history variable: per target, did its last answered write succeed
          landed,   \* history variable: whose key was ever written to which target
          calm      \* history variable: so far requests ran one at a time, to their
                    \* end, and no abandoned write was applied

rotVars == <<req, cache, store, late, clock, answered, landed, calm>>
vars == <<storeVars, rotVars>>

Running == {"probe", "reject", "write", "save", "publish"}

\* Refusals of rotate_inner and record before anything is written.
Refusals == {"NotFound", "Empty", "NoTargets", "InvalidSpec", "Probe",
             "FutureDate", "ExpiryBeforeRotation"}

\* None says that nothing speaks against the submission.
ASSUME RefusalsAssumption == None \notin Refusals

Results == Refusals \cup {"ok", "partial", "failed", "recorded", "Status"}

\* next is the index of the target being written, ok the outcomes so far.
Request == [pc : Running \cup {"idle", "done", "cut"},
            kind : {"none", "rotate", "record"}, spec : Specs \cup {None},
            manual : MaybeInstant, probe : [expires : MaybeInstant] \cup {None},
            next : Nat, ok : Outcomes, result : Results \cup {"none"},
            event : {"none", "Rotated", "RotationFailed", "RotationRejected",
                     "Recorded"}]

IdleRequest == [pc |-> "idle", kind |-> "none", spec |-> None, manual |-> None,
                probe |-> None, next |-> 1, ok |-> [t \in {} |-> FALSE],
                result |-> "none", event |-> "none"]

RotTypeOK == /\ StoreTypeOK
             /\ req \in [Actors -> Request]
             /\ cache \in Specs \cup {None}
             /\ store \in [Targets -> Actors \cup {None}]
             /\ late \subseteq Actors \X Targets
             /\ clock \in Nat
             /\ answered \in [Targets -> BOOLEAN \cup {None}]
             /\ landed \subseteq Actors \X Targets
             /\ calm \in BOOLEAN

Init == /\ StoreInit
        /\ req = [r \in Actors |-> IdleRequest]
        /\ cache = None
        /\ store = [t \in Targets |-> None]
        /\ late = {}
        /\ clock = 0
        /\ answered = [t \in Targets |-> None]
        /\ landed = {}
        /\ calm = TRUE

-----------------------------------------------------------------------------
Quiet == \A r \in Actors : req[r].pc \notin Running

\* A request begins: calm ends if another one is running.
Begin(r, q) == /\ req[r].pc = "idle"
               /\ req' = [req EXCEPT ![r] = q]
               /\ calm' = (calm /\ Quiet)

Finish(r, why) == req' = [req EXCEPT ![r].pc = "done", ![r].result = why]

Refused(kind, why) ==
  [IdleRequest EXCEPT !.pc = "done", !.kind = kind, !.result = why]

(***************************************************************************)
(* Rotator::rotate_inner                                                   *)
(***************************************************************************)

\* Looked up in the cache; blank: the submitted key is empty.
Refusal(blank) ==
  CASE cache = None              -> "NotFound"
    [] cache # None /\ blank     -> "Empty"
    [] cache # None /\ ~blank /\ cache.targets = <<>> -> "NoTargets"
    [] cache # None /\ ~blank /\ cache.targets # <<>> ->
         IF cache.valid THEN None ELSE "InvalidSpec"

RotateRefused(r) ==
  /\ \E blank \in BOOLEAN :
       /\ Refusal(blank) # None
       /\ Begin(r, Refused("rotate", Refusal(blank)))
  /\ UNCHANGED <<storeVars, cache, store, late, clock, answered, landed>>

Rotate(r, manual, skip) ==
  /\ Refusal(FALSE) = None
  /\ Begin(r, [IdleRequest EXCEPT
                 !.kind = "rotate", !.spec = cache, !.manual = manual,
                 !.pc = IF skip \/ ~cache.probed THEN "write" ELSE "probe"])
  /\ UNCHANGED <<storeVars, cache, store, late, clock, answered, landed>>

\* The provider accepts the key and may report its expiry.
ProbeOk(r, expires) ==
  /\ req[r].pc = "probe"
  /\ req' = [req EXCEPT ![r].pc = "write", ![r].probe = [expires |-> expires]]
  /\ UNCHANGED <<storeVars, cache, store, late, clock, answered, landed, calm>>

\* Ok(None), all that NoProbe ever answers.
ProbeNotSupported(r) ==
  /\ req[r].pc = "probe"
  /\ req' = [req EXCEPT ![r].pc = "write"]
  /\ UNCHANGED <<storeVars, cache, store, late, clock, answered, landed, calm>>

\* Faulty variant: the first write is under way while the key is probed.
ProbeFailedLate(r) ==
  /\ req[r].pc = "probe"
  /\ req' = [req EXCEPT ![r].pc = "reject"]
  /\ late' = late \cup {<<r, req[r].spec.targets[1]>>}
  /\ UNCHANGED <<storeVars, cache, store, clock, answered, landed, calm>>

ProbeFailed(r) ==
  /\ req[r].pc = "probe"
  /\ req' = [req EXCEPT ![r].pc = "reject"]
  /\ UNCHANGED <<storeVars, cache, store, late, clock, answered, landed, calm>>

\* record_event is best effort.
Reject(r) ==
  /\ req[r].pc = "reject"
  /\ \E e \in {"none", "RotationRejected"} :
       req' = [req EXCEPT ![r].pc = "done", ![r].result = "Probe", ![r].event = e]
  /\ UNCHANGED <<storeVars, cache, store, late, clock, answered, landed, calm>>

-----------------------------------------------------------------------------
\* The targets are written one after the other, whatever the earlier ones answer.
Writing(r) == req[r].pc = "write" /\ req[r].next <= Len(req[r].spec.targets)

Target(r) == req[r].spec.targets[req[r].next]

Answer(r, b) ==
  /\ req' = [req EXCEPT
               ![r].ok = [t \in DOMAIN @ \cup {Target(r)} |->
                            IF t = Target(r) THEN b ELSE @[t]],
               ![r].next = @ + 1]
  /\ answered' = [answered EXCEPT ![Target(r)] = b]

WriteOk(r) ==
  /\ Writing(r)
  /\ store' = [store EXCEPT ![Target(r)] = r]
  /\ landed' = landed \cup {<<r, Target(r)>>}
  /\ Answer(r, TRUE)
  /\ UNCHANGED <<storeVars, cache, late, clock, calm>>

\* The store refuses the write, or could not be reached.
WriteRefused(r) ==
  /\ Writing(r)
  /\ Answer(r, FALSE)
  /\ UNCHANGED <<storeVars, cache, store, late, clock, landed, calm>>

\* No answer in time: a failure for the caller, but the write may be applied.
WriteUnanswered(r) ==
  /\ Writing(r)
  /\ late' = late \cup {<<r, Target(r)>>}
  /\ Answer(r, FALSE)
  /\ UNCHANGED <<storeVars, cache, store, clock, landed, calm>>

LandWrite(r, t) ==
  /\ <<r, t>> \in late
  /\ late' = late \ {<<r, t>>}
  /\ store' = [store EXCEPT ![t] = r]
  /\ landed' = landed \cup {<<r, t>>}
  /\ calm' = FALSE
  /\ UNCHANGED <<storeVars, req, cache, clock, answered>>

-----------------------------------------------------------------------------
\* The closure that update_status gets: the clock is read after the writes.
RotatedMutation(r) ==
  [kind |-> "Rotated", by |-> r, at |-> clock, manual |-> req[r].manual,
   probe |-> IF req[r].probe = None THEN None
             ELSE [at |-> clock, expires |-> req[r].probe.expires],
   ok |-> req[r].ok]

Save(r) ==
  /\ req[r].pc = "write" /\ ~Writing(r)
  /\ Call(r, RotatedMutation(r))
  /\ req' = [req EXCEPT ![r].pc = "save"]
  /\ UNCHANGED <<cache, store, late, clock, answered, landed, calm>>

(***************************************************************************)
(* rotation::record; pages::record passes now or an earlier date.          *)
(***************************************************************************)
RecordRefused(r) ==
  /\ \E at \in 0..(MaxTime + 1), manual \in Expiries :
       \/ /\ at > clock
          /\ Begin(r, Refused("record", "FutureDate"))
       \/ /\ at <= clock /\ manual # None /\ manual < at
          /\ Begin(r, Refused("record", "ExpiryBeforeRotation"))
  /\ UNCHANGED <<storeVars, cache, store, late, clock, answered, landed>>

Record(r, at, manual) ==
  /\ at <= clock
  /\ manual # None => manual >= at
  /\ Begin(r, [IdleRequest EXCEPT !.kind = "record", !.pc = "save",
                                  !.manual = manual])
  /\ Call(r, [kind |-> "Recorded", by |-> r, at |-> at, manual |-> manual,
              probe |-> None, ok |-> [t \in {} |-> FALSE]])
  /\ UNCHANGED <<cache, store, late, clock, answered, landed>>

-----------------------------------------------------------------------------
\* What update_status answers; the status was saved, the event is published.
SaveStep(r) == UpdateStep(r) /\ UNCHANGED rotVars

Saved(r) ==
  /\ req[r].pc = "save" /\ upd[r].pc = "ok"
  /\ req' = [req EXCEPT ![r].pc = "publish"]
  /\ UNCHANGED <<storeVars, cache, store, late, clock, answered, landed, calm>>

\* Faulty variant: the error is shown without being wrapped.
SaveFailedBare(r) ==
  /\ req[r].pc = "save" /\ upd[r].pc = "error"
  /\ Finish(r, upd[r].reason)
  /\ UNCHANGED <<storeVars, cache, store, late, clock, answered, landed, calm>>

\* Faulty variant: a failed save is only logged.
SaveFailedIgnored(r) ==
  /\ req[r].pc = "save" /\ upd[r].pc = "error"
  /\ req' = [req EXCEPT ![r].pc = "publish"]
  /\ UNCHANGED <<storeVars, cache, store, late, clock, answered, landed, calm>>

\* Faulty variant: a failed save is tried again until it succeeds.
SaveAgain(r) ==
  /\ req[r].pc = "save" /\ upd[r].pc = "error"
  /\ upd' = [upd EXCEPT ![r].pc = "get", ![r].attempt = 1]
  /\ UNCHANGED <<obj, log, rotVars>>

\* RotateError::Status and RecordError::Repo
SaveFailed(r) ==
  /\ req[r].pc = "save" /\ upd[r].pc = "error"
  /\ Finish(r, "Status")
  /\ UNCHANGED <<storeVars, cache, store, late, clock, answered, landed, calm>>

\* What the handler returns when the status is saved, and the event's reason.
Outcome(r) ==
  CASE req[r].kind = "record" -> "recorded"
    [] req[r].kind = "rotate" /\ Completed(req[r].ok) -> "ok"
    [] req[r].kind = "rotate" /\ ~Completed(req[r].ok) ->
         IF \A t \in DOMAIN req[r].ok : ~req[r].ok[t] THEN "failed" ELSE "partial"

Reason(r) ==
  CASE Outcome(r) = "recorded" -> "Recorded"
    [] Outcome(r) = "ok" -> "Rotated"
    [] Outcome(r) \in {"failed", "partial"} -> "RotationFailed"

Publish(r) ==
  /\ req[r].pc = "publish"
  /\ \E e \in {"none", Reason(r)} :
       req' = [req EXCEPT ![r].pc = "done", ![r].result = Outcome(r), ![r].event = e]
  /\ UNCHANGED <<storeVars, cache, store, late, clock, answered, landed, calm>>

\* The label under which a finished rotation is counted: every error of rotate_inner
\* is "rejected", also RotateError::Status.
Label(r) == IF req[r].result \in {"ok", "partial", "failed"}
            THEN req[r].result ELSE "rejected"

\* The dialog in which a finished rotation is answered.
Heading(r) ==
  CASE req[r].kind # "rotate" \/ req[r].pc # "done" -> "none"
    [] OTHER -> CASE Label(r) = "ok" -> "Key rotated"
                  [] Label(r) \in {"partial", "failed"} -> "Some targets failed"
                  [] Label(r) = "rejected" -> "Nothing was written"

-----------------------------------------------------------------------------
(***************************************************************************)
(* The process: dropped handlers, restarts, the cache and the clock.       *)
(***************************************************************************)
AbandonedWrite(r) == IF Writing(r) THEN {<<r, Target(r)>>} ELSE {}

\* axum drops the future of a handler whose client has disconnected.
Disconnect(r) ==
  /\ req[r].pc \in Running
  /\ req' = [req EXCEPT ![r].pc = "cut"]
  /\ late' = late \cup AbandonedWrite(r)
  /\ calm' = FALSE
  /\ IF upd[r].pc \in {"get", "replace"} THEN Cut(r) ELSE UNCHANGED storeVars
  /\ UNCHANGED <<cache, store, clock, answered, landed>>

Restart ==
  /\ req' = [r \in Actors |-> IF req[r].pc \in Running
                              THEN [req[r] EXCEPT !.pc = "cut"] ELSE req[r]]
  /\ late' = late \cup UNION {AbandonedWrite(r) : r \in Actors}
  /\ calm' = (calm /\ Quiet)
  /\ upd' = [r \in Actors |->
               IF upd[r].pc \in {"get", "replace"}
               THEN [upd[r] EXCEPT !.pc = "cut", !.flying = (upd[r].pc = "replace"),
                                      !.since = 0]
               ELSE upd[r]]
  /\ cache' = None
  /\ UNCHANGED <<obj, log, store, clock, answered, landed>>

\* The watch delivers the resource as it is; until then the cache lags.
Sync == /\ cache' = IF obj.exists THEN obj.spec ELSE None
        /\ cache' # cache
        /\ UNCHANGED <<storeVars, req, store, late, clock, answered, landed, calm>>

Tick == /\ clock < MaxTime
        /\ clock' = clock + 1
        /\ UNCHANGED <<storeVars, req, cache, store, late, answered, landed, calm>>

-----------------------------------------------------------------------------
\* One step of a running handler.
Step(r) ==
  \/ \E e \in Expiries : ProbeOk(r, e)
  \/ ProbeNotSupported(r) \/ ProbeFailed(r) \/ Reject(r)
  \/ WriteOk(r) \/ WriteRefused(r) \/ WriteUnanswered(r)
  \/ Save(r) \/ SaveStep(r) \/ Saved(r) \/ SaveFailed(r) \/ Publish(r)

Next ==
  \/ \E r \in Actors :
       \/ RotateRefused(r)
       \/ \E manual \in Expiries, skip \in BOOLEAN : Rotate(r, manual, skip)
       \/ RecordRefused(r)
       \/ \E at \in 0..MaxTime, manual \in Expiries : Record(r, at, manual)
       \/ Step(r)
       \/ Disconnect(r)
       \/ \E t \in Targets : LandWrite(r, t)
       \/ Land(r) /\ UNCHANGED rotVars
  \/ Environment /\ UNCHANGED rotVars
  \/ Restart \/ Sync \/ Tick

Spec == Init /\ [][Next]_vars

\* Handlers are polled and their requests time out (10s towards OpenBao).
FairSpec == Spec /\ \A r \in Actors : WF_vars(Step(r))

-----------------------------------------------------------------------------
(***************************************************************************)
(* Properties.                                                             *)
(***************************************************************************)

\* A refused submission leaves every target as it was, also when the refusal
\* comes from the provider (rotation.rs: "probe failed; nothing written").
RefusedWroteNothing ==
  \A r \in Actors : req[r].result \in Refusals =>
    /\ \A t \in Targets : <<r, t>> \notin landed \cup late
    /\ upd[r].pc = "idle"

\* The history calls a key rotated only if that very submission reached every
\* target of the spec it worked from.
RotatedMeansWritten ==
  \A i \in 1..Len(log) : log[i].kind = "Rotated" =>
    LET r == log[i].by
    IN  /\ req[r].spec # None /\ req[r].spec.targets # <<>>
        /\ \A t \in RefsOf(req[r].spec) : <<r, t>> \in landed

\* What is acknowledged happened, and so did what an audit event says.  "Key
\* rotated": every target was written and it is recorded.  "Some targets failed":
\* the failure is in the status and no rotation is recorded.  A record that is
\* answered or audited is in the status.  Of the third dialog, "Nothing was
\* written", this says nothing: see NothingWrittenIsSo.
AcknowledgementsAreTrue ==
  \A r \in Actors :
    /\ (Heading(r) = "Key rotated" \/ req[r].event = "Rotated") =>
         /\ upd[r].applied
         /\ \A t \in RefsOf(req[r].spec) : <<r, t>> \in landed
    /\ (req[r].result = "recorded" \/ req[r].event = "Recorded") => upd[r].applied
    /\ req[r].event = "RotationRejected" => \A t \in Targets : <<r, t>> \notin landed
    /\ (Heading(r) = "Some targets failed" \/ req[r].event = "RotationFailed") =>
         /\ upd[r].applied
         /\ \A i \in 1..Len(log) : log[i].by # r
         /\ \E t \in RefsOf(req[r].spec) : ~req[r].ok[t]

\* The newest rotation in the log that wrote targets.
LastRotation ==
  LET ends == {i \in 1..Len(log) : log[i].kind = "Rotated"}
  IN  IF ends = {} THEN None ELSE log[CHOOSE i \in ends : \A j \in ends : j <= i].by

\* With one request at a time, none of them cut off and every save succeeding,
\* the status tells the truth about the stores: each target's entry is the
\* result of its last write, and once all entries are ok the targets hold the
\* key of the newest rotation in the history.
CalmStatusIsTrue ==
  LET entries == {t \in Targets : obj.status.targets[t] # None}
  IN  (/\ calm /\ Quiet /\ obj.exists
       /\ \A r \in Actors : req[r].result # "Status")
      => /\ \A t \in entries : obj.status.targets[t].ok = answered[t]
         /\ (\A t \in entries : obj.status.targets[t].ok) =>
               \A t \in entries : store[t] = LastRotation

\* Every request ends, whatever the provider, the stores and the API server do.
RequestEnds ==
  \A r \in Actors : req[r].pc \in Running ~> req[r].pc \in {"done", "cut"}

-----------------------------------------------------------------------------
(***************************************************************************)
(* What the repository says and the program does not keep.                 *)
(***************************************************************************)

\* deployment.yaml: "writes only happen on admin actions, so there is nothing
\* to coordinate".  Rotations that were all acknowledged and finished leave the
\* targets of the spec with one key.
AcknowledgedRotationsAgree ==
  (/\ Quiet /\ late = {} /\ obj.exists
   /\ \A r \in Actors : req[r].pc = "idle" \/ req[r].result = "ok"
   /\ \A r \in Actors : req[r].result = "ok" => req[r].spec = obj.spec)
  => \A t, u \in RefsOf(obj.spec) : store[t] = store[u]

\* rotate_result.html: a rotation that is answered with an error is headed "Nothing
\* was written", so none of its writes reached a target or still may.
NothingWrittenIsSo ==
  \A r \in Actors : Heading(r) = "Nothing was written" =>
    \A t \in Targets : <<r, t>> \notin landed \cup late
=============================================================================
