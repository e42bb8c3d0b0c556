----------------------------- MODULE StatusStore -----------------------------
(***************************************************************************)
(* KubeRepository (k8s.rs): the ApiKey resource on the API server, the     *)
(* callers of update_status, which read it, mutate their copy and replace  *)
(* the status under the resourceVersion they read, and the other writers   *)
(* of the same resource: the controller's merge patch of the Valid         *)
(* condition, which carries no resourceVersion, and whoever owns the spec. *)
(*                                                                         *)
(* The API server itself is not part of the repository; it is modelled     *)
(* from how k8s.rs uses it: reads are current, a write raises the          *)
(* resourceVersion, a replace with an old one is refused with 409.         *)
(***************************************************************************)
EXTENDS KeyStatus, FiniteSets

CONSTANTS Mutations,            \* mutations the callers make in StoreNext
          Conditions,           \* conditions the controller patches in StoreNext
          Specs,                \* what a resource's spec can be
          MAX_STATUS_ATTEMPTS,  \* 3 in the code
          MaxVersion            \* bound: no spec edit or patch beyond this version

ASSUME MutationsAssumption == Mutations \subseteq Mutation
ASSUME ConditionsAssumption == Conditions \subseteq Condition
ASSUME AttemptsAssumption == MAX_STATUS_ATTEMPTS \in Nat \ {0}
ASSUME MaxVersionAssumption == MaxVersion \in Nat

VARIABLES obj,    \* the resource on the API server
          upd,    \* per caller: where its update_status is
          log     \* history variable: rotations applied since the resource was created

storeVars == <<obj, upd, log>>

Object == [exists : BOOLEAN, version : Nat, gen : Nat, spec : Specs, status : Status]

UpdatePhases == {"idle", "get", "replace", "ok", "error", "cut"}

\* base is the status read under version; flying says that a replace was sent
\* whose answer the caller no longer waits for.  applied and since, the version of
\* the resource when a running call began, are history variables.  No more rounds
\* than MAX_STATUS_ATTEMPTS, however busy the resource is.
Update == [pc : UpdatePhases, attempt : 0..MAX_STATUS_ATTEMPTS,
           m : Mutation \cup {None}, since : Nat,
           version : Nat, base : Status, flying : BOOLEAN, applied : BOOLEAN,
           reason : {"none", "NotFound", "Conflict", "Api"}]

StoreTypeOK == /\ obj \in Object
               /\ upd \in [Actors -> Update]
               /\ log \in Seq(HistoryEntry)

IdleUpdate == [pc |-> "idle", attempt |-> 0, m |-> None, since |-> 0,
               version |-> 0, base |-> DefaultStatus, flying |-> FALSE, applied |-> FALSE,
               reason |-> "none"]

StoreInit == /\ \E s \in Specs : obj = [exists |-> TRUE, version |-> 1, gen |-> 1,
                                        spec |-> s, status |-> DefaultStatus]
             /\ upd = [c \in Actors |-> IdleUpdate]
             /\ log = <<>>

-----------------------------------------------------------------------------
(***************************************************************************)
(* The API server applies caller c's replace.                              *)
(***************************************************************************)
VersionMatches(c) == obj.exists /\ upd[c].version = obj.version

\* The rotation a mutation records, if it records one.
Records(m) == m.kind = "Recorded" \/ Completed(m.ok)

EntryOf(m) == [at |-> m.at, by |-> m.by, kind |-> m.kind,
               expires |-> EffectiveExpiry(m.probe, m.manual).at]

Replace(c) ==
  /\ VersionMatches(c)
  /\ obj' = [obj EXCEPT !.status = Apply(upd[c].m, upd[c].base),
                        !.version = @ + 1]
  /\ log' = IF Records(upd[c].m) THEN Append(log, EntryOf(upd[c].m)) ELSE log

(***************************************************************************)
(* update_status(name, mutate), one action per await.                      *)
(***************************************************************************)
\* Faulty variant: the attempts are counted from two.
CallFromTwo(c, m) ==
  /\ upd[c].pc = "idle"
  /\ m.by = c
  /\ upd' = [upd EXCEPT ![c].pc = "get", ![c].attempt = 2, ![c].m = m,
                        ![c].since = obj.version]
  /\ UNCHANGED <<obj, log>>

Call(c, m) ==
  /\ upd[c].pc = "idle"
  /\ m.by = c
  /\ upd' = [upd EXCEPT ![c].pc = "get", ![c].attempt = 1, ![c].m = m,
                        ![c].since = obj.version]
  /\ UNCHANGED <<obj, log>>

Fail(c, why) ==
  /\ upd' = [upd EXCEPT ![c].pc = "error", ![c].reason = why, ![c].since = 0]
  /\ UNCHANGED <<obj, log>>

\* Faulty variant: a retry sends the status it read first under the new version.
GetVersionOnly(c) ==
  /\ upd[c].pc = "get"
  /\ obj.exists
  /\ upd' = [upd EXCEPT ![c].pc = "replace", ![c].version = obj.version,
                        ![c].base = IF upd[c].attempt = 1 THEN obj.status ELSE @]
  /\ UNCHANGED <<obj, log>>

Get(c) ==
  /\ upd[c].pc = "get"
  /\ obj.exists
  /\ upd' = [upd EXCEPT ![c].pc = "replace", ![c].version = obj.version,
                        ![c].base = obj.status]
  /\ UNCHANGED <<obj, log>>

GetNotFound(c) == upd[c].pc = "get" /\ ~obj.exists /\ Fail(c, "NotFound")

GetError(c) == upd[c].pc = "get" /\ Fail(c, "Api")

ReplaceOk(c) ==
  /\ upd[c].pc = "replace"
  /\ Replace(c)
  /\ upd' = [upd EXCEPT ![c].pc = "ok", ![c].applied = TRUE, ![c].since = 0]

\* Faulty variant: when the attempts are used up the caller is told Ok.
ReplaceConflictOk(c) ==
  /\ upd[c].pc = "replace"
  /\ obj.exists /\ ~VersionMatches(c)
  /\ upd' = IF upd[c].attempt < MAX_STATUS_ATTEMPTS
            THEN [upd EXCEPT ![c].pc = "get", ![c].attempt = @ + 1]
            ELSE [upd EXCEPT ![c].pc = "ok"]
  /\ UNCHANGED <<obj, log>>

\* Faulty variant: a conflict is retried without end.
ReplaceConflictForever(c) ==
  /\ upd[c].pc = "replace"
  /\ obj.exists /\ ~VersionMatches(c)
  /\ upd' = [upd EXCEPT ![c].pc = "get", ![c].attempt = @ + 1]
  /\ UNCHANGED <<obj, log>>

\* 409: read again, MAX_STATUS_ATTEMPTS times in all.
ReplaceConflict(c) ==
  /\ upd[c].pc = "replace"
  /\ obj.exists /\ ~VersionMatches(c)
  /\ IF upd[c].attempt < MAX_STATUS_ATTEMPTS
     THEN /\ upd' = [upd EXCEPT ![c].pc = "get", ![c].attempt = @ + 1]
          /\ UNCHANGED <<obj, log>>
     ELSE Fail(c, "Conflict")

\* 404 on the replace is an error like any other.
ReplaceGone(c) == upd[c].pc = "replace" /\ ~obj.exists /\ Fail(c, "Api")

\* Faulty variant: an unanswered replace is retried like a conflict.
ReplaceAgain(c) ==
  /\ upd[c].pc = "replace"
  /\ upd' = [upd EXCEPT ![c].pc = "get", ![c].flying = TRUE]
  /\ UNCHANGED <<obj, log>>

\* No answer: a timeout or a broken connection.  The request may still land.
ReplaceError(c) ==
  /\ upd[c].pc = "replace"
  /\ upd' = [upd EXCEPT ![c].pc = "error", ![c].reason = "Api", ![c].flying = TRUE,
                        ![c].since = 0]
  /\ UNCHANGED <<obj, log>>

\* The caller's future is dropped: the browser disconnected, or the process died.
Cut(c) ==
  /\ upd[c].pc \in {"get", "replace"}
  /\ upd' = [upd EXCEPT ![c].pc = "cut", ![c].flying = (upd[c].pc = "replace"),
                        ![c].since = 0]
  /\ UNCHANGED <<obj, log>>

\* A replace that nobody waits for any more is applied after all.
Land(c) ==
  /\ upd[c].flying
  /\ Replace(c)
  /\ upd' = [upd EXCEPT ![c].flying = FALSE, ![c].applied = TRUE]

-----------------------------------------------------------------------------
(***************************************************************************)
(* The other writers of the resource.                                      *)
(***************************************************************************)

\* Faulty variant: the controller replaces the whole status.
PatchEverything(v) ==
  /\ obj.exists /\ obj.version < MaxVersion
  /\ obj' = [obj EXCEPT !.status = [DefaultStatus EXCEPT !.valid = v], !.version = @ + 1]
  /\ UNCHANGED <<upd, log>>

\* The controller's merge patch; it has no effect when nothing changes.
Patch(v) ==
  /\ obj.exists /\ obj.version < MaxVersion
  /\ obj.status.valid # v
  /\ obj' = [obj EXCEPT !.status.valid = v, !.version = @ + 1]
  /\ UNCHANGED <<upd, log>>

EditSpec(s) ==
  /\ obj.exists /\ obj.version < MaxVersion
  /\ obj.spec # s
  /\ obj' = [obj EXCEPT !.spec = s, !.gen = @ + 1, !.version = @ + 1]
  /\ UNCHANGED <<upd, log>>

Delete ==
  /\ obj.exists /\ obj.version < MaxVersion
  /\ obj' = [obj EXCEPT !.exists = FALSE, !.version = @ + 1]
  /\ log' = <<>>
  /\ UNCHANGED upd

Create(s) ==
  /\ ~obj.exists
  /\ obj' = [exists |-> TRUE, version |-> obj.version + 1, gen |-> 1, spec |-> s,
             status |-> DefaultStatus]
  /\ UNCHANGED <<upd, log>>

-----------------------------------------------------------------------------
\* One step of a running update_status.
UpdateStep(c) ==
  \/ Get(c) \/ GetNotFound(c) \/ GetError(c)
  \/ ReplaceOk(c) \/ ReplaceConflict(c) \/ ReplaceGone(c) \/ ReplaceError(c)

Environment ==
  \/ \E v \in Conditions : Patch(v)
  \/ \E s \in Specs : EditSpec(s) \/ Create(s)
  \/ Delete

StoreNext ==
  \/ \E c \in Actors : \/ \E m \in Mutations : Call(c, m)
                       \/ UpdateStep(c)
                       \/ Cut(c)
                       \/ Land(c)
  \/ Environment

StoreSpec == StoreInit /\ [][StoreNext]_storeVars

-----------------------------------------------------------------------------
(***************************************************************************)
(* Properties.                                                             *)
(***************************************************************************)

\* No update is lost and none is invented: the stored history is exactly the
\* last HISTORY_LIMIT rotations that were applied, latest first, whatever the
\* other callers and the controller wrote between a caller's read and its
\* replace (k8s.rs: "makes the replace fail with 409 instead of being lost").
HistoryIsLog ==
  LET h == obj.status.history
  IN  obj.exists =>
        /\ Len(h) = (IF Len(log) < HISTORY_LIMIT THEN Len(log) ELSE HISTORY_LIMIT)
        /\ \A i \in 1..Len(h) : h[i] = log[Len(log) + 1 - i]

\* The summary in the status always describes the newest entry of the history, also
\* once the history is full and an entry is dropped (apply_rotation); the expiry
\* that counts is one of the two the entry was made from.
HeadAgrees ==
  LET s == obj.status
  IN  obj.exists =>
        IF s.history = <<>> THEN s.lastRotated = None /\ s.expires = None
        ELSE /\ s.lastRotated = s.history[1].at
             /\ s.rotatedBy = s.history[1].by
             /\ s.expires = s.history[1].expires
             /\ EffectiveExpiry(s.probe, s.manual) = [at |-> s.expires, source |-> s.source]

\* A request is never recorded twice, however its replace ended: a conflict is
\* retried, an unanswered replace, which may still land, is not.
RecordedOnce ==
  \A i, j \in 1..Len(log) : log[i].by = log[j].by => i = j

\* An update gives up with Conflict only if since its call at least
\* MAX_STATUS_ATTEMPTS writes of the resource got in between, none of them its own:
\* each round is spent on a write of somebody else.
ConflictMeansInterference ==
  [][\A c \in Actors :
       upd'[c].reason = "Conflict" /\ upd[c].reason # "Conflict" =>
         /\ obj.version - upd[c].since >= MAX_STATUS_ATTEMPTS
         /\ ~upd[c].applied]_storeVars

\* The two writers of the status keep to their parts: a step that changes the
\* Valid condition of a living resource changes nothing else of its status, so
\* a replace never brings back a condition it read earlier, and the
\* controller's patch never touches what a rotation recorded.
WritersKeepApart ==
  [][obj.exists /\ obj'.exists /\ obj'.status.valid # obj.status.valid
       => obj'.status = [obj.status EXCEPT !.valid = obj'.status.valid]]_storeVars

\* KubeRepository keeps the promise of Repository::update_status.
AbstractCall(c) ==
  [phase |-> CASE upd[c].pc = "idle" -> "idle"
               [] upd[c].pc \in {"get", "replace"} -> "open"
               [] upd[c].pc = "ok" -> "ok"
               [] upd[c].pc \in {"error", "cut"} -> "failed",
   m |-> upd[c].m,
   applied |-> upd[c].applied]

Atomic == INSTANCE AtomicStatus
            WITH exists <- obj.exists, status <- obj.status,
                 call <- [c \in Actors |-> AbstractCall(c)]

\* Every behaviour is one of the atomic specification: a mutation is applied
\* in one step to the status of that moment, at most once, and before Ok.
AtomicSpec == Atomic!Spec
=============================================================================
