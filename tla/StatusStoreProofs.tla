-------------------------- MODULE StatusStoreProofs --------------------------
(***************************************************************************)
(* KubeRepository loses no update: proofs for any number of callers, any   *)
(* history limit, any number of attempts and any mutations.                *)
(*                                                                         *)
(* The inductive invariant adds to the properties what makes optimistic    *)
(* concurrency work: a caller that still holds the current resourceVersion *)
(* holds the current status, so replacing it by the mutated copy is the    *)
(* same as mutating it in place.                                           *)
(***************************************************************************)
EXTENDS StatusStore, TLAPS

-----------------------------------------------------------------------------
(***************************************************************************)
(* What the two mutations of a status return and preserve.                 *)
(***************************************************************************)

\* Inserting an entry leaves a history: one longer, or at its limit.
LEMMA PushHistoryType ==
  ASSUME NEW h \in Seq(HistoryEntry), NEW e \in HistoryEntry
  PROVE  /\ PushHistory(h, e) \in Seq(HistoryEntry)
         /\ Len(PushHistory(h, e)) =
              IF Len(h) < HISTORY_LIMIT THEN Len(h) + 1 ELSE HISTORY_LIMIT
         /\ \A i \in 1..Len(PushHistory(h, e)) :
              PushHistory(h, e)[i] = IF i = 1 THEN e ELSE h[i - 1]
<1> DEFINE n == IF Len(h) < HISTORY_LIMIT THEN Len(h) + 1 ELSE HISTORY_LIMIT
           p == [i \in 1..n |-> IF i = 1 THEN e ELSE h[i - 1]]
<1>1. n \in Nat /\ n - 1 <= Len(h)
  BY HistoryLimitAssumption
<1>2. \A i \in 1..n : p[i] \in HistoryEntry
  <2> TAKE i \in 1..n
  <2>1. CASE i = 1
    BY <2>1
  <2>2. CASE i # 1
    <3>1. i - 1 \in 1..Len(h)
      BY <1>1, <2>2
    <3> QED
      BY <3>1, <2>2
  <2> QED
    BY <2>1, <2>2
<1>3. p \in Seq(HistoryEntry) /\ Len(p) = n
  BY <1>1, <1>2
<1>4. PushHistory(h, e) = p
  BY DEF PushHistory
<1> QED
  BY <1>1, <1>3, <1>4

\* The effective expiry is an instant or none, and its source is named.
LEMMA EffectiveExpiryType ==
  ASSUME NEW probe \in ProbeStatus \cup {None}, NEW manual \in MaybeInstant
  PROVE  /\ EffectiveExpiry(probe, manual).at \in MaybeInstant
         /\ EffectiveExpiry(probe, manual).source \in {"Probe", "Manual", "None"}
         /\ EffectiveExpiry(probe, manual) =
              [at |-> EffectiveExpiry(probe, manual).at,
               source |-> EffectiveExpiry(probe, manual).source]
BY DEF EffectiveExpiry, ProbeStatus, MaybeInstant, Instant

\* apply_rotation: the new entry is first, its facts are the summary, and the
\* targets and the condition are not touched.
LEMMA ApplyRotationEffect ==
  ASSUME NEW s \in Status, NEW m \in Mutation
  PROVE  LET r == ApplyRotation(s, m)
             e == EffectiveExpiry(m.probe, m.manual)
         IN  /\ r \in Status
             /\ r.history = PushHistory(s.history,
                              [at |-> m.at, by |-> m.by, kind |-> m.kind, expires |-> e.at])
             /\ r.targets = s.targets /\ r.valid = s.valid
             /\ r.lastRotated = m.at /\ r.rotatedBy = m.by
             /\ r.expires = e.at /\ r.source = e.source
             /\ r.probe = m.probe /\ r.manual = m.manual
<1> DEFINE e == EffectiveExpiry(m.probe, m.manual)
           entry == [at |-> m.at, by |-> m.by, kind |-> m.kind, expires |-> e.at]
<1>1. m.at \in Instant /\ m.by \in Actors /\ m.kind \in {"Rotated", "Recorded"}
      /\ m.manual \in MaybeInstant /\ m.probe \in ProbeStatus \cup {None}
  BY DEF Mutation
<1>2. e.at \in MaybeInstant /\ e.source \in {"Probe", "Manual", "None"}
  BY <1>1, EffectiveExpiryType
<1>3. entry \in HistoryEntry
  BY <1>1, <1>2 DEF HistoryEntry
<1>4. s.history \in Seq(HistoryEntry)
  BY DEF Status
<1>5. PushHistory(s.history, entry) \in Seq(HistoryEntry)
  BY <1>3, <1>4, PushHistoryType
<1> QED
  BY <1>1, <1>2, <1>5, ZenonT(40) DEF ApplyRotation, Status, MaybeInstant

\* The retain and the upsert change the entries of targets and nothing else.
LEMMA MergeTargetsEffect ==
  ASSUME NEW s \in Status, NEW m \in Mutation
  PROVE  LET r == MergeTargets(s, m)
         IN  /\ r \in Status
             /\ r.history = s.history /\ r.valid = s.valid
             /\ r.lastRotated = s.lastRotated /\ r.rotatedBy = s.rotatedBy
             /\ r.expires = s.expires /\ r.source = s.source
             /\ r.probe = s.probe /\ r.manual = s.manual
<1>1. m.at \in Instant /\ m.ok \in Outcomes
  BY DEF Mutation
<1>2. \A t \in DOMAIN m.ok : m.ok[t] \in BOOLEAN
  BY <1>1 DEF Outcomes
<1>3. UpsertTargets(RetainTargets(s.targets, DOMAIN m.ok), m.ok, m.at)
        \in [Targets -> TargetStatus \cup {None}]
  BY <1>1, <1>2 DEF UpsertTargets, RetainTargets, TargetStatus, Status
<1> QED
  BY <1>3 DEF MergeTargets, Status

\* A mutation changes the rotation part of a status only: it pushes its entry
\* if it records a rotation and leaves history and summary alone if not.
LEMMA ApplyEffect ==
  ASSUME NEW s \in Status, NEW m \in Mutation
  PROVE  LET r == Apply(m, s)
         IN  /\ r \in Status
             /\ r.valid = s.valid
             /\ EntryOf(m) \in HistoryEntry
             /\ EntryOf(m).by = m.by
             /\ Records(m) =>
                  /\ r.history = PushHistory(s.history, EntryOf(m))
                  /\ r.lastRotated = m.at /\ r.rotatedBy = m.by
                  /\ EntryOf(m).at = m.at
                  /\ r.expires = EntryOf(m).expires
                  /\ EffectiveExpiry(r.probe, r.manual) =
                       [at |-> r.expires, source |-> r.source]
             /\ ~Records(m) =>
                  /\ r.history = s.history
                  /\ r.lastRotated = s.lastRotated /\ r.rotatedBy = s.rotatedBy
                  /\ r.expires = s.expires /\ r.source = s.source
                  /\ r.probe = s.probe /\ r.manual = s.manual
<1>1. m.kind \in {"Rotated", "Recorded"}
  BY DEF Mutation
<1>2. m.at \in Instant /\ m.by \in Actors
      /\ m.manual \in MaybeInstant /\ m.probe \in ProbeStatus \cup {None}
  BY DEF Mutation
<1> DEFINE e == EffectiveExpiry(m.probe, m.manual)
<1>3. e.at \in MaybeInstant /\ e = [at |-> e.at, source |-> e.source]
  BY <1>2, EffectiveExpiryType
<1>4. /\ EntryOf(m) = [at |-> m.at, by |-> m.by, kind |-> m.kind, expires |-> e.at]
      /\ EntryOf(m) \in HistoryEntry
  BY <1>1, <1>2, <1>3 DEF EntryOf, HistoryEntry
<1>5. CASE m.kind = "Recorded"
  <2>1. Apply(m, s) = ApplyRotation(s, m)
    BY <1>5 DEF Apply
  <2>2. Records(m)
    BY <1>5 DEF Records
  <2> QED
    BY <1>3, <1>4, <2>1, <2>2, ApplyRotationEffect
<1>6. CASE m.kind = "Rotated" /\ Completed(m.ok)
  <2>1. Apply(m, s) = ApplyRotation(MergeTargets(s, m), m)
    BY <1>6 DEF Apply
  <2>2. Records(m)
    BY <1>6 DEF Records
  <2>3. /\ MergeTargets(s, m) \in Status
        /\ MergeTargets(s, m).history = s.history
        /\ MergeTargets(s, m).valid = s.valid
    BY MergeTargetsEffect
  <2> QED
    BY <1>3, <1>4, <2>1, <2>2, <2>3, ApplyRotationEffect
<1>7. CASE m.kind = "Rotated" /\ ~Completed(m.ok)
  <2>1. Apply(m, s) = MergeTargets(s, m)
    BY <1>7 DEF Apply
  <2>2. ~Records(m)
    BY <1>7 DEF Records
  <2> QED
    BY <1>4, <2>1, <2>2, MergeTargetsEffect
<1> QED
  BY <1>1, <1>5, <1>6, <1>7

-----------------------------------------------------------------------------
(***************************************************************************)
(* The inductive invariant.                                                *)
(***************************************************************************)

\* Where a caller is, and what that says of its mutation.
CallOK(c, u) ==
  /\ u.pc # "idle" => u.m \in Mutation /\ u.m.by = c
  /\ u.pc \in {"idle", "get", "replace"} => ~u.applied /\ ~u.flying
  /\ u.pc = "ok" => u.applied /\ ~u.flying
  /\ u.flying => ~u.applied

\* A version names one state of the resource.
VersionOK(u, o) ==
  u.pc = "replace" \/ u.flying =>
    /\ u.version <= o.version
    /\ u.version = o.version => o.exists /\ u.base = o.status

\* A caller in its n-th attempt has seen n - 1 writes of others since its call.
AttemptOK(u, o) ==
  /\ u.pc \in {"get", "replace"} => u.attempt \in 1..MAX_STATUS_ATTEMPTS
  /\ u.pc = "get" => u.since + u.attempt <= o.version + 1
  /\ u.pc = "replace" => u.since + u.attempt <= u.version + 1

CallerOK(c, u, o) == CallOK(c, u) /\ VersionOK(u, o) /\ AttemptOK(u, o)

CallerInv == \A c \in Actors : CallerOK(c, upd[c], obj)

\* What is logged was applied, and nothing is logged of a deleted resource.
LogInv == /\ ~obj.exists => log = <<>>
          /\ \A i \in 1..Len(log) : log[i].by \in Actors /\ upd[log[i].by].applied

StoreInv == /\ StoreTypeOK
            /\ CallerInv
            /\ obj.version >= 1
            /\ LogInv
            /\ HistoryIsLog
            /\ HeadAgrees
            /\ RecordedOnce

\* The invariant gives the properties the runs check.
LEMMA StoreInvImplies ==
  StoreInv => StoreTypeOK /\ HistoryIsLog /\ HeadAgrees /\ RecordedOnce
BY DEF StoreInv

\* The numbers of the attempts.
LEMMA AttemptNumbers ==
  /\ 0 \in 0..MAX_STATUS_ATTEMPTS /\ 1 \in 0..MAX_STATUS_ATTEMPTS
  /\ \A a \in 0..MAX_STATUS_ATTEMPTS :
       a < MAX_STATUS_ATTEMPTS => a + 1 \in 0..MAX_STATUS_ATTEMPTS
BY AttemptsAssumption

LEMMA DefaultStatusType == DefaultStatus \in Status /\ DefaultStatus.history = <<>>
                           /\ DefaultStatus.lastRotated = None
                           /\ DefaultStatus.expires = None
BY DEF DefaultStatus, Status, MaybeInstant

\* The invariant holds initially.
LEMMA StoreInitInv == ASSUME StoreInit PROVE StoreInv
<1>1. /\ obj \in Object /\ obj.version = 1 /\ obj.exists
      /\ obj.status = DefaultStatus
  BY DefaultStatusType DEF StoreInit, Object
<1>2. /\ IdleUpdate \in Update
      /\ upd \in [Actors -> Update]
      /\ \A c \in Actors : upd[c] = IdleUpdate
  BY DefaultStatusType, AttemptNumbers DEF StoreInit, Update, UpdatePhases, IdleUpdate
<1>3. log = <<>> /\ Len(log) = 0
  BY DEF StoreInit
<1>4. StoreTypeOK
  BY <1>1, <1>2, <1>3 DEF StoreTypeOK
<1>5. CallerInv
  <2>1. ASSUME NEW c \in Actors
        PROVE  /\ upd[c].pc = "idle" /\ ~upd[c].applied /\ ~upd[c].flying
               /\ upd[c].reason = "none"
    BY <1>2 DEF IdleUpdate
  <2> QED
    BY <2>1 DEF CallerInv, CallerOK, CallOK, VersionOK, AttemptOK
<1>6. LogInv /\ RecordedOnce
  BY <1>1, <1>3 DEF LogInv, RecordedOnce
<1>7. HistoryIsLog /\ HeadAgrees
  BY <1>1, <1>3, DefaultStatusType, HistoryLimitAssumption DEF HistoryIsLog, HeadAgrees
<1> QED
  BY <1>1, <1>4, <1>5, <1>6, <1>7 DEF StoreInv

\* A step of one caller that leaves the resource alone keeps the invariant if
\* the caller's new state is as it should be.
LEMMA LocalStep ==
  ASSUME StoreInv, NEW c \in Actors, NEW u \in Update,
         upd' = [upd EXCEPT ![c] = u], UNCHANGED <<obj, log>>,
         CallerOK(c, u, obj), u.applied = upd[c].applied
  PROVE  StoreInv'
<1>1. /\ upd \in [Actors -> Update] /\ upd' \in [Actors -> Update]
      /\ upd'[c] = u
      /\ \A d \in Actors : d # c => upd'[d] = upd[d]
      /\ \A d \in Actors : upd'[d].applied = upd[d].applied
  BY DEF StoreInv, StoreTypeOK
<1>2. StoreTypeOK'
  BY <1>1 DEF StoreInv, StoreTypeOK
<1>3. CallerInv'
  BY <1>1 DEF StoreInv, CallerInv, CallerOK, CallOK, VersionOK, AttemptOK
<1>4. LogInv'
  BY <1>1 DEF StoreInv, LogInv
<1>5. HistoryIsLog' /\ HeadAgrees' /\ RecordedOnce' /\ obj'.version >= 1
  BY DEF StoreInv, HistoryIsLog, HeadAgrees, RecordedOnce
<1> QED
  BY <1>2, <1>3, <1>4, <1>5 DEF StoreInv

\* The steps of update_status that do not write.
LEMMA CallKeepsInv ==
  ASSUME StoreInv, NEW c \in Actors, NEW m \in Mutation, Call(c, m)
  PROVE  StoreInv'
<1> DEFINE u == [upd[c] EXCEPT !.pc = "get", !.attempt = 1, !.m = m,
                               !.since = obj.version]
<1>1. upd[c] \in Update /\ upd[c].pc = "idle" /\ CallerOK(c, upd[c], obj)
      /\ obj.version >= 1 /\ obj.version \in Nat
  BY DEF StoreInv, StoreTypeOK, CallerInv, Call, Object
<1>2. u \in Update
  BY <1>1, AttemptNumbers DEF Update, UpdatePhases
<1>3. upd' = [upd EXCEPT ![c] = u] /\ UNCHANGED <<obj, log>> /\ m.by = c
  BY DEF Call
<1>4. /\ u.pc = "get" /\ u.attempt = 1 /\ u.m = m /\ u.applied = upd[c].applied
      /\ u.flying = upd[c].flying /\ u.since = obj.version
  BY <1>1 DEF Update
<1>5. CallerOK(c, u, obj)
  BY <1>1, <1>3, <1>4, AttemptsAssumption DEF CallerOK, CallOK, VersionOK, AttemptOK
<1> QED
  BY <1>2, <1>3, <1>4, <1>5, LocalStep

LEMMA FailKeepsInv ==
  ASSUME StoreInv, NEW c \in Actors, NEW why \in {"NotFound", "Conflict", "Api"},
         upd[c].pc \in {"get", "replace"}, Fail(c, why)
  PROVE  StoreInv'
<1> DEFINE u == [upd[c] EXCEPT !.pc = "error", !.reason = why, !.since = 0]
<1>1. upd[c] \in Update /\ CallerOK(c, upd[c], obj)
  BY DEF StoreInv, StoreTypeOK, CallerInv
<1>2. u \in Update
  BY <1>1 DEF Update, UpdatePhases
<1>3. upd' = [upd EXCEPT ![c] = u] /\ UNCHANGED <<obj, log>>
  BY DEF Fail
<1>4. /\ u.pc = "error" /\ u.m = upd[c].m /\ u.applied = upd[c].applied
      /\ u.flying = upd[c].flying
  BY <1>1 DEF Update
<1>5. CallerOK(c, u, obj)
  BY <1>1, <1>4 DEF CallerOK, CallOK, VersionOK, AttemptOK
<1> QED
  BY <1>2, <1>3, <1>4, <1>5, LocalStep

LEMMA GetKeepsInv ==
  ASSUME StoreInv, NEW c \in Actors, Get(c)
  PROVE  StoreInv'
<1> DEFINE u == [upd[c] EXCEPT !.pc = "replace", !.version = obj.version,
                               !.base = obj.status]
<1>1. upd[c] \in Update /\ upd[c].pc = "get" /\ CallerOK(c, upd[c], obj)
      /\ obj \in Object /\ obj.exists
  BY DEF StoreInv, StoreTypeOK, CallerInv, Get
<1>2. u \in Update
  BY <1>1 DEF Update, UpdatePhases, Object
<1>3. upd' = [upd EXCEPT ![c] = u] /\ UNCHANGED <<obj, log>>
  BY DEF Get
<1>4. /\ u.pc = "replace" /\ u.m = upd[c].m /\ u.applied = upd[c].applied
      /\ u.flying = upd[c].flying /\ u.since = upd[c].since
      /\ u.attempt = upd[c].attempt /\ u.version = obj.version /\ u.base = obj.status
  BY <1>1 DEF Update
<1>5. CallerOK(c, u, obj)
  BY <1>1, <1>4 DEF CallerOK, CallOK, VersionOK, AttemptOK, Object
<1> QED
  BY <1>2, <1>3, <1>4, <1>5, LocalStep

\* A replace whose version is out of date: every attempt so far was spent on a
\* write of somebody else.
LEMMA SpentOnOthers ==
  ASSUME NEW c, NEW u \in Update, NEW o \in Object, CallerOK(c, u, o),
         u.pc = "replace", u.version # o.version
  PROVE  /\ u.since + u.attempt <= o.version
         /\ u.attempt \in 1..MAX_STATUS_ATTEMPTS
<1>1. /\ u.version \in Nat /\ o.version \in Nat /\ u.since \in Nat
      /\ u.attempt \in 0..MAX_STATUS_ATTEMPTS /\ MAX_STATUS_ATTEMPTS \in Nat
  BY AttemptsAssumption DEF Update, Object
<1>2. /\ u.version <= o.version /\ u.since + u.attempt <= u.version + 1
      /\ u.attempt \in 1..MAX_STATUS_ATTEMPTS
  BY DEF CallerOK, VersionOK, AttemptOK
<1> QED
  BY <1>1, <1>2

LEMMA ReplaceConflictKeepsInv ==
  ASSUME StoreInv, NEW c \in Actors, ReplaceConflict(c)
  PROVE  StoreInv'
<1> DEFINE u == [upd[c] EXCEPT !.pc = "get", !.attempt = @ + 1]
<1>1. /\ upd[c] \in Update /\ upd[c].pc = "replace" /\ CallerOK(c, upd[c], obj)
      /\ obj \in Object /\ obj.exists /\ upd[c].version # obj.version
  BY DEF StoreInv, StoreTypeOK, CallerInv, ReplaceConflict, VersionMatches
<1>2. /\ upd[c].since + upd[c].attempt <= obj.version
      /\ upd[c].attempt \in 1..MAX_STATUS_ATTEMPTS /\ upd[c].since \in Nat
  BY <1>1, SpentOnOthers DEF CallerOK, Update
<1>3. CASE upd[c].attempt < MAX_STATUS_ATTEMPTS
  <2>1. upd' = [upd EXCEPT ![c] = u] /\ UNCHANGED <<obj, log>>
    BY <1>3 DEF ReplaceConflict
  <2>2. u \in Update
    <3>1. upd[c].attempt + 1 \in 0..MAX_STATUS_ATTEMPTS
      BY <1>1, <1>3, AttemptNumbers DEF Update
    <3> QED
      BY <1>1, <3>1 DEF Update, UpdatePhases
  <2>3. /\ u.pc = "get" /\ u.m = upd[c].m /\ u.applied = upd[c].applied
        /\ u.flying = upd[c].flying /\ u.since = upd[c].since
        /\ u.attempt = upd[c].attempt + 1
    BY <1>1 DEF Update
  <2>4. CallerOK(c, u, obj)
    BY <1>1, <1>2, <1>3, <2>3, AttemptsAssumption
       DEF CallerOK, CallOK, VersionOK, AttemptOK, Object, Update
  <2> QED
    BY <2>1, <2>2, <2>3, <2>4, LocalStep
<1>4. CASE ~(upd[c].attempt < MAX_STATUS_ATTEMPTS)
  <2>1. Fail(c, "Conflict")
    BY <1>4 DEF ReplaceConflict
  <2> QED
    BY <1>1, <2>1, FailKeepsInv
<1> QED
  BY <1>3, <1>4

\* The caller is gone, or waits no longer; its replace may be under way.
LEMMA ReplaceErrorKeepsInv ==
  ASSUME StoreInv, NEW c \in Actors, ReplaceError(c)
  PROVE  StoreInv'
<1> DEFINE u == [upd[c] EXCEPT !.pc = "error", !.reason = "Api", !.flying = TRUE,
                               !.since = 0]
<1>1. upd[c] \in Update /\ upd[c].pc = "replace" /\ CallerOK(c, upd[c], obj)
  BY DEF StoreInv, StoreTypeOK, CallerInv, ReplaceError
<1>2. u \in Update
  BY <1>1 DEF Update, UpdatePhases
<1>3. upd' = [upd EXCEPT ![c] = u] /\ UNCHANGED <<obj, log>>
  BY DEF ReplaceError
<1>4. /\ u.pc = "error" /\ u.m = upd[c].m /\ u.applied = upd[c].applied
      /\ u.version = upd[c].version /\ u.base = upd[c].base
  BY <1>1 DEF Update
<1>5. CallerOK(c, u, obj)
  BY <1>1, <1>4 DEF CallerOK, CallOK, VersionOK, AttemptOK
<1> QED
  BY <1>2, <1>3, <1>4, <1>5, LocalStep

LEMMA CutKeepsInv ==
  ASSUME StoreInv, NEW c \in Actors, Cut(c)
  PROVE  StoreInv'
<1> DEFINE u == [upd[c] EXCEPT !.pc = "cut", !.flying = (upd[c].pc = "replace"),
                               !.since = 0]
<1>1. /\ upd[c] \in Update /\ upd[c].pc \in {"get", "replace"}
      /\ CallerOK(c, upd[c], obj)
  BY DEF StoreInv, StoreTypeOK, CallerInv, Cut
<1>2. u \in Update
  BY <1>1 DEF Update, UpdatePhases
<1>3. upd' = [upd EXCEPT ![c] = u] /\ UNCHANGED <<obj, log>>
  BY DEF Cut
<1>4. /\ u.pc = "cut" /\ u.m = upd[c].m /\ u.applied = upd[c].applied
      /\ u.version = upd[c].version
      /\ u.base = upd[c].base /\ (u.flying => upd[c].pc = "replace")
  BY <1>1 DEF Update
<1>5. CallerOK(c, u, obj)
  BY <1>1, <1>4 DEF CallerOK, CallOK, VersionOK, AttemptOK
<1> QED
  BY <1>2, <1>3, <1>4, <1>5, LocalStep

-----------------------------------------------------------------------------
\* The heart of it: a replace whose version is current mutates the status in
\* place, appends to the log exactly what it pushes on the history, and makes
\* every other version that is still held out of date.
LEMMA ReplaceKeepsInv ==
  ASSUME StoreInv, NEW c \in Actors, NEW u \in Update,
         Replace(c), upd[c].pc = "replace" \/ upd[c].flying,
         upd' = [upd EXCEPT ![c] = u],
         u.applied, ~u.flying, u.pc \in {"ok", "error", "cut"},
         u.m = upd[c].m
  PROVE  StoreInv'
<1> DEFINE m == upd[c].m
           e == EntryOf(m)
           h == obj.status.history
           r == Apply(m, obj.status)
<1>1. /\ obj \in Object /\ obj.version >= 1 /\ upd \in [Actors -> Update]
      /\ log \in Seq(HistoryEntry)
      /\ \A d \in Actors : CallerOK(d, upd[d], obj)
  BY DEF StoreInv, StoreTypeOK, CallerInv
<1>2. /\ obj.exists /\ upd[c].version = obj.version /\ upd[c].base = obj.status
      /\ m \in Mutation /\ m.by = c /\ ~upd[c].applied
  BY <1>1 DEF Replace, VersionMatches, CallerOK, CallOK, VersionOK
<1>3. obj.status \in Status /\ obj.version \in Nat /\ h \in Seq(HistoryEntry)
  BY <1>1 DEF Object, Status
<1>4. /\ Apply(m, obj.status) \in Status
      /\ e \in HistoryEntry /\ e.by = c
  BY <1>2, <1>3, ApplyEffect
<1>5. /\ obj' \in Object /\ obj'.exists /\ obj'.version = obj.version + 1
      /\ obj'.status = r
  <2>1. obj' = [obj EXCEPT !.status = r, !.version = obj.version + 1]
    BY <1>2 DEF Replace
  <2>2. r \in Status /\ obj.version + 1 \in Nat
    BY <1>3, <1>4
  <2> HIDE DEF r
  <2> QED
    BY <1>1, <1>2, <2>1, <2>2 DEF Object
<1>6. log' = IF Records(m) THEN Append(log, e) ELSE log
  BY DEF Replace
<1>7. log' \in Seq(HistoryEntry)
  BY <1>1, <1>4, <1>6
<1>8. /\ upd' \in [Actors -> Update] /\ upd'[c] = u
      /\ \A d \in Actors : d # c => upd'[d] = upd[d]
      /\ \A d \in Actors : upd[d].applied => upd'[d].applied
  BY <1>1
<1>9. StoreTypeOK'
  BY <1>5, <1>7, <1>8 DEF StoreTypeOK
<1>10. CallerInv'
  <2> SUFFICES ASSUME NEW d \in Actors
               PROVE  CallerOK(d, upd'[d], obj')
    BY DEF CallerInv
  <2>1. CASE d = c
    <3>1. upd'[d] = u
      BY <1>8, <2>1
    <3>2. CallOK(d, u) /\ VersionOK(u, obj')
      BY <1>2, <2>1 DEF CallOK, VersionOK
    <3>3. AttemptOK(upd[c], obj)
      BY <1>1 DEF CallerOK
    <3>4. AttemptOK(u, obj')
      BY <1>3, <1>5, <3>3, AttemptsAssumption DEF AttemptOK
    <3> QED
      BY <3>1, <3>2, <3>4 DEF CallerOK
  <2>2. CASE d # c
    <3>1. upd'[d] = upd[d] /\ upd[d] \in Update /\ CallerOK(d, upd[d], obj)
      BY <1>1, <1>8, <2>2
    <3>2. VersionOK(upd[d], obj')
      BY <1>3, <1>5, <3>1 DEF CallerOK, VersionOK, Update
    <3>3. AttemptOK(upd[d], obj')
      BY <1>3, <1>5, <3>1, AttemptsAssumption DEF CallerOK, AttemptOK, Update
    <3> QED
      BY <3>1, <3>2, <3>3 DEF CallerOK
  <2> QED
    BY <2>1, <2>2
<1>11. \A i \in 1..Len(log) : log[i].by \in Actors /\ upd[log[i].by].applied
  BY DEF StoreInv, LogInv
<1>12. \A i, j \in 1..Len(log) : log[i].by = log[j].by => i = j
  BY DEF StoreInv, RecordedOnce
<1>13. HistoryIsLog
  BY DEF StoreInv
<1>14. CASE Records(m)
  <2>1. /\ log' = Append(log, e) /\ Len(log') = Len(log) + 1
        /\ log'[Len(log) + 1] = e
        /\ \A i \in 1..Len(log) : log'[i] = log[i]
    BY <1>1, <1>4, <1>6, <1>14
  <2>2. /\ obj'.status.history = PushHistory(h, e)
        /\ obj'.status.lastRotated = m.at /\ obj'.status.rotatedBy = m.by
        /\ e.at = m.at /\ obj'.status.expires = e.expires
        /\ EffectiveExpiry(obj'.status.probe, obj'.status.manual) =
             [at |-> obj'.status.expires, source |-> obj'.status.source]
    <3>1. /\ r.history = PushHistory(h, e)
          /\ r.lastRotated = m.at /\ r.rotatedBy = m.by
          /\ e.at = m.at /\ r.expires = e.expires
          /\ EffectiveExpiry(r.probe, r.manual) = [at |-> r.expires, source |-> r.source]
      BY <1>2, <1>3, <1>14, ApplyEffect, ZenonT(40)
    <3> QED
      BY <1>5, <3>1
  <2> DEFINE p == PushHistory(h, e)
  <2>3. /\ Len(p) = IF Len(h) < HISTORY_LIMIT THEN Len(h) + 1 ELSE HISTORY_LIMIT
        /\ \A i \in 1..Len(p) : p[i] = IF i = 1 THEN e ELSE h[i - 1]
    BY <1>3, <1>4, PushHistoryType
  <2>4. LogInv'
    <3>1. ASSUME NEW i \in 1..Len(log')
          PROVE  log'[i].by \in Actors /\ upd'[log'[i].by].applied
      <4>1. CASE i = Len(log) + 1
        BY <1>4, <1>8, <2>1, <4>1
      <4>2. CASE i \in 1..Len(log)
        BY <1>8, <1>11, <2>1, <4>2
      <4> QED
        BY <1>1, <2>1, <4>1, <4>2
    <3> QED
      BY <1>5, <3>1 DEF LogInv
  <2>5. RecordedOnce'
    <3>1. \A i \in 1..Len(log) : log[i].by # c
      BY <1>2, <1>11
    <3>2. ASSUME NEW i \in 1..Len(log'), NEW j \in 1..Len(log'),
                 log'[i].by = log'[j].by
          PROVE  i = j
      <4>1. CASE i \in 1..Len(log) /\ j \in 1..Len(log)
        BY <1>12, <2>1, <3>2, <4>1
      <4>2. CASE i = Len(log) + 1 \/ j = Len(log) + 1
        BY <1>1, <1>4, <2>1, <3>1, <3>2, <4>2
      <4> QED
        BY <1>1, <2>1, <4>1, <4>2
    <3> QED
      BY <3>2 DEF RecordedOnce
  <2>6. HistoryIsLog'
    <3>1. /\ Len(h) = (IF Len(log) < HISTORY_LIMIT THEN Len(log) ELSE HISTORY_LIMIT)
          /\ \A i \in 1..Len(h) : h[i] = log[Len(log) + 1 - i]
      BY <1>2, <1>13 DEF HistoryIsLog
    <3>2. Len(p) = IF Len(log') < HISTORY_LIMIT THEN Len(log') ELSE HISTORY_LIMIT
      BY <1>1, <1>3, <2>1, <2>3, <3>1, HistoryLimitAssumption
    <3>3. ASSUME NEW i \in 1..Len(p)
          PROVE  p[i] = log'[Len(log') + 1 - i]
      <4>1. CASE i = 1
        BY <1>1, <2>1, <2>3, <4>1
      <4>2. CASE i # 1
        <5>1. i - 1 \in 1..Len(h) /\ p[i] = h[i - 1]
          BY <1>3, <2>3, <4>2, HistoryLimitAssumption, SMTT(20)
        <5>2. h[i - 1] = log[Len(log) + 1 - (i - 1)]
          BY <3>1, <5>1
        <5>3. /\ Len(log) + 1 - (i - 1) = Len(log') + 1 - i
              /\ Len(log) + 1 - (i - 1) \in 1..Len(log)
          BY <1>1, <1>3, <2>1, <3>1, <5>1, HistoryLimitAssumption
        <5> QED
          BY <2>1, <5>1, <5>2, <5>3
      <4> QED
        BY <4>1, <4>2
    <3> QED
      BY <2>2, <3>2, <3>3 DEF HistoryIsLog
  <2>7. HeadAgrees'
    <3>1. p # <<>> /\ p[1] = e
      BY <1>3, <2>3, HistoryLimitAssumption
    <3> QED
      BY <1>2, <1>4, <2>2, <3>1 DEF HeadAgrees
  <2> QED
    BY <1>3, <1>5, <1>9, <1>10, <2>4, <2>5, <2>6, <2>7 DEF StoreInv
<1>15. CASE ~Records(m)
  <2>1. log' = log
    BY <1>6, <1>15
  <2>2. /\ obj'.status.history = h
        /\ obj'.status.lastRotated = obj.status.lastRotated
        /\ obj'.status.rotatedBy = obj.status.rotatedBy
        /\ obj'.status.expires = obj.status.expires
        /\ obj'.status.source = obj.status.source
        /\ obj'.status.probe = obj.status.probe
        /\ obj'.status.manual = obj.status.manual
    <3>1. /\ r.history = h
          /\ r.lastRotated = obj.status.lastRotated
          /\ r.rotatedBy = obj.status.rotatedBy
          /\ r.expires = obj.status.expires /\ r.source = obj.status.source
          /\ r.probe = obj.status.probe /\ r.manual = obj.status.manual
      BY <1>2, <1>3, <1>15, ApplyEffect
    <3> QED
      BY <1>5, <3>1
  <2>3. LogInv' /\ RecordedOnce'
    BY <1>5, <1>8, <1>11, <1>12, <2>1 DEF LogInv, RecordedOnce
  <2>4. HistoryIsLog'
    BY <1>2, <1>13, <2>1, <2>2 DEF HistoryIsLog
  <2>5. HeadAgrees'
    BY <1>2, <2>2 DEF HeadAgrees, StoreInv
  <2> QED
    BY <1>3, <1>5, <1>9, <1>10, <2>3, <2>4, <2>5 DEF StoreInv
<1> QED
  BY <1>14, <1>15

LEMMA ReplaceOkKeepsInv ==
  ASSUME StoreInv, NEW c \in Actors, ReplaceOk(c)
  PROVE  StoreInv'
<1> DEFINE u == [upd[c] EXCEPT !.pc = "ok", !.applied = TRUE, !.since = 0]
<1>1. upd[c] \in Update /\ upd[c].pc = "replace" /\ CallerOK(c, upd[c], obj)
  BY DEF StoreInv, StoreTypeOK, CallerInv, ReplaceOk
<1>2. u \in Update
  BY <1>1 DEF Update, UpdatePhases
<1>3. upd' = [upd EXCEPT ![c] = u] /\ Replace(c)
  BY DEF ReplaceOk
<1>4. /\ u.pc = "ok" /\ u.applied /\ u.m = upd[c].m
      /\ ~u.flying
  BY <1>1 DEF Update, CallerOK, CallOK
<1> QED
  BY <1>1, <1>2, <1>3, <1>4, ReplaceKeepsInv

LEMMA LandKeepsInv ==
  ASSUME StoreInv, NEW c \in Actors, Land(c)
  PROVE  StoreInv'
<1> DEFINE u == [upd[c] EXCEPT !.flying = FALSE, !.applied = TRUE]
<1>1. upd[c] \in Update /\ upd[c].flying /\ CallerOK(c, upd[c], obj)
  BY DEF StoreInv, StoreTypeOK, CallerInv, Land
<1>2. u \in Update
  BY <1>1 DEF Update
<1>3. upd' = [upd EXCEPT ![c] = u] /\ Replace(c)
  BY DEF Land
<1>4. /\ u.applied /\ ~u.flying /\ u.m = upd[c].m
      /\ u.pc = upd[c].pc
  BY <1>1 DEF Update
<1>5. u.pc \in {"ok", "error", "cut"}
  BY <1>1, <1>4 DEF Update, UpdatePhases, CallerOK, CallOK
<1> QED
  BY <1>1, <1>2, <1>3, <1>4, <1>5, ReplaceKeepsInv

-----------------------------------------------------------------------------
\* A write of the resource by somebody else only makes held versions old.
LEMMA OtherWrite ==
  ASSUME StoreInv, obj' \in Object, obj'.version > obj.version, UNCHANGED upd
  PROVE  CallerInv' /\ obj'.version >= 1
<1>1. obj.version \in Nat /\ obj'.version \in Nat /\ obj.version >= 1
  BY DEF StoreInv, StoreTypeOK, Object
<1>2. ASSUME NEW d \in Actors
      PROVE  CallerOK(d, upd[d], obj')
  <2>1. upd[d] \in Update /\ CallerOK(d, upd[d], obj)
    BY DEF StoreInv, StoreTypeOK, CallerInv
  <2>2. VersionOK(upd[d], obj')
    BY <1>1, <2>1 DEF CallerOK, VersionOK, Update
  <2>3. AttemptOK(upd[d], obj')
    BY <1>1, <2>1, AttemptsAssumption DEF CallerOK, AttemptOK, Update
  <2> QED
    BY <2>1, <2>2, <2>3 DEF CallerOK
<1> QED
  BY <1>1, <1>2 DEF CallerInv

LEMMA PatchKeepsInv ==
  ASSUME StoreInv, NEW v \in Condition, Patch(v)
  PROVE  StoreInv'
<1> DEFINE s == [obj.status EXCEPT !.valid = v]
<1>1. /\ obj \in Object /\ obj.status \in Status /\ obj.version + 1 \in Nat
      /\ obj.exists /\ log \in Seq(HistoryEntry) /\ upd \in [Actors -> Update]
  BY DEF StoreInv, StoreTypeOK, Object, Patch
<1>2. s \in Status
  BY <1>1 DEF Status
<1>3. obj' = [obj EXCEPT !.status = s, !.version = obj.version + 1]
  BY DEF Patch
<1> HIDE DEF s
<1>4. /\ obj' \in Object /\ obj'.status = s /\ obj'.exists
      /\ obj'.version = obj.version + 1
  BY <1>1, <1>2, <1>3 DEF Object
<1>5. UNCHANGED <<upd, log>>
  BY DEF Patch
<1>6. CallerInv' /\ obj'.version >= 1
  BY <1>1, <1>4, <1>5, OtherWrite DEF Object
<1>7. /\ s.history = obj.status.history /\ s.lastRotated = obj.status.lastRotated
      /\ s.rotatedBy = obj.status.rotatedBy /\ s.expires = obj.status.expires
      /\ s.source = obj.status.source /\ s.probe = obj.status.probe
      /\ s.manual = obj.status.manual
  BY <1>1 DEF s, Status
<1>8. HistoryIsLog' /\ HeadAgrees'
  BY <1>1, <1>4, <1>5, <1>7 DEF StoreInv, HistoryIsLog, HeadAgrees
<1>9. StoreTypeOK' /\ LogInv' /\ RecordedOnce'
  BY <1>1, <1>4, <1>5 DEF StoreInv, StoreTypeOK, LogInv, RecordedOnce
<1> QED
  BY <1>6, <1>8, <1>9 DEF StoreInv

LEMMA EditSpecKeepsInv ==
  ASSUME StoreInv, NEW s \in Specs, EditSpec(s)
  PROVE  StoreInv'
<1>1. /\ obj \in Object /\ obj.version + 1 \in Nat /\ obj.gen + 1 \in Nat
      /\ obj.exists /\ log \in Seq(HistoryEntry) /\ upd \in [Actors -> Update]
  BY DEF StoreInv, StoreTypeOK, Object, EditSpec
<1>2. obj' = [obj EXCEPT !.spec = s, !.gen = obj.gen + 1, !.version = obj.version + 1]
  BY DEF EditSpec
<1>3. /\ obj' \in Object /\ obj'.status = obj.status /\ obj'.exists
      /\ obj'.version = obj.version + 1
  BY <1>1, <1>2 DEF Object
<1>4. UNCHANGED <<upd, log>>
  BY DEF EditSpec
<1>5. CallerInv' /\ obj'.version >= 1
  BY <1>1, <1>3, <1>4, OtherWrite DEF Object
<1>6. HistoryIsLog' /\ HeadAgrees'
  BY <1>1, <1>3, <1>4 DEF StoreInv, HistoryIsLog, HeadAgrees
<1>7. StoreTypeOK' /\ LogInv' /\ RecordedOnce'
  BY <1>1, <1>3, <1>4 DEF StoreInv, StoreTypeOK, LogInv, RecordedOnce
<1> QED
  BY <1>5, <1>6, <1>7 DEF StoreInv

LEMMA DeleteKeepsInv ==
  ASSUME StoreInv, Delete
  PROVE  StoreInv'
<1>1. /\ obj \in Object /\ obj.version + 1 \in Nat /\ upd \in [Actors -> Update]
  BY DEF StoreInv, StoreTypeOK, Object
<1>2. /\ obj' = [obj EXCEPT !.exists = FALSE, !.version = obj.version + 1]
      /\ log' = <<>> /\ Len(log') = 0 /\ UNCHANGED upd
  BY DEF Delete
<1>3. obj' \in Object /\ ~obj'.exists /\ obj'.version = obj.version + 1
  BY <1>1, <1>2 DEF Object
<1>4. CallerInv' /\ obj'.version >= 1
  BY <1>1, <1>2, <1>3, OtherWrite DEF Object
<1>5. HistoryIsLog' /\ HeadAgrees'
  BY <1>3 DEF HistoryIsLog, HeadAgrees
<1>6. StoreTypeOK' /\ LogInv' /\ RecordedOnce'
  BY <1>1, <1>2, <1>3 DEF StoreTypeOK, LogInv, RecordedOnce
<1> QED
  BY <1>4, <1>5, <1>6 DEF StoreInv

LEMMA CreateKeepsInv ==
  ASSUME StoreInv, NEW s \in Specs, Create(s)
  PROVE  StoreInv'
<1>1. /\ obj \in Object /\ obj.version + 1 \in Nat /\ upd \in [Actors -> Update]
      /\ ~obj.exists /\ log = <<>>
  BY DEF StoreInv, StoreTypeOK, Object, Create, LogInv
<1>2. /\ obj' = [exists |-> TRUE, version |-> obj.version + 1, gen |-> 1, spec |-> s,
                 status |-> DefaultStatus]
      /\ log' = <<>> /\ Len(log') = 0 /\ UNCHANGED upd
  BY <1>1 DEF Create
<1>3. /\ obj' \in Object /\ obj'.exists /\ obj'.version = obj.version + 1
      /\ obj'.status = DefaultStatus
  BY <1>1, <1>2, DefaultStatusType DEF Object
<1>4. CallerInv' /\ obj'.version >= 1
  BY <1>1, <1>2, <1>3, OtherWrite DEF Object
<1>5. HistoryIsLog' /\ HeadAgrees'
  BY <1>2, <1>3, DefaultStatusType, HistoryLimitAssumption DEF HistoryIsLog, HeadAgrees
<1>6. StoreTypeOK' /\ LogInv' /\ RecordedOnce'
  BY <1>1, <1>2, <1>3 DEF StoreTypeOK, LogInv, RecordedOnce
<1> QED
  BY <1>4, <1>5, <1>6 DEF StoreInv

-----------------------------------------------------------------------------
\* Every step of an update keeps the invariant.
LEMMA UpdateStepKeepsInv ==
  ASSUME StoreInv, NEW c \in Actors, UpdateStep(c)
  PROVE  StoreInv'
<1>1. CASE Get(c)
  BY <1>1, GetKeepsInv
<1>2. CASE GetNotFound(c)
  BY <1>2, FailKeepsInv DEF GetNotFound
<1>3. CASE GetError(c)
  BY <1>3, FailKeepsInv DEF GetError
<1>4. CASE ReplaceOk(c)
  BY <1>4, ReplaceOkKeepsInv
<1>5. CASE ReplaceConflict(c)
  BY <1>5, ReplaceConflictKeepsInv
<1>6. CASE ReplaceGone(c)
  BY <1>6, FailKeepsInv DEF ReplaceGone
<1>7. CASE ReplaceError(c)
  BY <1>7, ReplaceErrorKeepsInv
<1> QED
  BY <1>1, <1>2, <1>3, <1>4, <1>5, <1>6, <1>7 DEF UpdateStep

LEMMA EnvironmentKeepsInv ==
  ASSUME StoreInv, Environment
  PROVE  StoreInv'
<1>1. ASSUME NEW v \in Conditions, Patch(v) PROVE StoreInv'
  BY <1>1, PatchKeepsInv, ConditionsAssumption
<1>2. ASSUME NEW s \in Specs, EditSpec(s) PROVE StoreInv'
  BY <1>2, EditSpecKeepsInv
<1>3. ASSUME NEW s \in Specs, Create(s) PROVE StoreInv'
  BY <1>3, CreateKeepsInv
<1>4. CASE Delete
  BY <1>4, DeleteKeepsInv
<1> QED
  BY <1>1, <1>2, <1>3, <1>4 DEF Environment

LEMMA StutterKeepsInv ==
  ASSUME StoreInv, UNCHANGED storeVars
  PROVE  StoreInv'
BY DEF StoreInv, storeVars, StoreTypeOK, CallerInv, CallerOK, CallOK, VersionOK,
       AttemptOK, LogInv, HistoryIsLog, HeadAgrees, RecordedOnce

LEMMA StoreNextKeepsInv ==
  ASSUME StoreInv, [StoreNext]_storeVars
  PROVE  StoreInv'
<1>1. ASSUME NEW c \in Actors, NEW m \in Mutations, Call(c, m) PROVE StoreInv'
  BY <1>1, CallKeepsInv, MutationsAssumption
<1>2. ASSUME NEW c \in Actors, UpdateStep(c) PROVE StoreInv'
  BY <1>2, UpdateStepKeepsInv
<1>3. ASSUME NEW c \in Actors, Cut(c) PROVE StoreInv'
  BY <1>3, CutKeepsInv
<1>4. ASSUME NEW c \in Actors, Land(c) PROVE StoreInv'
  BY <1>4, LandKeepsInv
<1>5. CASE Environment
  BY <1>5, EnvironmentKeepsInv
<1>6. CASE UNCHANGED storeVars
  BY <1>6, StutterKeepsInv
<1> QED
  BY <1>1, <1>2, <1>3, <1>4, <1>5, <1>6 DEF StoreNext

\* The invariant, and with it types, no lost update, a summary that agrees with
\* the history, and no double recording, in every behaviour of the resource, its
\* callers and its other writers.
THEOREM StoreInvariant == StoreSpec => []StoreInv
<1>1. StoreInit => StoreInv
  BY StoreInitInv
<1>2. StoreInv /\ [StoreNext]_storeVars => StoreInv'
  BY StoreNextKeepsInv
<1> QED
  BY <1>1, <1>2, PTL DEF StoreSpec

\* The store's variables keep their types.
THEOREM StoreTypes == StoreSpec => []StoreTypeOK
BY StoreInvariant, StoreInvImplies, PTL

\* No update of the status is lost or invented.
THEOREM NoLostUpdate == StoreSpec => []HistoryIsLog
BY StoreInvariant, StoreInvImplies, PTL

\* The summary describes the newest entry of the history.
THEOREM SummaryAgrees == StoreSpec => []HeadAgrees
BY StoreInvariant, StoreInvImplies, PTL

\* No request is recorded twice.
THEOREM NoDoubleRecord == StoreSpec => []RecordedOnce
BY StoreInvariant, StoreInvImplies, PTL

\* An update fails with Conflict in one way only: its last attempt met a conflict.
LEMMA OnlyConflict ==
  ASSUME StoreInv, StoreNext, NEW c \in Actors,
         upd'[c].reason = "Conflict", upd[c].reason # "Conflict"
  PROVE  ReplaceConflict(c) /\ ~(upd[c].attempt < MAX_STATUS_ATTEMPTS)
<1>1. upd \in [Actors -> Update] /\ upd' # upd
  BY DEF StoreInv, StoreTypeOK
<1>2. ASSUME NEW d \in Actors, NEW u,
             upd' = [upd EXCEPT ![d] = u], u.reason # "Conflict" \/ u.reason = upd[d].reason
      PROVE  FALSE
  BY <1>1, <1>2
<1>3. ASSUME NEW d \in Actors, NEW m \in Mutations, Call(d, m)
      PROVE  FALSE
  <2> DEFINE u == [upd[d] EXCEPT !.pc = "get", !.attempt = 1, !.m = m,
                                 !.since = obj.version]
  <2>1. upd' = [upd EXCEPT ![d] = u] /\ u.reason = upd[d].reason
    BY <1>1, <1>3 DEF Call, Update
  <2> QED
    BY <1>2, <2>1
<1>4. ASSUME NEW d \in Actors, NEW why \in {"NotFound", "Api"}, Fail(d, why)
      PROVE  FALSE
  <2> DEFINE u == [upd[d] EXCEPT !.pc = "error", !.reason = why, !.since = 0]
  <2>1. upd' = [upd EXCEPT ![d] = u] /\ u.reason = why
    BY <1>1, <1>4 DEF Fail, Update
  <2> QED
    BY <1>2, <1>4, <2>1
<1>5. ASSUME NEW d \in Actors, Get(d)
      PROVE  FALSE
  <2> DEFINE u == [upd[d] EXCEPT !.pc = "replace", !.version = obj.version,
                                 !.base = obj.status]
  <2>1. upd' = [upd EXCEPT ![d] = u] /\ u.reason = upd[d].reason
    BY <1>1, <1>5 DEF Get, Update
  <2> QED
    BY <1>2, <2>1
<1>6. ASSUME NEW d \in Actors, ReplaceOk(d)
      PROVE  FALSE
  <2> DEFINE u == [upd[d] EXCEPT !.pc = "ok", !.applied = TRUE, !.since = 0]
  <2>1. upd' = [upd EXCEPT ![d] = u] /\ u.reason = upd[d].reason
    BY <1>1, <1>6 DEF ReplaceOk, Update
  <2> QED
    BY <1>2, <2>1
<1>7. ASSUME NEW d \in Actors, ReplaceError(d)
      PROVE  FALSE
  <2> DEFINE u == [upd[d] EXCEPT !.pc = "error", !.reason = "Api", !.flying = TRUE,
                                 !.since = 0]
  <2>1. upd' = [upd EXCEPT ![d] = u] /\ u.reason = "Api"
    BY <1>1, <1>7 DEF ReplaceError, Update
  <2> QED
    BY <1>2, <2>1
<1>8. ASSUME NEW d \in Actors, Cut(d)
      PROVE  FALSE
  <2> DEFINE u == [upd[d] EXCEPT !.pc = "cut", !.flying = (upd[d].pc = "replace"),
                                 !.since = 0]
  <2>1. upd' = [upd EXCEPT ![d] = u] /\ u.reason = upd[d].reason
    BY <1>1, <1>8 DEF Cut, Update
  <2> QED
    BY <1>2, <2>1
<1>9. ASSUME NEW d \in Actors, Land(d)
      PROVE  FALSE
  <2> DEFINE u == [upd[d] EXCEPT !.flying = FALSE, !.applied = TRUE]
  <2>1. upd' = [upd EXCEPT ![d] = u] /\ u.reason = upd[d].reason
    BY <1>1, <1>9 DEF Land, Update
  <2> QED
    BY <1>2, <2>1
<1>10. ASSUME NEW d \in Actors, ReplaceConflict(d), upd[d].attempt < MAX_STATUS_ATTEMPTS
       PROVE  FALSE
  <2> DEFINE u == [upd[d] EXCEPT !.pc = "get", !.attempt = @ + 1]
  <2>1. upd' = [upd EXCEPT ![d] = u] /\ u.reason = upd[d].reason
    BY <1>1, <1>10 DEF ReplaceConflict, Update
  <2> QED
    BY <1>2, <2>1
<1>11. ASSUME NEW d \in Actors, ReplaceConflict(d), ~(upd[d].attempt < MAX_STATUS_ATTEMPTS)
       PROVE  d = c
  <2> DEFINE u == [upd[d] EXCEPT !.pc = "error", !.reason = "Conflict", !.since = 0]
  <2>1. upd' = [upd EXCEPT ![d] = u]
    BY <1>11 DEF ReplaceConflict, Fail
  <2> QED
    BY <1>1, <2>1
<1>12. PICK d \in Actors : UpdateStep(d)
  BY <1>1, <1>3, <1>8, <1>9
     DEF StoreNext, Environment, Patch, EditSpec, Create, Delete
<1> QED
  BY <1>4, <1>5, <1>6, <1>7, <1>10, <1>11, <1>12
     DEF UpdateStep, GetNotFound, GetError, ReplaceGone

\* Giving up with Conflict takes MAX_STATUS_ATTEMPTS writes of others since the call.
THEOREM ConflictNeedsInterference == StoreSpec => ConflictMeansInterference
<1> DEFINE A == \A c \in Actors :
                  upd'[c].reason = "Conflict" /\ upd[c].reason # "Conflict" =>
                    /\ obj.version - upd[c].since >= MAX_STATUS_ATTEMPTS
                    /\ ~upd[c].applied
<1>1. ASSUME StoreInv, StoreNext
      PROVE  A
  <2>1. SUFFICES ASSUME NEW c \in Actors, upd'[c].reason = "Conflict",
                        upd[c].reason # "Conflict"
                 PROVE  /\ obj.version - upd[c].since >= MAX_STATUS_ATTEMPTS
                        /\ ~upd[c].applied
    OBVIOUS
  <2>2. /\ upd[c] \in Update /\ obj \in Object /\ CallerOK(c, upd[c], obj)
        /\ upd \in [Actors -> Update]
    BY <1>1 DEF StoreInv, StoreTypeOK, CallerInv
  <2>3. ReplaceConflict(c) /\ ~(upd[c].attempt < MAX_STATUS_ATTEMPTS)
    BY <1>1, <2>1, <2>2, OnlyConflict
  <2>4. upd[c].pc = "replace" /\ upd[c].version # obj.version
    BY <2>3 DEF ReplaceConflict, VersionMatches
  <2>5. /\ upd[c].since + upd[c].attempt <= obj.version
        /\ upd[c].attempt \in 1..MAX_STATUS_ATTEMPTS
    BY <2>2, <2>4, SpentOnOthers
  <2>6. obj.version \in Nat /\ upd[c].since \in Nat /\ ~upd[c].applied
    BY <2>2, <2>4 DEF Update, Object, CallerOK, CallOK
  <2> QED
    BY <2>3, <2>5, <2>6, AttemptsAssumption
<1>2. StoreInv /\ [StoreNext]_storeVars => [A]_storeVars
  BY <1>1
<1> QED
  BY <1>2, StoreInvariant, PTL DEF StoreSpec, ConflictMeansInterference

-----------------------------------------------------------------------------
(***************************************************************************)
(* KubeRepository implements Repository: every step of StatusStore is a    *)
(* step of AtomicStatus or leaves its state alone, so an optimistic        *)
(* read-mutate-replace behaves like a mutation applied in place.           *)
(***************************************************************************)


\* The abstract specification works on the same mutations.
LEMMA SameApply ==
  ASSUME NEW m, NEW s
  PROVE  Atomic!Apply(m, s) = Apply(m, s)
BY DEF Atomic!Apply, Apply, Atomic!ApplyRotation, ApplyRotation,
       Atomic!MergeTargets, MergeTargets, Atomic!Completed, Completed,
       Atomic!EffectiveExpiry, EffectiveExpiry, Atomic!PushHistory, PushHistory,
       Atomic!UpsertTargets, UpsertTargets, Atomic!RetainTargets, RetainTargets

LEMMA SameDefault == Atomic!DefaultStatus = DefaultStatus
BY DEF Atomic!DefaultStatus, DefaultStatus

\* A replace with a current version mutates the status that is there.
LEMMA ReplaceInPlace ==
  ASSUME StoreInv, NEW c \in Actors, Replace(c),
         upd[c].pc = "replace" \/ upd[c].flying
  PROVE  /\ obj.exists /\ obj'.exists = obj.exists
         /\ obj'.status = Apply(upd[c].m, obj.status)
         /\ obj'.status.valid = obj.status.valid
         /\ upd[c].m \in Mutation /\ ~upd[c].applied
<1>1. obj \in Object /\ obj.status \in Status /\ CallerOK(c, upd[c], obj)
  BY DEF StoreInv, StoreTypeOK, CallerInv, Object
<1>2. /\ obj.exists /\ upd[c].base = obj.status
      /\ upd[c].m \in Mutation /\ ~upd[c].applied
  BY <1>1 DEF Replace, VersionMatches, CallerOK, CallOK, VersionOK
<1> DEFINE r == Apply(upd[c].m, obj.status)
<1>3. obj' = [obj EXCEPT !.status = r, !.version = obj.version + 1]
  BY <1>2 DEF Replace
<1>4. r.valid = obj.status.valid
  BY <1>1, <1>2, ApplyEffect
<1> HIDE DEF r
<1>5. obj'.status = r /\ obj'.exists = obj.exists
  BY <1>1, <1>3 DEF Object
<1> QED
  BY <1>2, <1>4, <1>5 DEF r

-----------------------------------------------------------------------------
\* A rotation never brings back an old Valid condition, and the controller's
\* patch never touches what a rotation recorded.
THEOREM WritersStayApart == StoreSpec => WritersKeepApart
<1> DEFINE A == obj.exists /\ obj'.exists /\ obj'.status.valid # obj.status.valid
                  => obj'.status = [obj.status EXCEPT !.valid = obj'.status.valid]
<1>1. ASSUME StoreInv, [StoreNext]_storeVars
      PROVE  A
  <2>1. ASSUME NEW c \in Actors, ReplaceOk(c) PROVE A
    BY <1>1, <2>1, ReplaceInPlace DEF ReplaceOk
  <2>2. ASSUME NEW c \in Actors, Land(c) PROVE A
    BY <1>1, <2>2, ReplaceInPlace DEF Land
  <2>3. ASSUME NEW v \in Conditions, Patch(v) PROVE A
    <3>1. obj \in Object /\ obj.status \in Status
      BY <1>1 DEF StoreInv, StoreTypeOK, Object
    <3>2. obj'.status = [obj.status EXCEPT !.valid = v]
      BY <2>3, <3>1 DEF Patch, Object
    <3>3. obj'.status.valid = v
      BY <3>1, <3>2 DEF Status
    <3> QED
      BY <3>2, <3>3
  <2>4. ASSUME NEW s \in Specs, EditSpec(s) PROVE A
    BY <1>1, <2>4 DEF EditSpec, StoreInv, StoreTypeOK, Object
  <2>5. CASE obj' = obj
    BY <2>5
  <2>6. ASSUME NEW s \in Specs, Create(s) PROVE A
    BY <2>6 DEF Create
  <2>7. CASE Delete
    BY <1>1, <2>7 DEF Delete, StoreInv, StoreTypeOK, Object
  <2> QED
    BY <1>1, <2>1, <2>2, <2>3, <2>4, <2>5, <2>6, <2>7
       DEF StoreNext, UpdateStep, Environment, storeVars, Call, Get, GetNotFound,
           GetError, ReplaceConflict, ReplaceGone, ReplaceError, Fail, Cut
<1> QED
  BY <1>1, StoreInvariant, PTL DEF StoreSpec, WritersKeepApart

-----------------------------------------------------------------------------
Calls == [c \in Actors |-> AbstractCall(c)]

AtPhase(p, u) == [phase |-> p, m |-> u.m, applied |-> u.applied]

\* What AbstractCall says of each phase of an update.
LEMMA AbstractCallPhase ==
  ASSUME NEW c \in Actors
  PROVE  /\ Calls[c] = AbstractCall(c)
         /\ upd[c].pc = "idle" => AbstractCall(c) = AtPhase("idle", upd[c])
         /\ upd[c].pc \in {"get", "replace"} => AbstractCall(c) = AtPhase("open", upd[c])
         /\ upd[c].pc = "ok" => AbstractCall(c) = AtPhase("ok", upd[c])
         /\ upd[c].pc \in {"error", "cut"} => AbstractCall(c) = AtPhase("failed", upd[c])
BY DEF Calls, AbstractCall, AtPhase

\* A step of caller c changes the abstract state of c only.
LEMMA AbstractStep ==
  ASSUME StoreTypeOK, NEW c \in Actors, NEW u \in Update,
         upd' = [upd EXCEPT ![c] = u], NEW p,
         \/ u.pc \in {"get", "replace"} /\ p = "open"
         \/ u.pc = "ok" /\ p = "ok"
         \/ u.pc \in {"error", "cut"} /\ p = "failed"
  PROVE  Calls' = [Calls EXCEPT ![c] = AtPhase(p, u)]
<1>1. /\ upd'[c] = u
      /\ \A d \in Actors : d # c => upd'[d] = upd[d]
  BY DEF StoreTypeOK
<1>2. \A d \in Actors : d # c => AbstractCall(d)' = AbstractCall(d)
  BY <1>1 DEF AbstractCall
<1>3. AbstractCall(c)' = AtPhase(p, u)
  BY <1>1 DEF AbstractCall, AtPhase
<1> QED
  BY <1>2, <1>3 DEF Calls

\* A call that neither applies its mutation nor ends is a stutter.
LEMMA StaysOpen ==
  ASSUME StoreInv, NEW c \in Actors, NEW u \in Update,
         upd' = [upd EXCEPT ![c] = u], UNCHANGED obj,
         upd[c].pc \in {"get", "replace"}, u.pc \in {"get", "replace"},
         u.m = upd[c].m, u.applied = upd[c].applied
  PROVE  UNCHANGED Atomic!vars
<1>1. Calls' = [Calls EXCEPT ![c] = AtPhase("open", u)]
  BY AbstractStep DEF StoreInv
<1>2. Calls[c] = AtPhase("open", upd[c])
  BY AbstractCallPhase
<1>3. AtPhase("open", u) = AtPhase("open", upd[c])
  BY DEF AtPhase
<1>4. Calls' = Calls
  BY <1>1, <1>2, <1>3 DEF Calls
<1> QED
  BY <1>4 DEF Atomic!vars, Calls

\* A call that ends without an answer is a Fail.
LEMMA EndsInFail ==
  ASSUME StoreInv, NEW c \in Actors, NEW u \in Update,
         upd' = [upd EXCEPT ![c] = u], UNCHANGED obj,
         upd[c].pc \in {"get", "replace"}, u.pc \in {"error", "cut"},
         u.m = upd[c].m, u.applied = upd[c].applied
  PROVE  Atomic!Fail(c)
<1>1. Calls' = [Calls EXCEPT ![c] = AtPhase("failed", u)]
  BY AbstractStep DEF StoreInv
<1>2. Calls[c] = AtPhase("open", upd[c])
  BY AbstractCallPhase
<1>3. AtPhase("failed", u) = [Calls[c] EXCEPT !.phase = "failed"]
  BY <1>2 DEF AtPhase
<1>4. Calls[c].phase = "open"
  BY <1>2 DEF AtPhase
<1>5. Calls' = [Calls EXCEPT ![c] = [Calls[c] EXCEPT !.phase = "failed"]]
  BY <1>1, <1>3
<1>6. Calls' = [Calls EXCEPT ![c].phase = "failed"]
  BY <1>5
<1> QED
  BY <1>4, <1>6 DEF Atomic!Fail, Calls

\* A replace that is applied is a Commit.
LEMMA AppliedIsCommit ==
  ASSUME StoreInv, NEW c \in Actors, NEW u \in Update,
         upd' = [upd EXCEPT ![c] = u], Replace(c),
         u.m = upd[c].m, u.applied = TRUE,
         \/ upd[c].pc = "replace" /\ u.pc = "ok"
         \/ upd[c].flying /\ upd[c].pc \in {"error", "cut"} /\ u.pc = upd[c].pc
  PROVE  Atomic!Commit(c)
<1>1. /\ obj.exists /\ obj'.exists = obj.exists /\ upd[c].m \in Mutation /\ ~upd[c].applied
      /\ obj'.status = Apply(upd[c].m, obj.status)
  BY ReplaceInPlace
<1>2. PICK p \in {"open", "failed"} :
        /\ Calls[c] = AtPhase(p, upd[c])
        /\ Calls' = [Calls EXCEPT ![c] = AtPhase(IF p = "open" THEN "ok" ELSE p, u)]
  <2>1. CASE upd[c].pc = "replace" /\ u.pc = "ok"
    BY <2>1, AbstractCallPhase, AbstractStep, ZenonT(40) DEF StoreInv
  <2>2. CASE upd[c].pc \in {"error", "cut"} /\ u.pc = upd[c].pc
    BY <2>2, AbstractCallPhase, AbstractStep, ZenonT(40) DEF StoreInv
  <2> QED
    BY <2>1, <2>2
<1>3. /\ Calls[c].phase \in {"open", "failed"} /\ Calls[c].m = upd[c].m /\ ~Calls[c].applied
  BY <1>1, <1>2 DEF AtPhase
<1>4. AtPhase(IF p = "open" THEN "ok" ELSE p, u) = Atomic!Committed(Calls[c])
  <2>1. Calls[c].phase = p /\ Calls[c].m = u.m
    BY <1>2 DEF AtPhase
  <2>2. Atomic!Committed(Calls[c]) =
          [phase |-> IF p = "open" THEN "ok" ELSE p, m |-> u.m, applied |-> u.applied]
    BY <2>1, Zenon DEF Atomic!Committed
  <2> QED
    BY <2>2, Zenon DEF AtPhase
<1>5. Calls' = [Calls EXCEPT ![c] = Atomic!Committed(@)]
  BY <1>2, <1>4
<1>6. obj'.status = Atomic!Apply(Calls[c].m, obj.status)
  BY <1>1, <1>3, SameApply
<1> QED
  BY <1>1, <1>3, <1>5, <1>6 DEF Atomic!Commit, Calls

\* A new call is an Open.
LEMMA CallIsOpen ==
  ASSUME StoreInv, NEW c \in Actors, NEW m \in Mutations, Call(c, m)
  PROVE  Atomic!Open(c)
<1> DEFINE u == [upd[c] EXCEPT !.pc = "get", !.attempt = 1, !.m = m,
                               !.since = obj.version]
<1>1. /\ upd[c] \in Update /\ upd[c].pc = "idle" /\ m.by = c /\ UNCHANGED obj
      /\ obj.version \in Nat
  BY DEF StoreInv, StoreTypeOK, Call, Object
<1>2. u \in Update
  BY <1>1, MutationsAssumption, AttemptNumbers DEF Update, UpdatePhases
<1>3. upd' = [upd EXCEPT ![c] = u]
  BY DEF Call
<1>4. u.pc = "get" /\ u.m = m /\ u.applied = upd[c].applied
  BY <1>1 DEF Update
<1> HIDE DEF u
<1>5. Calls' = [Calls EXCEPT ![c] = AtPhase("open", u)]
  BY <1>2, <1>3, <1>4, AbstractStep DEF StoreInv
<1>6. Calls[c] = AtPhase("idle", upd[c])
  BY <1>1, AbstractCallPhase
<1>7. /\ Calls[c].phase = "idle"
      /\ AtPhase("open", u) = Atomic!Opened(Calls[c], m)
  BY <1>4, <1>6 DEF AtPhase, Atomic!Opened
<1>8. Calls' = [Calls EXCEPT ![c] = Atomic!Opened(@, m)]
  BY <1>5, <1>7
<1> QED
  BY <1>1, <1>7, <1>8 DEF Atomic!Open, Calls

LEMMA UpdateStepRefines ==
  ASSUME StoreInv, NEW c \in Actors, UpdateStep(c) \/ Cut(c) \/ Land(c)
  PROVE  Atomic!Fail(c) \/ Atomic!Commit(c) \/ UNCHANGED Atomic!vars
<1>1. /\ upd[c] \in Update /\ obj \in Object /\ upd \in [Actors -> Update]
      /\ CallerOK(c, upd[c], obj)
  BY DEF StoreInv, StoreTypeOK, CallerInv
<1>2. ASSUME NEW why \in {"NotFound", "Conflict", "Api"}, Fail(c, why),
             upd[c].pc \in {"get", "replace"}
      PROVE  Atomic!Fail(c)
  <2> DEFINE u == [upd[c] EXCEPT !.pc = "error", !.reason = why, !.since = 0]
  <2>1. upd' = [upd EXCEPT ![c] = u] /\ UNCHANGED obj
    BY <1>2 DEF Fail
  <2>2. u \in Update /\ u.pc = "error" /\ u.m = upd[c].m /\ u.applied = upd[c].applied
    BY <1>1 DEF Update, UpdatePhases
  <2> QED
    BY <1>2, <2>1, <2>2, EndsInFail
<1>3. CASE Get(c)
  <2> DEFINE u == [upd[c] EXCEPT !.pc = "replace", !.version = obj.version,
                                 !.base = obj.status]
  <2>1. upd' = [upd EXCEPT ![c] = u] /\ UNCHANGED obj /\ upd[c].pc = "get"
    BY <1>3 DEF Get
  <2>2. /\ u \in Update /\ u.pc = "replace" /\ u.m = upd[c].m
        /\ u.applied = upd[c].applied
    BY <1>1 DEF Update, UpdatePhases, Object
  <2> QED
    BY <2>1, <2>2, StaysOpen
<1>4. CASE GetNotFound(c) \/ GetError(c) \/ ReplaceGone(c)
  BY <1>2, <1>4 DEF GetNotFound, GetError, ReplaceGone
<1>5. CASE ReplaceOk(c)
  <2> DEFINE u == [upd[c] EXCEPT !.pc = "ok", !.applied = TRUE, !.since = 0]
  <2>1. upd' = [upd EXCEPT ![c] = u] /\ Replace(c) /\ upd[c].pc = "replace"
    BY <1>5 DEF ReplaceOk
  <2>2. u \in Update /\ u.pc = "ok" /\ u.m = upd[c].m /\ u.applied = TRUE
    BY <1>1 DEF Update, UpdatePhases
  <2> QED
    BY <2>1, <2>2, AppliedIsCommit
<1>6. CASE ReplaceConflict(c)
  <2>1. CASE upd[c].attempt < MAX_STATUS_ATTEMPTS
    <3> DEFINE u == [upd[c] EXCEPT !.pc = "get", !.attempt = @ + 1]
    <3>1. upd' = [upd EXCEPT ![c] = u] /\ UNCHANGED obj /\ upd[c].pc = "replace"
      BY <1>6, <2>1 DEF ReplaceConflict
    <3>2. upd[c].attempt + 1 \in 0..MAX_STATUS_ATTEMPTS
      BY <1>1, <2>1, AttemptNumbers DEF Update
    <3>3. /\ u \in Update /\ u.pc = "get" /\ u.m = upd[c].m
          /\ u.applied = upd[c].applied
      BY <1>1, <3>2 DEF Update, UpdatePhases
    <3> QED
      BY <3>1, <3>3, StaysOpen
  <2>2. CASE ~(upd[c].attempt < MAX_STATUS_ATTEMPTS)
    BY <1>2, <1>6, <2>2 DEF ReplaceConflict
  <2> QED
    BY <2>1, <2>2
<1>7. CASE ReplaceError(c)
  <2> DEFINE u == [upd[c] EXCEPT !.pc = "error", !.reason = "Api", !.flying = TRUE,
                                 !.since = 0]
  <2>1. upd' = [upd EXCEPT ![c] = u] /\ UNCHANGED obj /\ upd[c].pc = "replace"
    BY <1>7 DEF ReplaceError
  <2>2. /\ u \in Update /\ u.pc = "error" /\ u.m = upd[c].m
        /\ u.applied = upd[c].applied
    BY <1>1 DEF Update, UpdatePhases
  <2> QED
    BY <2>1, <2>2, EndsInFail
<1>8. CASE Cut(c)
  <2> DEFINE u == [upd[c] EXCEPT !.pc = "cut", !.flying = (upd[c].pc = "replace"),
                                 !.since = 0]
  <2>1. upd' = [upd EXCEPT ![c] = u] /\ UNCHANGED obj /\ upd[c].pc \in {"get", "replace"}
    BY <1>8 DEF Cut
  <2>2. u \in Update /\ u.pc = "cut" /\ u.m = upd[c].m /\ u.applied = upd[c].applied
    BY <1>1 DEF Update, UpdatePhases
  <2> QED
    BY <2>1, <2>2, EndsInFail
<1>9. CASE Land(c)
  <2> DEFINE u == [upd[c] EXCEPT !.flying = FALSE, !.applied = TRUE]
  <2>1. upd' = [upd EXCEPT ![c] = u] /\ Replace(c) /\ upd[c].flying
    BY <1>9 DEF Land
  <2>2. u \in Update /\ u.pc = upd[c].pc /\ u.m = upd[c].m /\ u.applied = TRUE
    BY <1>1 DEF Update, UpdatePhases
  <2>3. upd[c].pc \in {"error", "cut"}
    BY <1>1, <2>1 DEF Update, UpdatePhases, CallerOK, CallOK
  <2> QED
    BY <2>1, <2>2, <2>3, AppliedIsCommit
<1> QED
  BY <1>3, <1>4, <1>5, <1>6, <1>7, <1>8, <1>9 DEF UpdateStep

LEMMA EnvironmentRefines ==
  ASSUME StoreInv, Environment
  PROVE  [Atomic!Next]_(Atomic!vars)
<1>1. obj \in Object /\ obj.status \in Status /\ obj.exists \in BOOLEAN
  BY DEF StoreInv, StoreTypeOK, Object
<1>2. UNCHANGED Calls
  BY DEF Environment, Patch, EditSpec, Delete, Create, Calls, AbstractCall
<1>3. ASSUME NEW v \in Conditions, Patch(v) PROVE Atomic!Patch
  <2> DEFINE s == [obj.status EXCEPT !.valid = v]
  <2>1. obj' = [obj EXCEPT !.status = s, !.version = obj.version + 1] /\ obj.exists
    BY <1>3 DEF Patch
  <2> HIDE DEF s
  <2>2. obj'.status = s /\ obj'.exists = obj.exists
    BY <1>1, <2>1 DEF Object
  <2> QED
    BY <1>2, <2>1, <2>2 DEF s, Atomic!Patch, Calls
<1>4. ASSUME NEW s \in Specs, EditSpec(s) PROVE UNCHANGED Atomic!vars
  <2>1. obj'.status = obj.status /\ obj'.exists = obj.exists
    BY <1>1, <1>4 DEF EditSpec, Object
  <2> QED
    BY <1>2, <2>1 DEF Atomic!vars, Calls
<1>5. CASE Delete
  <2>1. obj'.status = obj.status /\ obj.exists /\ obj'.exists = FALSE
    BY <1>1, <1>5 DEF Delete, Object
  <2>2. UNCHANGED [c \in Actors |-> AbstractCall(c)]
    BY <1>2 DEF Calls
  <2>3. Atomic!Delete
    BY <2>1, <2>2 DEF Atomic!Delete
  <2> QED
    BY <2>3 DEF Atomic!Next
<1>6. ASSUME NEW s \in Specs, Create(s) PROVE Atomic!Create
  <2>1. obj'.status = DefaultStatus /\ ~obj.exists /\ obj'.exists = TRUE
    BY <1>6 DEF Create
  <2> QED
    BY <1>2, <2>1, SameDefault DEF Atomic!Create, Calls
<1> QED
  BY <1>3, <1>4, <1>5, <1>6 DEF Environment, Atomic!Next

\* KubeRepository keeps the promise of Repository::update_status: whatever the
\* interleaving, each mutation takes effect in one step, at most once, and
\* before its caller is told Ok.
THEOREM UpdateIsAtomic == StoreSpec => AtomicSpec
<1>1. StoreInit => Atomic!Init
  <2> SUFFICES ASSUME StoreInit PROVE Atomic!Init
    OBVIOUS
  <2>1. obj.exists = TRUE /\ obj.status = DefaultStatus
    BY DEF StoreInit
  <2>2. ASSUME NEW c \in Actors
        PROVE  AbstractCall(c) = [phase |-> "idle", m |-> None, applied |-> FALSE]
    BY DEF StoreInit, AbstractCall, IdleUpdate
  <2> QED
    BY <2>1, <2>2, SameDefault DEF Atomic!Init
<1>2. StoreInv /\ [StoreNext]_storeVars => [Atomic!Next]_(Atomic!vars)
  <2> SUFFICES ASSUME StoreInv, [StoreNext]_storeVars
               PROVE  [Atomic!Next]_(Atomic!vars)
    OBVIOUS
  <2>1. ASSUME NEW c \in Actors, NEW m \in Mutations, Call(c, m)
        PROVE  Atomic!Next
    BY <2>1, CallIsOpen DEF Atomic!Next
  <2>2. ASSUME NEW c \in Actors, UpdateStep(c) \/ Cut(c) \/ Land(c)
        PROVE  [Atomic!Next]_(Atomic!vars)
    BY <2>2, UpdateStepRefines DEF Atomic!Next
  <2>3. CASE Environment
    BY <2>3, EnvironmentRefines
  <2>4. CASE UNCHANGED storeVars
    BY <2>4 DEF storeVars, Atomic!vars, AbstractCall
  <2> QED
    BY <2>1, <2>2, <2>3, <2>4 DEF StoreNext
<1> QED
  BY <1>1, <1>2, StoreInvariant, PTL DEF StoreSpec, AtomicSpec, Atomic!Spec
=============================================================================
