--------------------------- MODULE RotationProofs ---------------------------
(***************************************************************************)
(* What the admin, the audit event and the history say of a rotation is    *)
(* so: proofs for any number of requests, any specs, targets and expiries, *)
(* any history limit and any number of attempts to save the status.        *)
(*                                                                         *)
(* The store's invariant is kept by the requests' steps too.  What has to  *)
(* be added ties the three records of one request together: how far its    *)
(* handler is, which mutation its update_status carries, and which writes  *)
(* have reached the targets.                                               *)
(***************************************************************************)
EXTENDS Rotation, StatusStoreProofs

Untouched(r, ld, lt) == \A t \in Targets : <<r, t>> \notin ld \cup lt

\* The targets before next have an outcome, in the order of the spec.
ProgressOK(q) ==
  /\ q.next >= 1
  /\ q.pc \in {"probe", "reject", "write"} => q.spec # None /\ q.kind = "rotate"
  /\ q.pc = "probe" => q.next = 1
  /\ q.kind = "record" => DOMAIN q.ok = {}
  /\ q.spec # None =>
       /\ q.spec.targets # <<>>
       /\ q.next <= Len(q.spec.targets) + 1
       /\ DOMAIN q.ok = {q.spec.targets[i] : i \in 1..(q.next - 1)}

\* A good outcome stands for a write that reached the target; nothing is
\* written before the provider has been asked, or for a refused submission.
WritesOK(r, q, ld, lt) ==
  /\ \A t \in DOMAIN q.ok : q.ok[t] => <<r, t>> \in ld
  /\ q.pc \in {"idle", "probe", "reject"} \/ q.result \in Refusals =>
       Untouched(r, ld, lt)

\* The mutation that is being saved is the one of this request, whose writes
\* have all been answered.
SaveOK(q, u) ==
  /\ q.pc \in {"idle", "probe", "reject", "write"} \/ q.result \in Refusals =>
       u.pc = "idle"
  /\ q.pc \in {"save", "publish"} => u.pc # "idle"
  /\ u.pc # "idle" =>
       \/ q.kind = "record" /\ u.m.kind = "Recorded"
       \/ /\ q.kind = "rotate" /\ u.m.kind = "Rotated" /\ u.m.ok = q.ok
          /\ q.spec # None /\ q.next = Len(q.spec.targets) + 1

\* What the request was answered and what its event says.
AnswerOK(q, u) ==
  /\ q.pc # "done" => q.result = "none" /\ q.event = "none"
  /\ q.pc = "publish" => u.applied
  /\ q.event = "RotationRejected" => q.result = "Probe"
  /\ q.result = "ok" \/ q.event = "Rotated" =>
       u.pc # "idle" /\ u.applied /\ q.kind = "rotate" /\ Completed(q.ok)
  /\ q.result \in {"partial", "failed"} \/ q.event = "RotationFailed" =>
       u.pc # "idle" /\ u.applied /\ q.kind = "rotate" /\ ~Completed(q.ok)
  /\ q.result = "recorded" \/ q.event = "Recorded" => u.applied

RequestOK(r, q, u, ld, lt) ==
  ProgressOK(q) /\ WritesOK(r, q, ld, lt) /\ SaveOK(q, u) /\ AnswerOK(q, u)

RequestInv == \A r \in Actors : RequestOK(r, req[r], upd[r], landed, late)

\* The history's entries are those of the mutations that record one.
LogOK == \A i \in 1..Len(log) : /\ log[i].kind = upd[log[i].by].m.kind
                                /\ Records(upd[log[i].by].m)

RotInv == RotTypeOK /\ StoreInv /\ RequestInv /\ LogOK

\* The two dialogs of a rotation that was recorded or failed at some target.
LEMMA HeadingFacts ==
  ASSUME NEW r
  PROVE  /\ Heading(r) = "Key rotated" => req[r].result = "ok"
         /\ Heading(r) = "Some targets failed" => req[r].result \in {"partial", "failed"}
<1>1. /\ Label(r) = "ok" => req[r].result = "ok"
      /\ Label(r) \in {"partial", "failed"} => req[r].result \in {"partial", "failed"}
      /\ Label(r) \in {"ok", "partial", "failed", "rejected"}
  BY DEF Label
<1> HIDE DEF Label
<1> QED
  BY <1>1 DEF Heading

\* The invariant gives the properties the runs check.
LEMMA RotInvImplies ==
  RotInv => RotTypeOK /\ RotatedMeansWritten /\ AcknowledgementsAreTrue /\ RefusedWroteNothing
<1> SUFFICES ASSUME RotInv
             PROVE  RotatedMeansWritten /\ AcknowledgementsAreTrue /\ RefusedWroteNothing
  BY DEF RotInv
<1>1. \A r \in Actors : /\ ProgressOK(req[r]) /\ WritesOK(r, req[r], landed, late)
                        /\ SaveOK(req[r], upd[r]) /\ AnswerOK(req[r], upd[r])
                        /\ req[r] \in Request
  BY DEF RotInv, RequestInv, RequestOK, RotTypeOK
<1>2. \A r \in Actors : req[r].spec # None => req[r].spec.targets \in Seq(Targets)
  BY <1>1, SpecsAssumption DEF Request, KeySpec
<1>3. ASSUME NEW r \in Actors, upd[r].pc # "idle", req[r].kind = "rotate"
      PROVE  /\ upd[r].m.ok = req[r].ok /\ upd[r].m.kind = "Rotated"
             /\ req[r].spec # None /\ req[r].spec.targets # <<>>
             /\ DOMAIN req[r].ok = RefsOf(req[r].spec)
  <2>1. /\ upd[r].m.ok = req[r].ok /\ upd[r].m.kind = "Rotated"
        /\ req[r].spec # None /\ req[r].next = Len(req[r].spec.targets) + 1
    BY <1>1, <1>3 DEF SaveOK
  <2>2. req[r].spec.targets # <<>>
        /\ DOMAIN req[r].ok = {req[r].spec.targets[i] : i \in 1..(req[r].next - 1)}
    BY <1>1, <2>1 DEF ProgressOK
  <2>3. Len(req[r].spec.targets) + 1 - 1 = Len(req[r].spec.targets)
    BY <1>2, <2>1
  <2> QED
    BY <2>1, <2>2, <2>3 DEF RefsOf
<1>4. \A i \in 1..Len(log) : /\ log[i].by \in Actors /\ upd[log[i].by].applied
                             /\ upd[log[i].by].pc # "idle"
                             /\ log[i].kind = upd[log[i].by].m.kind
                             /\ Records(upd[log[i].by].m)
  BY DEF RotInv, StoreInv, LogInv, CallerInv, CallerOK, CallOK, LogOK
<1>5. ASSUME NEW r \in Actors, Completed(req[r].ok), DOMAIN req[r].ok = RefsOf(req[r].spec)
      PROVE  \A t \in RefsOf(req[r].spec) : <<r, t>> \in landed
  BY <1>1, <1>5 DEF WritesOK, Completed
<1>6. RotatedMeansWritten
  <2> SUFFICES ASSUME NEW i \in 1..Len(log), log[i].kind = "Rotated"
               PROVE  LET r == log[i].by
                      IN  /\ req[r].spec # None /\ req[r].spec.targets # <<>>
                          /\ \A t \in RefsOf(req[r].spec) : <<r, t>> \in landed
    BY DEF RotatedMeansWritten
  <2> DEFINE r == log[i].by
  <2>1. r \in Actors /\ upd[r].pc # "idle" /\ upd[r].m.kind = "Rotated"
        /\ Completed(upd[r].m.ok)
    BY <1>4 DEF Records
  <2>2. req[r].kind = "rotate"
    BY <1>1, <2>1 DEF SaveOK
  <2> QED
    BY <1>3, <1>5, <2>1, <2>2
<1>7. AcknowledgementsAreTrue
  <2> SUFFICES
        ASSUME NEW r \in Actors
        PROVE  /\ (req[r].result = "ok" \/ req[r].event = "Rotated") =>
                    /\ upd[r].applied
                    /\ \A t \in RefsOf(req[r].spec) : <<r, t>> \in landed
               /\ (req[r].result = "recorded" \/ req[r].event = "Recorded") =>
                    upd[r].applied
               /\ req[r].event = "RotationRejected" =>
                    \A t \in Targets : <<r, t>> \notin landed
               /\ (req[r].result \in {"partial", "failed"}
                   \/ req[r].event = "RotationFailed") =>
                    /\ upd[r].applied
                    /\ \A i \in 1..Len(log) : log[i].by # r
                    /\ \E t \in RefsOf(req[r].spec) : ~req[r].ok[t]
    BY HeadingFacts DEF AcknowledgementsAreTrue
  <2>1. CASE req[r].result = "ok" \/ req[r].event = "Rotated"
    <3>1. upd[r].pc # "idle" /\ upd[r].applied /\ req[r].kind = "rotate"
          /\ Completed(req[r].ok)
      BY <1>1, <2>1 DEF AnswerOK
    <3>2. \A t \in RefsOf(req[r].spec) : <<r, t>> \in landed
      BY <1>3, <1>5, <3>1
    <3>3. ~(req[r].result \in {"partial", "failed"} \/ req[r].event = "RotationFailed")
      BY <1>1, <3>1 DEF AnswerOK
    <3>4. req[r].event # "RotationRejected"
      BY <1>1, <2>1 DEF AnswerOK
    <3> QED
      BY <3>1, <3>2, <3>3, <3>4
  <2>2. CASE req[r].event = "RotationRejected"
    <3>1. req[r].result \in Refusals /\ req[r].result = "Probe"
      BY <1>1, <2>2 DEF AnswerOK, Refusals
    <3>2. \A t \in Targets : <<r, t>> \notin landed
      BY <1>1, <3>1 DEF WritesOK, Untouched
    <3>3. req[r].result = "recorded" \/ req[r].event = "Recorded" => upd[r].applied
      BY <1>1 DEF AnswerOK
    <3> QED
      BY <2>2, <3>1, <3>2, <3>3 DEF Refusals
  <2>3. CASE req[r].result \in {"partial", "failed"} \/ req[r].event = "RotationFailed"
    <3>1. upd[r].pc # "idle" /\ upd[r].applied /\ req[r].kind = "rotate"
          /\ ~Completed(req[r].ok)
      BY <1>1, <2>3 DEF AnswerOK
    <3>2. upd[r].m.ok = req[r].ok /\ upd[r].m.kind = "Rotated"
          /\ DOMAIN req[r].ok = RefsOf(req[r].spec)
      BY <1>3, <3>1
    <3>3. ~Records(upd[r].m)
      BY <3>1, <3>2 DEF Records
    <3>4. \A i \in 1..Len(log) : log[i].by # r
      BY <1>4, <3>3
    <3>5. \E t \in RefsOf(req[r].spec) : ~req[r].ok[t]
      BY <3>1, <3>2 DEF Completed
    <3>6. ~(req[r].result = "ok" \/ req[r].event = "Rotated")
      BY <1>1, <3>1 DEF AnswerOK
    <3>7. req[r].event # "RotationRejected"
      BY <1>1, <2>3 DEF AnswerOK
    <3> QED
      BY <3>1, <3>4, <3>5, <3>6, <3>7
  <2>4. CASE /\ ~(req[r].result = "ok" \/ req[r].event = "Rotated")
             /\ req[r].event # "RotationRejected"
             /\ ~(req[r].result \in {"partial", "failed"} \/ req[r].event = "RotationFailed")
    BY <1>1, <2>4 DEF AnswerOK
  <2> QED
    BY <2>1, <2>2, <2>3, <2>4
<1>8. RefusedWroteNothing
  BY <1>1 DEF RefusedWroteNothing, WritesOK, SaveOK, Untouched
<1> QED
  BY <1>6, <1>7, <1>8

-----------------------------------------------------------------------------
\* What holds of a request is not disturbed by the steps of others: its update
\* keeps its mutation, and no write of its own is added.
LEMMA RequestKept ==
  ASSUME NEW r, NEW q, NEW u, NEW v, NEW ld, NEW lt, NEW ld2, NEW lt2,
         RequestOK(r, q, u, ld, lt),
         v.m = u.m, v.pc = "idle" <=> u.pc = "idle", u.applied => v.applied,
         ld \subseteq ld2,
         \A t \in Targets : <<r, t>> \in ld2 \cup lt2 => <<r, t>> \in ld \cup lt
  PROVE  RequestOK(r, q, v, ld2, lt2)
<1>1. ProgressOK(q)
  BY DEF RequestOK
<1>2. WritesOK(r, q, ld2, lt2)
  BY DEF RequestOK, WritesOK, Untouched
<1>3. SaveOK(q, v)
  BY DEF RequestOK, SaveOK
<1>4. AnswerOK(q, v)
  BY DEF RequestOK, AnswerOK
<1> QED
  BY <1>1, <1>2, <1>3, <1>4 DEF RequestOK

\* How the store's steps move the updates and the log.
UpdatesMove ==
  \A c \in Actors : /\ upd'[c].m = upd[c].m
                    /\ upd'[c].pc = "idle" <=> upd[c].pc = "idle"
                    /\ upd[c].applied => upd'[c].applied

LEMMA OneUpdateMoves ==
  ASSUME upd \in [Actors -> Update], NEW c \in Actors, NEW u,
         upd' = [upd EXCEPT ![c] = u], u.m = upd[c].m,
         u.pc = "idle" <=> upd[c].pc = "idle", upd[c].applied => u.applied
  PROVE  UpdatesMove
<1>1. upd'[c] = u /\ \A d \in Actors : d # c => upd'[d] = upd[d]
  OBVIOUS
<1> QED
  BY <1>1 DEF UpdatesMove

\* The log stays true as long as updates keep their mutations.
LEMMA LogKept ==
  ASSUME StoreInv, LogOK, UpdatesMove, log' = log \/ log' = <<>>
  PROVE  LogOK'
<1>1. \A i \in 1..Len(log) : log[i].by \in Actors
  BY DEF StoreInv, LogInv
<1>2. CASE log' = log
  BY <1>1, <1>2 DEF LogOK, UpdatesMove
<1>3. CASE log' = <<>>
  BY <1>3 DEF LogOK
<1> QED
  BY <1>2, <1>3

\* A replace that is applied logs the mutation of the update it belongs to.
LEMMA ReplaceLogs ==
  ASSUME StoreInv, LogOK, UpdatesMove, NEW c \in Actors, Replace(c),
         upd[c].pc = "replace" \/ upd[c].flying
  PROVE  LogOK'
<1> DEFINE m == upd[c].m
           e == EntryOf(m)
<1>1. upd[c].pc # "idle" /\ m \in Mutation /\ m.by = c
  BY DEF StoreInv, CallerInv, CallerOK, CallOK
<1>2. CASE ~Records(m)
  BY <1>2, LogKept DEF Replace
<1>3. CASE Records(m)
  <2>1. log \in Seq(HistoryEntry) /\ \A i \in 1..Len(log) : log[i].by \in Actors
    BY DEF StoreInv, StoreTypeOK, LogInv
  <2>2. e.by = c /\ e.kind = m.kind
    BY <1>1 DEF EntryOf
  <2>3. log' = Append(log, e)
    BY <1>3 DEF Replace
  <2> HIDE DEF e
  <2>4. /\ Len(log') = Len(log) + 1 /\ log'[Len(log) + 1] = e
        /\ \A i \in 1..Len(log) : log'[i] = log[i]
    BY <2>1, <2>3
  <2>5. Len(log) \in Nat
    BY <2>1
  <2>6. ASSUME NEW i \in 1..Len(log')
        PROVE  /\ log'[i].kind = upd'[log'[i].by].m.kind
               /\ Records(upd'[log'[i].by].m)
    <3>1. CASE i = Len(log) + 1
      BY <1>3, <2>2, <2>4, <3>1 DEF UpdatesMove
    <3>2. CASE i \in 1..Len(log)
      BY <2>1, <2>4, <3>2 DEF UpdatesMove, LogOK
    <3> QED
      BY <2>4, <2>5, <3>1, <3>2
  <2> QED
    BY <2>6 DEF LogOK
<1> QED
  BY <1>2, <1>3

LEMMA UpdateStepMoves ==
  ASSUME StoreInv, LogOK, NEW c \in Actors, UpdateStep(c)
  PROVE  UpdatesMove /\ LogOK'
<1>1. upd \in [Actors -> Update] /\ upd[c] \in Update
  BY DEF StoreInv, StoreTypeOK
<1>2. ASSUME NEW why, upd[c].pc \in {"get", "replace"}, Fail(c, why)
      PROVE  UpdatesMove /\ log' = log
  <2> DEFINE u == [upd[c] EXCEPT !.pc = "error", !.reason = why, !.since = 0]
  <2>1. upd' = [upd EXCEPT ![c] = u] /\ log' = log
    BY <1>2 DEF Fail
  <2>2. u.m = upd[c].m /\ u.pc = "error" /\ u.applied = upd[c].applied
    BY <1>1 DEF Update
  <2> HIDE DEF u
  <2> QED
    BY <1>1, <1>2, <2>1, <2>2, OneUpdateMoves
<1>3. CASE Get(c)
  <2> DEFINE u == [upd[c] EXCEPT !.pc = "replace", !.version = obj.version,
                                 !.base = obj.status]
  <2>1. upd' = [upd EXCEPT ![c] = u] /\ log' = log /\ upd[c].pc = "get"
    BY <1>3 DEF Get
  <2>2. u.m = upd[c].m /\ u.pc = "replace" /\ u.applied = upd[c].applied
    BY <1>1 DEF Update
  <2> HIDE DEF u
  <2> QED
    BY <1>1, <2>1, <2>2, OneUpdateMoves, LogKept
<1>4. CASE GetNotFound(c)
  BY <1>2, <1>4, LogKept DEF GetNotFound
<1>5. CASE GetError(c)
  BY <1>2, <1>5, LogKept DEF GetError
<1>6. CASE ReplaceOk(c)
  <2> DEFINE u == [upd[c] EXCEPT !.pc = "ok", !.applied = TRUE, !.since = 0]
  <2>1. upd' = [upd EXCEPT ![c] = u] /\ upd[c].pc = "replace" /\ Replace(c)
    BY <1>6 DEF ReplaceOk
  <2>2. u.m = upd[c].m /\ u.pc = "ok" /\ u.applied
    BY <1>1 DEF Update
  <2> HIDE DEF u
  <2>3. UpdatesMove
    BY <1>1, <2>1, <2>2, OneUpdateMoves
  <2> QED
    BY <2>1, <2>3, ReplaceLogs
<1>7. CASE ReplaceConflict(c)
  <2>1. CASE upd[c].attempt < MAX_STATUS_ATTEMPTS
    <3> DEFINE u == [upd[c] EXCEPT !.pc = "get", !.attempt = @ + 1]
    <3>1. upd' = [upd EXCEPT ![c] = u] /\ log' = log /\ upd[c].pc = "replace"
      BY <1>7, <2>1 DEF ReplaceConflict
    <3>2. u.m = upd[c].m /\ u.pc = "get" /\ u.applied = upd[c].applied
      BY <1>1 DEF Update
    <3> HIDE DEF u
    <3> QED
      BY <1>1, <3>1, <3>2, OneUpdateMoves, LogKept
  <2>2. CASE ~(upd[c].attempt < MAX_STATUS_ATTEMPTS)
    BY <1>2, <1>7, <2>2, LogKept DEF ReplaceConflict
  <2> QED
    BY <2>1, <2>2
<1>8. CASE ReplaceGone(c)
  BY <1>2, <1>8, LogKept DEF ReplaceGone
<1>9. CASE ReplaceError(c)
  <2> DEFINE u == [upd[c] EXCEPT !.pc = "error", !.reason = "Api", !.flying = TRUE,
                                 !.since = 0]
  <2>1. upd' = [upd EXCEPT ![c] = u] /\ log' = log /\ upd[c].pc = "replace"
    BY <1>9 DEF ReplaceError
  <2>2. u.m = upd[c].m /\ u.pc = "error" /\ u.applied = upd[c].applied
    BY <1>1 DEF Update
  <2> HIDE DEF u
  <2> QED
    BY <1>1, <2>1, <2>2, OneUpdateMoves, LogKept
<1> QED
  BY <1>3, <1>4, <1>5, <1>6, <1>7, <1>8, <1>9 DEF UpdateStep

LEMMA CutMoves ==
  ASSUME StoreInv, LogOK, NEW c \in Actors, Cut(c)
  PROVE  UpdatesMove /\ LogOK'
<1>1. upd \in [Actors -> Update] /\ upd[c] \in Update
  BY DEF StoreInv, StoreTypeOK
<1> DEFINE u == [upd[c] EXCEPT !.pc = "cut", !.flying = (upd[c].pc = "replace"),
                               !.since = 0]
<1>2. upd' = [upd EXCEPT ![c] = u] /\ log' = log /\ upd[c].pc \in {"get", "replace"}
  BY DEF Cut
<1>3. u.m = upd[c].m /\ u.pc = "cut" /\ u.applied = upd[c].applied
  BY <1>1 DEF Update
<1> HIDE DEF u
<1> QED
  BY <1>1, <1>2, <1>3, OneUpdateMoves, LogKept

LEMMA LandMoves ==
  ASSUME StoreInv, LogOK, NEW c \in Actors, Land(c)
  PROVE  UpdatesMove /\ LogOK'
<1>1. upd \in [Actors -> Update] /\ upd[c] \in Update
  BY DEF StoreInv, StoreTypeOK
<1> DEFINE u == [upd[c] EXCEPT !.flying = FALSE, !.applied = TRUE]
<1>2. upd' = [upd EXCEPT ![c] = u] /\ upd[c].flying /\ Replace(c)
  BY DEF Land
<1>3. u.m = upd[c].m /\ u.pc = upd[c].pc /\ u.applied
  BY <1>1 DEF Update
<1> HIDE DEF u
<1>4. UpdatesMove
  BY <1>1, <1>2, <1>3, OneUpdateMoves
<1> QED
  BY <1>2, <1>4, ReplaceLogs

LEMMA EnvironmentMoves ==
  ASSUME StoreInv, LogOK, Environment
  PROVE  UpdatesMove /\ LogOK'
<1>1. UNCHANGED upd /\ (log' = log \/ log' = <<>>)
  BY DEF Environment, Patch, EditSpec, Create, Delete
<1>2. UpdatesMove
  BY <1>1 DEF UpdatesMove
<1> QED
  BY <1>1, <1>2, LogKept

\* A restart cuts every update that is on its way.
LEMMA RestartKeepsStore ==
  ASSUME StoreInv, LogOK, Restart
  PROVE  StoreInv' /\ UpdatesMove /\ LogOK'
<1> DEFINE cut(c) == [upd[c] EXCEPT !.pc = "cut", !.flying = (upd[c].pc = "replace"),
                                    !.since = 0]
<1>1. /\ upd' = [r \in Actors |-> IF upd[r].pc \in {"get", "replace"}
                                  THEN cut(r) ELSE upd[r]]
      /\ UNCHANGED <<obj, log>>
  BY DEF Restart
<1>2. ASSUME NEW c \in Actors
      PROVE  /\ upd'[c] \in Update /\ CallerOK(c, upd'[c], obj)
             /\ upd'[c].m = upd[c].m /\ upd'[c].applied = upd[c].applied
             /\ upd'[c].pc = "idle" <=> upd[c].pc = "idle"
  <2>1. upd[c] \in Update /\ CallerOK(c, upd[c], obj)
    BY DEF StoreInv, StoreTypeOK, CallerInv
  <2>2. CASE upd[c].pc \in {"get", "replace"}
    <3>1. upd'[c] = cut(c)
      BY <1>1, <2>2
    <3>2. cut(c) \in Update
      BY <2>1 DEF Update, UpdatePhases
    <3>3. /\ cut(c).pc = "cut" /\ cut(c).m = upd[c].m
          /\ cut(c).applied = upd[c].applied /\ cut(c).reason = upd[c].reason
          /\ cut(c).version = upd[c].version /\ cut(c).base = upd[c].base
          /\ (cut(c).flying => upd[c].pc = "replace")
      BY <2>1 DEF Update
    <3> HIDE DEF cut
    <3>4. CallerOK(c, cut(c), obj)
      BY <2>1, <2>2, <3>3 DEF CallerOK, CallOK, VersionOK, AttemptOK
    <3> QED
      BY <2>2, <3>1, <3>2, <3>3, <3>4
  <2>3. CASE upd[c].pc \notin {"get", "replace"}
    <3>1. upd'[c] = upd[c]
      BY <1>1, <2>3
    <3> QED
      BY <2>1, <3>1
  <2> QED
    BY <2>2, <2>3
<1> HIDE DEF cut
<1>3. upd' \in [Actors -> Update]
  <2>1. upd' = [r \in Actors |-> upd'[r]]
    BY <1>1
  <2> QED
    BY <1>2, <2>1
<1>4. StoreTypeOK' /\ CallerInv' /\ LogInv'
  BY <1>1, <1>2, <1>3 DEF StoreInv, StoreTypeOK, CallerInv, LogInv
<1>5. HistoryIsLog' /\ HeadAgrees' /\ RecordedOnce' /\ obj'.version >= 1
  BY <1>1 DEF StoreInv, HistoryIsLog, HeadAgrees, RecordedOnce
<1>6. UpdatesMove
  BY <1>2 DEF UpdatesMove
<1> QED
  BY <1>1, <1>4, <1>5, <1>6, LogKept DEF StoreInv

-----------------------------------------------------------------------------
(***************************************************************************)
(* The steps of the requests.                                              *)
(***************************************************************************)

\* A step of request r: it becomes q, its update v, and what holds of the
\* other requests is kept.
LEMMA OwnStep ==
  ASSUME RotInv, StoreInv', LogOK', NEW r \in Actors, NEW q \in Request,
         req' = [req EXCEPT ![r] = q],
         RequestOK(r, q, upd'[r], landed', late'),
         \A c \in Actors : c # r => upd'[c] = upd[c],
         cache' = cache, store' \in [Targets -> Actors \cup {None}], clock' = clock,
         answered' \in [Targets -> BOOLEAN \cup {None}], calm' \in BOOLEAN,
         landed' \subseteq Actors \X Targets, late' \subseteq Actors \X Targets,
         landed \subseteq landed',
         \A c \in Actors, t \in Targets :
           c # r /\ <<c, t>> \in landed' \cup late' => <<c, t>> \in landed \cup late
  PROVE  RotInv'
<1>1. /\ req \in [Actors -> Request] /\ cache \in Specs \cup {None} /\ clock \in Nat
      /\ \A c \in Actors : RequestOK(c, req[c], upd[c], landed, late)
  BY DEF RotInv, RotTypeOK, RequestInv
<1>2. /\ req' \in [Actors -> Request] /\ req'[r] = q
      /\ \A c \in Actors : c # r => req'[c] = req[c]
  BY <1>1
<1>3. RotTypeOK'
  BY <1>1, <1>2 DEF StoreInv, RotTypeOK
<1>4. ASSUME NEW c \in Actors
      PROVE  RequestOK(c, req'[c], upd'[c], landed', late')
  <2>1. CASE c = r
    BY <1>2, <2>1
  <2>2. CASE c # r
    <3>1. req'[c] = req[c] /\ upd'[c] = upd[c]
      BY <1>2, <2>2
    <3> QED
      BY <1>1, <2>2, <3>1, RequestKept
  <2> QED
    BY <2>1, <2>2
<1> QED
  BY <1>3, <1>4 DEF RotInv, RequestInv

\* The same for a step that touches neither the status nor the targets.
LEMMA QuietStep ==
  ASSUME RotInv, NEW r \in Actors, NEW q \in Request,
         req' = [req EXCEPT ![r] = q], RequestOK(r, q, upd[r], landed, late),
         UNCHANGED <<storeVars, cache, store, late, clock, answered, landed>>,
         calm' \in BOOLEAN
  PROVE  RotInv'
<1>1. UNCHANGED <<obj, upd, log>> /\ UNCHANGED storeVars
  BY DEF storeVars
<1>2. StoreInv' /\ UpdatesMove
  BY <1>1, StutterKeepsInv DEF RotInv, UpdatesMove
<1>3. LogOK'
  BY <1>1, <1>2, LogKept DEF RotInv
<1>4. /\ store \in [Targets -> Actors \cup {None}]
      /\ answered \in [Targets -> BOOLEAN \cup {None}]
      /\ landed \subseteq Actors \X Targets /\ late \subseteq Actors \X Targets
  BY DEF RotInv, RotTypeOK
<1> QED
  BY <1>1, <1>2, <1>3, <1>4, OwnStep

\* What the invariant says of one request.
LEMMA RequestFacts ==
  ASSUME RotInv, NEW r \in Actors
  PROVE  /\ req[r] \in Request /\ upd[r] \in Update
         /\ RequestOK(r, req[r], upd[r], landed, late)
         /\ CallOK(r, upd[r])
         /\ calm \in BOOLEAN
         /\ req[r].spec # None =>
              req[r].spec \in Specs /\ req[r].spec.targets \in Seq(Targets)
BY SpecsAssumption
   DEF RotInv, RotTypeOK, RequestInv, StoreInv, StoreTypeOK, CallerInv, CallerOK,
       Request, KeySpec

LEMMA NoOutcome == /\ [t \in {} |-> FALSE] \in Outcomes
                   /\ DOMAIN [t \in {} |-> FALSE] = {}
<1>1. [t \in {} |-> FALSE] \in [{} -> BOOLEAN] /\ {} \in SUBSET Targets
  OBVIOUS
<1> QED
  BY <1>1 DEF Outcomes

LEMMA IdleRequestType == /\ IdleRequest \in Request /\ DOMAIN IdleRequest.ok = {}
                         /\ IdleRequest.spec = None /\ IdleRequest.next = 1
                         /\ IdleRequest.result = "none" /\ IdleRequest.event = "none"
                         /\ IdleRequest.pc = "idle"
BY NoOutcome DEF IdleRequest, Request, Running, MaybeInstant

\* A submission that is refused, when it comes in.
LEMMA RefusedKeepsInv ==
  ASSUME RotInv, NEW r \in Actors, NEW kind \in {"rotate", "record"},
         NEW why \in Refusals, Begin(r, Refused(kind, why)),
         UNCHANGED <<storeVars, cache, store, late, clock, answered, landed>>
  PROVE  RotInv'
<1> DEFINE q == Refused(kind, why)
<1>1. q \in Request
  BY IdleRequestType DEF Refused, Request, Results
<1>2. /\ q.pc = "done" /\ q.kind = kind /\ q.result = why /\ q.event = "none"
      /\ q.spec = None /\ q.next = 1 /\ DOMAIN q.ok = {}
  BY IdleRequestType DEF Refused, Request
<1>3. req[r].pc = "idle" /\ req' = [req EXCEPT ![r] = q] /\ calm' = (calm /\ Quiet)
  BY DEF Begin
<1> HIDE DEF q
<1>4. upd[r].pc = "idle" /\ Untouched(r, landed, late)
  BY <1>3, RequestFacts DEF RequestOK, SaveOK, WritesOK
<1>5. RequestOK(r, q, upd[r], landed, late)
  BY <1>2, <1>4 DEF RequestOK, ProgressOK, WritesOK, SaveOK, AnswerOK, Refusals
<1> QED
  BY <1>1, <1>3, <1>5, QuietStep

LEMMA RotateRefusedKeepsInv ==
  ASSUME RotInv, NEW r \in Actors, RotateRefused(r)
  PROVE  RotInv'
<1>1. PICK blank \in BOOLEAN : Refusal(blank) # None
                               /\ Begin(r, Refused("rotate", Refusal(blank)))
  BY DEF RotateRefused
<1>2. Refusal(blank) \in Refusals
  BY <1>1 DEF Refusal, Refusals
<1> QED
  BY <1>1, <1>2, RefusedKeepsInv DEF RotateRefused

LEMMA RecordRefusedKeepsInv ==
  ASSUME RotInv, NEW r \in Actors, RecordRefused(r)
  PROVE  RotInv'
BY RefusedKeepsInv DEF RecordRefused, Refusals

LEMMA RotateKeepsInv ==
  ASSUME RotInv, NEW r \in Actors, NEW manual \in Expiries, NEW skip \in BOOLEAN,
         Rotate(r, manual, skip)
  PROVE  RotInv'
<1> DEFINE q == [IdleRequest EXCEPT
                   !.kind = "rotate", !.spec = cache, !.manual = manual,
                   !.pc = IF skip \/ ~cache.probed THEN "write" ELSE "probe"]
<1>1. cache # None /\ cache.targets # <<>>
  BY RefusalsAssumption DEF Rotate, Refusal, Refusals
<1>2. cache \in Specs /\ cache.targets \in Seq(Targets) /\ manual \in MaybeInstant
  BY <1>1, SpecsAssumption, ExpiriesAssumption DEF RotInv, RotTypeOK, KeySpec
<1>3. q \in Request
  <2>1. (IF skip \/ ~cache.probed THEN "write" ELSE "probe") \in Running
    BY DEF Running
  <2>2. "rotate" \in {"none", "rotate", "record"} /\ cache \in Specs \cup {None}
    BY <1>2
  <2>3. IdleRequest \in Request
    BY IdleRequestType
  <2> HIDE DEF IdleRequest
  <2> QED
    BY <1>2, <2>1, <2>2, <2>3 DEF Request
<1>4. /\ q.pc \in {"write", "probe"} /\ q.kind = "rotate" /\ q.result = "none"
      /\ q.event = "none" /\ q.spec = cache /\ q.next = 1 /\ DOMAIN q.ok = {}
  BY IdleRequestType DEF Request
<1>5. req[r].pc = "idle" /\ req' = [req EXCEPT ![r] = q] /\ calm' = (calm /\ Quiet)
  BY DEF Rotate, Begin
<1> HIDE DEF q
<1>6. upd[r].pc = "idle" /\ Untouched(r, landed, late)
  BY <1>5, RequestFacts DEF RequestOK, SaveOK, WritesOK
<1>7. ProgressOK(q)
  <2>1. 1 <= Len(cache.targets) + 1 /\ 1..(1 - 1) = {}
    BY <1>2
  <2> QED
    BY <1>1, <1>4, <2>1 DEF ProgressOK
<1>8. RequestOK(r, q, upd[r], landed, late)
  BY <1>4, <1>6, <1>7 DEF RequestOK, WritesOK, SaveOK, AnswerOK, Refusals
<1> QED
  BY <1>3, <1>5, <1>8, QuietStep DEF Rotate

\* The provider's answer.
LEMMA ProbedKeepsInv ==
  ASSUME RotInv, NEW r \in Actors, NEW q \in Request, req[r].pc = "probe",
         req' = [req EXCEPT ![r] = q], q.pc \in {"write", "reject"},
         q.kind = req[r].kind, q.spec = req[r].spec, q.next = req[r].next,
         q.ok = req[r].ok, q.result = req[r].result, q.event = req[r].event,
         UNCHANGED <<storeVars, cache, store, late, clock, answered, landed, calm>>
  PROVE  RotInv'
<1>1. RequestOK(r, req[r], upd[r], landed, late) /\ calm \in BOOLEAN
  BY RequestFacts
<1>2. RequestOK(r, q, upd[r], landed, late)
  BY <1>1 DEF RequestOK, ProgressOK, WritesOK, SaveOK, AnswerOK
<1> QED
  BY <1>1, <1>2, QuietStep

LEMMA ProbeKeepsInv ==
  ASSUME RotInv, NEW r \in Actors,
         (\E e \in Expiries : ProbeOk(r, e)) \/ ProbeNotSupported(r) \/ ProbeFailed(r)
  PROVE  RotInv'
<1>1. req[r] \in Request
  BY RequestFacts
<1>2. ASSUME NEW e \in Expiries, ProbeOk(r, e) PROVE RotInv'
  <2> DEFINE q == [req[r] EXCEPT !.pc = "write", !.probe = [expires |-> e]]
  <2>1. q \in Request
    BY <1>1, ExpiriesAssumption DEF Request, Running
  <2>2. req' = [req EXCEPT ![r] = q]
    BY <1>2 DEF ProbeOk
  <2>3. /\ q.pc = "write" /\ q.kind = req[r].kind /\ q.spec = req[r].spec
        /\ q.next = req[r].next /\ q.ok = req[r].ok /\ q.result = req[r].result
        /\ q.event = req[r].event
    BY <1>1 DEF Request
  <2> HIDE DEF q
  <2> QED
    BY <1>2, <2>1, <2>2, <2>3, ProbedKeepsInv DEF ProbeOk
<1>3. ASSUME ProbeNotSupported(r) PROVE RotInv'
  <2> DEFINE q == [req[r] EXCEPT !.pc = "write"]
  <2>1. q \in Request
    BY <1>1 DEF Request, Running
  <2>2. req' = [req EXCEPT ![r] = q]
    BY <1>3 DEF ProbeNotSupported
  <2>3. /\ q.pc = "write" /\ q.kind = req[r].kind /\ q.spec = req[r].spec
        /\ q.next = req[r].next /\ q.ok = req[r].ok /\ q.result = req[r].result
        /\ q.event = req[r].event
    BY <1>1 DEF Request
  <2> HIDE DEF q
  <2> QED
    BY <1>3, <2>1, <2>2, <2>3, ProbedKeepsInv DEF ProbeNotSupported
<1>4. ASSUME ProbeFailed(r) PROVE RotInv'
  <2> DEFINE q == [req[r] EXCEPT !.pc = "reject"]
  <2>1. q \in Request
    BY <1>1 DEF Request, Running
  <2>2. req' = [req EXCEPT ![r] = q]
    BY <1>4 DEF ProbeFailed
  <2>3. /\ q.pc = "reject" /\ q.kind = req[r].kind /\ q.spec = req[r].spec
        /\ q.next = req[r].next /\ q.ok = req[r].ok /\ q.result = req[r].result
        /\ q.event = req[r].event
    BY <1>1 DEF Request
  <2> HIDE DEF q
  <2> QED
    BY <1>4, <2>1, <2>2, <2>3, ProbedKeepsInv DEF ProbeFailed
<1> QED
  BY <1>2, <1>3, <1>4

LEMMA RejectKeepsInv ==
  ASSUME RotInv, NEW r \in Actors, Reject(r)
  PROVE  RotInv'
<1>1. PICK e \in {"none", "RotationRejected"} :
        req' = [req EXCEPT ![r].pc = "done", ![r].result = "Probe", ![r].event = e]
  BY DEF Reject
<1> DEFINE q == [req[r] EXCEPT !.pc = "done", !.result = "Probe", !.event = e]
<1>2. req' = [req EXCEPT ![r] = q] /\ req[r].pc = "reject"
  BY <1>1 DEF Reject
<1>3. /\ req[r] \in Request /\ RequestOK(r, req[r], upd[r], landed, late)
      /\ calm \in BOOLEAN
  BY RequestFacts
<1>4. q \in Request
  <2>1. "Probe" \in Results
    BY DEF Results, Refusals
  <2> QED
    BY <1>3, <2>1 DEF Request, Running
<1>5. /\ q.pc = "done" /\ q.kind = req[r].kind /\ q.spec = req[r].spec
      /\ q.next = req[r].next /\ q.ok = req[r].ok /\ q.result = "Probe"
      /\ q.event = e
  BY <1>3 DEF Request
<1> HIDE DEF q
<1>6. RequestOK(r, q, upd[r], landed, late)
  BY <1>2, <1>3, <1>5 DEF RequestOK, ProgressOK, WritesOK, SaveOK, AnswerOK
<1> QED
  BY <1>2, <1>3, <1>4, <1>6, QuietStep DEF Reject

\* The target that is being written is one of the spec.
LEMMA WritingFacts ==
  ASSUME RotInv, NEW r \in Actors, Writing(r)
  PROVE  /\ req[r].pc = "write" /\ req[r].spec # None
         /\ req[r].next \in 1..Len(req[r].spec.targets)
         /\ Target(r) \in Targets
<1>1. /\ ProgressOK(req[r]) /\ req[r] \in Request
      /\ req[r].spec # None => req[r].spec.targets \in Seq(Targets)
  BY RequestFacts DEF RequestOK
<1>2. req[r].pc = "write" /\ req[r].next <= Len(req[r].spec.targets)
  BY DEF Writing
<1>3. req[r].spec # None /\ req[r].next >= 1 /\ req[r].next \in Nat
  BY <1>1, <1>2 DEF ProgressOK, Request
<1>4. req[r].next \in 1..Len(req[r].spec.targets)
  BY <1>1, <1>2, <1>3
<1> QED
  BY <1>1, <1>2, <1>3, <1>4 DEF Target

\* The outcome of one write is added to those of the targets before it.
LEMMA AnswerKeepsInv ==
  ASSUME RotInv, NEW r \in Actors, NEW b \in BOOLEAN, Writing(r), Answer(r, b),
         b => <<r, Target(r)>> \in landed',
         UNCHANGED <<storeVars, cache, clock, calm>>,
         store' \in [Targets -> Actors \cup {None}],
         landed' \subseteq landed \cup {<<r, Target(r)>>}, landed \subseteq landed',
         late' \subseteq late \cup {<<r, Target(r)>>}
  PROVE  RotInv'
<1> DEFINE p == req[r]
           x == Target(r)
           k == [t \in DOMAIN p.ok \cup {x} |-> IF t = x THEN b ELSE p.ok[t]]
           q == [p EXCEPT !.ok = k, !.next = @ + 1]
<1>1. /\ p \in Request /\ RequestOK(r, p, upd[r], landed, late)
      /\ p.spec # None => p.spec.targets \in Seq(Targets)
      /\ calm \in BOOLEAN
  BY RequestFacts
<1>2. /\ p.pc = "write" /\ p.spec # None /\ x \in Targets
      /\ p.next \in 1..Len(p.spec.targets) /\ x = p.spec.targets[p.next]
  BY WritingFacts DEF Target
<1>3. p.next \in Nat /\ p.next + 1 \in Nat /\ p.next + 1 - 1 = p.next
      /\ p.next + 1 >= 1
      /\ p.next + 1 <= Len(p.spec.targets) + 1
      /\ 1..p.next = 1..(p.next - 1) \cup {p.next}
  <2> DEFINE n == p.next
             l == Len(p.spec.targets)
  <2>1. l \in Nat /\ n \in 1..l
    BY <1>1, <1>2
  <2> HIDE DEF n, l
  <2>2. n \in Nat /\ n + 1 \in Nat /\ n + 1 - 1 = n /\ n + 1 >= 1 /\ n + 1 <= l + 1
    BY <2>1
  <2>3. 1..n = 1..(n - 1) \cup {n}
    BY <2>1
  <2> QED
    BY <2>2, <2>3 DEF n, l
<1>4. k \in Outcomes
  <2>1. DOMAIN p.ok \in SUBSET Targets /\ p.ok \in [DOMAIN p.ok -> BOOLEAN]
    BY <1>1 DEF Request, Outcomes
  <2>2. DOMAIN p.ok \cup {x} \in SUBSET Targets
    BY <1>2, <2>1
  <2>3. k \in [DOMAIN p.ok \cup {x} -> BOOLEAN]
    BY <2>1
  <2> QED
    BY <2>2, <2>3 DEF Outcomes
<1>5. DOMAIN k = DOMAIN p.ok \cup {x}
      /\ \A t \in DOMAIN k : k[t] = IF t = x THEN b ELSE p.ok[t]
  OBVIOUS
<1>6. req' = [req EXCEPT ![r] = q] /\ answered' = [answered EXCEPT ![x] = b]
  BY DEF Answer
<1> HIDE DEF k
<1>7. q \in Request
  BY <1>1, <1>3, <1>4 DEF Request
<1>8. /\ q.pc = "write" /\ q.kind = p.kind /\ q.spec = p.spec /\ q.next = p.next + 1
      /\ q.ok = k /\ q.result = p.result /\ q.event = p.event
  BY <1>1, <1>2 DEF Request
<1> HIDE DEF q
<1>9. ProgressOK(q)
  <2>1. DOMAIN p.ok = {p.spec.targets[i] : i \in 1..(p.next - 1)}
        /\ p.spec.targets # <<>> /\ p.kind = "rotate"
    BY <1>1, <1>2 DEF RequestOK, ProgressOK
  <2>2. DOMAIN k = {p.spec.targets[i] : i \in 1..p.next}
    <3>1. {p.spec.targets[i] : i \in 1..(p.next - 1) \cup {p.next}} =
            {p.spec.targets[i] : i \in 1..(p.next - 1)} \cup {p.spec.targets[p.next]}
      OBVIOUS
    <3> QED
      BY <1>2, <1>3, <1>5, <2>1, <3>1
  <2>3. q.next - 1 = p.next
    BY <1>3, <1>8
  <2>4. q.next >= 1 /\ q.next <= Len(q.spec.targets) + 1
    BY <1>3, <1>8
  <2>5. DOMAIN q.ok = {q.spec.targets[i] : i \in 1..(q.next - 1)}
    BY <1>8, <2>2, <2>3
  <2>6. q.pc # "probe" /\ q.kind # "record" /\ q.kind = "rotate" /\ q.spec # None
        /\ q.spec.targets # <<>>
    BY <1>2, <1>8, <2>1
  <2> QED
    BY <2>4, <2>5, <2>6 DEF ProgressOK
<1>10. WritesOK(r, q, landed', late')
  <2>1. p.result = "none" /\ \A t \in DOMAIN p.ok : p.ok[t] => <<r, t>> \in landed
    BY <1>1, <1>2 DEF RequestOK, WritesOK, AnswerOK
  <2>2. \A t \in DOMAIN k : k[t] => <<r, t>> \in landed'
    BY <1>5, <2>1
  <2> QED
    BY <1>8, <2>1, <2>2 DEF WritesOK, Refusals
<1>11. SaveOK(q, upd[r]) /\ AnswerOK(q, upd[r])
  <2>1. upd[r].pc = "idle" /\ p.result = "none" /\ p.event = "none"
    BY <1>1, <1>2 DEF RequestOK, SaveOK, AnswerOK
  <2> QED
    BY <1>8, <2>1 DEF SaveOK, AnswerOK
<1>12. UNCHANGED <<obj, upd, log>>
  BY DEF storeVars
<1>13. StoreInv' /\ UpdatesMove
  BY <1>12, StutterKeepsInv DEF RotInv, UpdatesMove
<1>14. LogOK'
  BY <1>12, <1>13, LogKept DEF RotInv
<1>15. RequestOK(r, q, upd'[r], landed', late')
  BY <1>9, <1>10, <1>11, <1>12 DEF RequestOK
<1>16. /\ answered' \in [Targets -> BOOLEAN \cup {None}]
       /\ landed' \subseteq Actors \X Targets /\ late' \subseteq Actors \X Targets
       /\ \A c \in Actors, t \in Targets :
            c # r /\ <<c, t>> \in landed' \cup late' => <<c, t>> \in landed \cup late
  <2> HIDE DEF x, p
  <2>1. /\ answered \in [Targets -> BOOLEAN \cup {None}]
        /\ landed \subseteq Actors \X Targets /\ late \subseteq Actors \X Targets
    BY DEF RotInv, RotTypeOK
  <2>2. /\ landed' \subseteq landed \cup {<<r, x>>}
        /\ late' \subseteq late \cup {<<r, x>>}
    BY DEF x
  <2> QED
    BY <1>2, <1>6, <2>1, <2>2
<1> QED
  BY <1>1, <1>6, <1>7, <1>12, <1>13, <1>14, <1>15, <1>16, OwnStep

LEMMA WriteKeepsInv ==
  ASSUME RotInv, NEW r \in Actors, WriteOk(r) \/ WriteRefused(r) \/ WriteUnanswered(r)
  PROVE  RotInv'
<1>1. store \in [Targets -> Actors \cup {None}]
  BY DEF RotInv, RotTypeOK
<1>2. CASE WriteOk(r)
  BY <1>1, <1>2, AnswerKeepsInv DEF WriteOk
<1>3. CASE WriteRefused(r)
  BY <1>1, <1>3, AnswerKeepsInv DEF WriteRefused
<1>4. CASE WriteUnanswered(r)
  BY <1>1, <1>4, AnswerKeepsInv DEF WriteUnanswered
<1> QED
  BY <1>2, <1>3, <1>4

\* The mutation that is handed to update_status.
LEMMA RotatedMutationType ==
  ASSUME RotInv, NEW r \in Actors
  PROVE  RotatedMutation(r) \in Mutation
<1>1. req[r] \in Request /\ clock \in Nat
  BY DEF RotInv, RotTypeOK
<1>2. /\ req[r].manual \in MaybeInstant /\ req[r].ok \in Outcomes
      /\ req[r].probe \in [expires : MaybeInstant] \cup {None}
  BY <1>1 DEF Request
<1>3. (IF req[r].probe = None THEN None
       ELSE [at |-> clock, expires |-> req[r].probe.expires]) \in ProbeStatus \cup {None}
  BY <1>1, <1>2 DEF ProbeStatus, Instant
<1> QED
  BY <1>1, <1>2, <1>3 DEF RotatedMutation, Mutation, Instant

\* A call touches no other update, and its own has logged nothing yet.
LEMMA CallLogKept ==
  ASSUME RotInv, NEW r \in Actors, NEW m \in Mutation, Call(r, m)
  PROVE  /\ StoreInv' /\ LogOK' /\ upd'[r].m = m /\ upd'[r].pc = "get"
         /\ \A c \in Actors : c # r => upd'[c] = upd[c]
<1>1. /\ upd \in [Actors -> Update] /\ CallOK(r, upd[r]) /\ upd[r].pc = "idle"
      /\ \A i \in 1..Len(log) : log[i].by \in Actors /\ upd[log[i].by].applied
  BY DEF RotInv, StoreInv, StoreTypeOK, CallerInv, CallerOK, LogInv, Call
<1> DEFINE u == [upd[r] EXCEPT !.pc = "get", !.attempt = 1, !.m = m,
                               !.since = obj.version]
<1>2. upd' = [upd EXCEPT ![r] = u] /\ log' = log
  BY DEF Call
<1>3. u.m = m /\ u.pc = "get"
  BY <1>1 DEF Update
<1> HIDE DEF u
<1>4. upd'[r] = u /\ \A c \in Actors : c # r => upd'[c] = upd[c]
  BY <1>1, <1>2
<1>5. \A i \in 1..Len(log) : log[i].by # r
  BY <1>1 DEF CallOK
<1>6. LogOK'
  BY <1>1, <1>2, <1>4, <1>5 DEF RotInv, LogOK
<1> QED
  BY <1>3, <1>4, <1>6, CallKeepsInv DEF RotInv

LEMMA SaveKeepsInv ==
  ASSUME RotInv, NEW r \in Actors, Save(r)
  PROVE  RotInv'
<1> DEFINE q == [req[r] EXCEPT !.pc = "save"]
<1>1. /\ req[r] \in Request /\ RequestOK(r, req[r], upd[r], landed, late)
      /\ req[r].spec # None => req[r].spec.targets \in Seq(Targets)
  BY RequestFacts
<1>2. req[r].pc = "write" /\ ~(req[r].next <= Len(req[r].spec.targets))
      /\ req' = [req EXCEPT ![r] = q]
      /\ UNCHANGED <<cache, store, late, clock, answered, landed, calm>>
  BY DEF Save, Writing
<1>3. /\ StoreInv' /\ LogOK' /\ upd'[r].m = RotatedMutation(r) /\ upd'[r].pc = "get"
      /\ \A c \in Actors : c # r => upd'[c] = upd[c]
  BY RotatedMutationType, CallLogKept DEF Save
<1>4. upd'[r].m.ok = req[r].ok /\ upd'[r].m.kind = "Rotated"
  BY <1>3 DEF RotatedMutation
<1>5. q \in Request
  BY <1>1 DEF Request, Running
<1>6. /\ q.pc = "save" /\ q.kind = req[r].kind /\ q.spec = req[r].spec
      /\ q.next = req[r].next /\ q.ok = req[r].ok /\ q.result = req[r].result
      /\ q.event = req[r].event
  BY <1>1 DEF Request
<1> HIDE DEF q
<1>7. /\ req[r].spec # None /\ req[r].kind = "rotate"
      /\ req[r].next = Len(req[r].spec.targets) + 1
      /\ req[r].result = "none" /\ req[r].event = "none"
  <2>1. req[r].spec # None /\ req[r].kind = "rotate"
        /\ req[r].next <= Len(req[r].spec.targets) + 1
        /\ req[r].result = "none" /\ req[r].event = "none"
    BY <1>1, <1>2 DEF RequestOK, ProgressOK, AnswerOK
  <2>2. req[r].next \in Nat /\ Len(req[r].spec.targets) \in Nat
    BY <1>1, <2>1 DEF Request
  <2> QED
    BY <1>2, <2>1, <2>2
<1>8. ProgressOK(q)
  BY <1>1, <1>6 DEF RequestOK, ProgressOK
<1>9. WritesOK(r, q, landed, late)
  BY <1>1, <1>6, <1>7 DEF RequestOK, WritesOK, Refusals
<1>10. SaveOK(q, upd'[r]) /\ AnswerOK(q, upd'[r])
  BY <1>3, <1>4, <1>6, <1>7 DEF SaveOK, AnswerOK, Refusals
<1>11. RequestOK(r, q, upd'[r], landed', late')
  BY <1>2, <1>8, <1>9, <1>10 DEF RequestOK
<1> QED
  BY <1>2, <1>3, <1>5, <1>11, OwnStep DEF RotInv, RotTypeOK

LEMMA RecordKeepsInv ==
  ASSUME RotInv, NEW r \in Actors, NEW at \in 0..MaxTime, NEW manual \in Expiries,
         Record(r, at, manual)
  PROVE  RotInv'
<1> DEFINE q == [IdleRequest EXCEPT !.kind = "record", !.pc = "save",
                                    !.manual = manual]
           m == [kind |-> "Recorded", by |-> r, at |-> at, manual |-> manual,
                 probe |-> None, ok |-> [t \in {} |-> FALSE]]
<1>1. at \in Nat /\ manual \in MaybeInstant
  BY MaxTimeAssumption, ExpiriesAssumption
<1>2. q \in Request
  BY <1>1, IdleRequestType DEF Request, Running
<1>3. /\ q.pc = "save" /\ q.kind = "record" /\ q.spec = None /\ q.next = 1
      /\ DOMAIN q.ok = {} /\ q.result = "none" /\ q.event = "none"
  BY IdleRequestType DEF Request
<1>4. m \in Mutation /\ m.kind = "Recorded"
  BY <1>1, NoOutcome DEF Mutation, Instant
<1>5. /\ req[r].pc = "idle" /\ req' = [req EXCEPT ![r] = q]
      /\ calm' = (calm /\ Quiet) /\ Call(r, m)
      /\ UNCHANGED <<cache, store, late, clock, answered, landed>>
  BY DEF Record, Begin
<1> HIDE DEF q, m
<1>6. /\ StoreInv' /\ LogOK' /\ upd'[r].m = m /\ upd'[r].pc = "get"
      /\ \A c \in Actors : c # r => upd'[c] = upd[c]
  BY <1>4, <1>5, CallLogKept
<1>7. RequestOK(r, q, upd'[r], landed', late')
  BY <1>3, <1>4, <1>6
     DEF RequestOK, ProgressOK, WritesOK, SaveOK, AnswerOK, Refusals
<1> QED
  BY <1>2, <1>5, <1>6, <1>7, OwnStep DEF RotInv, RotTypeOK

\* The save has been answered, or the answer is published.
LEMMA SavedKeepsInv ==
  ASSUME RotInv, NEW r \in Actors, Saved(r)
  PROVE  RotInv'
<1> DEFINE q == [req[r] EXCEPT !.pc = "publish"]
<1>1. req' = [req EXCEPT ![r] = q] /\ req[r].pc = "save" /\ upd[r].pc = "ok"
  BY DEF Saved
<1>2. /\ req[r] \in Request /\ RequestOK(r, req[r], upd[r], landed, late)
      /\ CallOK(r, upd[r]) /\ calm \in BOOLEAN
  BY RequestFacts
<1>3. q \in Request
  BY <1>2 DEF Request, Running
<1>4. /\ q.pc = "publish" /\ q.kind = req[r].kind /\ q.spec = req[r].spec
      /\ q.next = req[r].next /\ q.ok = req[r].ok /\ q.result = req[r].result
      /\ q.event = req[r].event
  BY <1>2 DEF Request
<1> HIDE DEF q
<1>5. upd[r].applied
  BY <1>1, <1>2 DEF CallOK
<1>6. RequestOK(r, q, upd[r], landed, late)
  BY <1>1, <1>2, <1>4, <1>5 DEF RequestOK, ProgressOK, WritesOK, SaveOK, AnswerOK
<1> QED
  BY <1>1, <1>2, <1>3, <1>6, QuietStep DEF Saved

LEMMA SaveFailedKeepsInv ==
  ASSUME RotInv, NEW r \in Actors, SaveFailed(r)
  PROVE  RotInv'
<1> DEFINE q == [req[r] EXCEPT !.pc = "done", !.result = "Status"]
<1>1. req' = [req EXCEPT ![r] = q] /\ req[r].pc = "save"
  BY DEF SaveFailed, Finish
<1>2. /\ req[r] \in Request /\ RequestOK(r, req[r], upd[r], landed, late)
      /\ calm \in BOOLEAN
  BY RequestFacts
<1>3. q \in Request
  <2>1. "Status" \in Results
    BY DEF Results
  <2> QED
    BY <1>2, <2>1 DEF Request
<1>4. /\ q.pc = "done" /\ q.kind = req[r].kind /\ q.spec = req[r].spec
      /\ q.next = req[r].next /\ q.ok = req[r].ok /\ q.result = "Status"
      /\ q.event = req[r].event
  BY <1>2 DEF Request
<1> HIDE DEF q
<1>5. "Status" \notin Refusals /\ req[r].event = "none"
  BY <1>1, <1>2 DEF Refusals, RequestOK, AnswerOK
<1>6. RequestOK(r, q, upd[r], landed, late)
  BY <1>1, <1>2, <1>4, <1>5 DEF RequestOK, ProgressOK, WritesOK, SaveOK, AnswerOK
<1> QED
  BY <1>1, <1>2, <1>3, <1>6, QuietStep DEF SaveFailed

\* The outcome tells whether all targets were written.
LEMMA OutcomeFacts ==
  ASSUME NEW r, req[r].kind \in {"rotate", "record"}
  PROVE  /\ Outcome(r) \in {"recorded", "ok", "failed", "partial"}
         /\ Outcome(r) = "ok" => req[r].kind = "rotate" /\ Completed(req[r].ok)
         /\ Outcome(r) \in {"failed", "partial"} =>
              req[r].kind = "rotate" /\ ~Completed(req[r].ok)
         /\ Reason(r) \in {"Recorded", "Rotated", "RotationFailed"}
         /\ Reason(r) = "Rotated" => Outcome(r) = "ok"
         /\ Reason(r) = "RotationFailed" => Outcome(r) \in {"failed", "partial"}
<1>1. CASE req[r].kind = "record"
  <2>1. Outcome(r) = "recorded"
    BY <1>1 DEF Outcome
  <2> QED
    BY <2>1 DEF Reason
<1>2. CASE req[r].kind = "rotate" /\ Completed(req[r].ok)
  <2>1. Outcome(r) = "ok"
    BY <1>2 DEF Outcome
  <2> QED
    BY <1>2, <2>1 DEF Reason
<1>3. CASE req[r].kind = "rotate" /\ ~Completed(req[r].ok)
  <2>1. Outcome(r) \in {"failed", "partial"}
    BY <1>3 DEF Outcome
  <2> QED
    BY <1>3, <2>1 DEF Reason
<1> QED
  BY <1>1, <1>2, <1>3

LEMMA PublishKeepsInv ==
  ASSUME RotInv, NEW r \in Actors, Publish(r)
  PROVE  RotInv'
<1>1. PICK e \in {"none", Reason(r)} :
        req' = [req EXCEPT ![r].pc = "done", ![r].result = Outcome(r), ![r].event = e]
  BY DEF Publish
<1> DEFINE q == [req[r] EXCEPT !.pc = "done", !.result = Outcome(r), !.event = e]
<1>2. req' = [req EXCEPT ![r] = q] /\ req[r].pc = "publish"
  BY <1>1 DEF Publish
<1>3. /\ req[r] \in Request /\ RequestOK(r, req[r], upd[r], landed, late)
      /\ calm \in BOOLEAN
  BY RequestFacts
<1>4. upd[r].applied /\ upd[r].pc # "idle" /\ req[r].kind \in {"rotate", "record"}
  BY <1>2, <1>3 DEF RequestOK, SaveOK, AnswerOK
<1>5. /\ Outcome(r) \in {"recorded", "ok", "failed", "partial"}
      /\ Outcome(r) = "ok" => req[r].kind = "rotate" /\ Completed(req[r].ok)
      /\ Outcome(r) \in {"failed", "partial"} =>
           req[r].kind = "rotate" /\ ~Completed(req[r].ok)
      /\ e \in {"none", "Recorded", "Rotated", "RotationFailed"}
      /\ e = "Rotated" => Outcome(r) = "ok"
      /\ e = "RotationFailed" => Outcome(r) \in {"failed", "partial"}
  BY <1>4, OutcomeFacts
<1>6. q \in Request
  <2>1. Outcome(r) \in Results
    BY <1>5 DEF Results
  <2>2. e \in {"none", "Rotated", "RotationFailed", "RotationRejected", "Recorded"}
    BY <1>5
  <2> HIDE DEF Outcome
  <2> QED
    BY <1>3, <2>1, <2>2 DEF Request
<1>7. /\ q.pc = "done" /\ q.kind = req[r].kind /\ q.spec = req[r].spec
      /\ q.next = req[r].next /\ q.ok = req[r].ok /\ q.result = Outcome(r)
      /\ q.event = e
  BY <1>3 DEF Request
<1> HIDE DEF q
<1>8. Outcome(r) \notin Refusals
  BY <1>5 DEF Refusals
<1>9. ProgressOK(q) /\ WritesOK(r, q, landed, late) /\ SaveOK(q, upd[r])
  BY <1>2, <1>3, <1>7, <1>8 DEF RequestOK, ProgressOK, WritesOK, SaveOK
<1>10. AnswerOK(q, upd[r])
  BY <1>4, <1>5, <1>7 DEF AnswerOK
<1>11. RequestOK(r, q, upd[r], landed, late)
  BY <1>9, <1>10 DEF RequestOK
<1> QED
  BY <1>2, <1>3, <1>6, <1>11, QuietStep DEF Publish

-----------------------------------------------------------------------------
(***************************************************************************)
(* The steps that no handler takes.                                        *)
(***************************************************************************)

\* A step that leaves the requests where they are and adds no write.
LEMMA NoRequestStep ==
  ASSUME RotInv, StoreInv', LogOK', UpdatesMove, RotTypeOK', req' = req,
         landed \subseteq landed', landed' \cup late' \subseteq landed \cup late
  PROVE  RotInv'
<1>1. ASSUME NEW c \in Actors
      PROVE  RequestOK(c, req[c], upd'[c], landed', late')
  <2>1. RequestOK(c, req[c], upd[c], landed, late)
    BY RequestFacts
  <2> QED
    BY <2>1, RequestKept DEF UpdatesMove
<1> QED
  BY <1>1 DEF RotInv, RequestInv

LEMMA StoreStepKeepsInv ==
  ASSUME RotInv, UNCHANGED rotVars,
         \/ \E r \in Actors : UpdateStep(r) \/ Land(r)
         \/ Environment
  PROVE  RotInv'
<1>1. StoreInv /\ LogOK
  BY DEF RotInv
<1>2. StoreInv' /\ UpdatesMove /\ LogOK'
  BY <1>1, UpdateStepKeepsInv, UpdateStepMoves, LandKeepsInv, LandMoves,
     EnvironmentKeepsInv, EnvironmentMoves
<1>3. UNCHANGED <<req, cache, store, late, clock, answered, landed, calm>>
  BY DEF rotVars
<1>4. RotTypeOK'
  BY <1>2, <1>3 DEF RotInv, RotTypeOK, StoreInv
<1> QED
  BY <1>2, <1>3, <1>4, NoRequestStep

LEMMA QuietVarsKeepInv ==
  ASSUME RotInv, UNCHANGED storeVars, RotTypeOK', req' = req,
         landed \subseteq landed', landed' \cup late' \subseteq landed \cup late
  PROVE  RotInv'
<1>1. UNCHANGED <<obj, upd, log>>
  BY DEF storeVars
<1>2. StoreInv' /\ UpdatesMove
  BY <1>1, StutterKeepsInv DEF RotInv, UpdatesMove
<1>3. LogOK'
  BY <1>1, <1>2, LogKept DEF RotInv
<1> QED
  BY <1>2, <1>3, NoRequestStep

LEMMA LandWriteKeepsInv ==
  ASSUME RotInv, NEW r \in Actors, NEW t \in Targets, LandWrite(r, t)
  PROVE  RotInv'
<1>1. RotTypeOK /\ UNCHANGED <<obj, upd, log>>
  BY DEF RotInv, LandWrite, storeVars
<1>2. RotTypeOK'
  BY <1>1 DEF RotTypeOK, StoreTypeOK, LandWrite
<1> QED
  BY <1>2, QuietVarsKeepInv DEF LandWrite

LEMMA SyncKeepsInv ==
  ASSUME RotInv, Sync \/ Tick
  PROVE  RotInv'
<1>1. RotTypeOK /\ UNCHANGED <<obj, upd, log>>
  BY DEF RotInv, Sync, Tick, storeVars
<1>2. cache' \in Specs \cup {None} /\ clock' \in Nat
  BY <1>1 DEF RotTypeOK, StoreTypeOK, Object, Sync, Tick
<1>3. RotTypeOK'
  BY <1>1, <1>2 DEF RotTypeOK, StoreTypeOK, Sync, Tick
<1> QED
  BY <1>3, QuietVarsKeepInv DEF Sync, Tick

\* A request that is cut off keeps what it has done; the write it was waiting
\* for may still reach its target.
LEMMA CutRequestOK ==
  ASSUME RotInv, NEW r \in Actors, req[r].pc \in Running
  PROVE  LET q == [req[r] EXCEPT !.pc = "cut"]
         IN  /\ q \in Request
             /\ AbandonedWrite(r) \subseteq {r} \X Targets
             /\ \A lt : RequestOK(r, q, upd[r], landed, lt)
<1> DEFINE q == [req[r] EXCEPT !.pc = "cut"]
<1>1. req[r] \in Request /\ RequestOK(r, req[r], upd[r], landed, late)
  BY RequestFacts
<1>2. q \in Request
  BY <1>1 DEF Request
<1>3. /\ q.pc = "cut" /\ q.kind = req[r].kind /\ q.spec = req[r].spec
      /\ q.next = req[r].next /\ q.ok = req[r].ok /\ q.result = req[r].result
      /\ q.event = req[r].event
  BY <1>1 DEF Request
<1>4. AbandonedWrite(r) \subseteq {r} \X Targets
  BY WritingFacts DEF AbandonedWrite
<1>5. req[r].result = "none" /\ req[r].event = "none" /\ "none" \notin Refusals
  BY <1>1 DEF RequestOK, AnswerOK, Running, Refusals
<1> HIDE DEF q
<1>6. ASSUME NEW lt PROVE RequestOK(r, q, upd[r], landed, lt)
  <2>1. ProgressOK(q)
    BY <1>1, <1>3 DEF RequestOK, ProgressOK
  <2>2. WritesOK(r, q, landed, lt)
    BY <1>1, <1>3, <1>5 DEF RequestOK, WritesOK
  <2>3. SaveOK(q, upd[r])
    BY <1>1, <1>3, <1>5 DEF RequestOK, SaveOK
  <2>4. AnswerOK(q, upd[r])
    BY <1>3, <1>5 DEF AnswerOK
  <2> QED
    BY <2>1, <2>2, <2>3, <2>4 DEF RequestOK
<1> QED
  BY <1>2, <1>4, <1>6 DEF q

LEMMA DisconnectKeepsInv ==
  ASSUME RotInv, NEW r \in Actors, Disconnect(r)
  PROVE  RotInv'
<1> DEFINE q == [req[r] EXCEPT !.pc = "cut"]
<1>1. /\ req[r].pc \in Running /\ req' = [req EXCEPT ![r] = q]
      /\ late' = late \cup AbandonedWrite(r) /\ calm' = FALSE
      /\ UNCHANGED <<cache, store, clock, answered, landed>>
  BY DEF Disconnect
<1>2. /\ q \in Request /\ AbandonedWrite(r) \subseteq {r} \X Targets
      /\ RequestOK(r, q, upd[r], landed, late')
  BY <1>1, CutRequestOK
<1> HIDE DEF q
<1>3. upd \in [Actors -> Update] /\ StoreInv /\ LogOK
  BY DEF RotInv, StoreInv, StoreTypeOK
<1>4. StoreInv' /\ UpdatesMove /\ LogOK' /\ \A c \in Actors : c # r => upd'[c] = upd[c]
  <2>1. CASE upd[r].pc \in {"get", "replace"}
    <3>1. Cut(r)
      BY <2>1 DEF Disconnect
    <3>2. \A c \in Actors : c # r => upd'[c] = upd[c]
      BY <1>3, <3>1 DEF Cut
    <3> QED
      BY <1>3, <3>1, <3>2, CutKeepsInv, CutMoves
  <2>2. CASE upd[r].pc \notin {"get", "replace"}
    <3>1. UNCHANGED storeVars /\ UNCHANGED <<obj, upd, log>>
      BY <2>2 DEF Disconnect, storeVars
    <3>2. UpdatesMove
      BY <3>1 DEF UpdatesMove
    <3> QED
      BY <1>3, <3>1, <3>2, StutterKeepsInv, LogKept
  <2> QED
    BY <2>1, <2>2
<1>5. RequestOK(r, q, upd'[r], landed', late')
  BY <1>1, <1>2, <1>4, RequestKept DEF UpdatesMove
<1>6. /\ store \in [Targets -> Actors \cup {None}]
      /\ answered \in [Targets -> BOOLEAN \cup {None}]
      /\ landed \subseteq Actors \X Targets /\ late' \subseteq Actors \X Targets
  BY <1>1, <1>2 DEF RotInv, RotTypeOK
<1>7. \A c \in Actors, t \in Targets :
        c # r /\ <<c, t>> \in landed' \cup late' => <<c, t>> \in landed \cup late
  BY <1>1, <1>2
<1> QED
  BY <1>1, <1>2, <1>4, <1>5, <1>6, <1>7, OwnStep

LEMMA RestartKeepsInv ==
  ASSUME RotInv, Restart
  PROVE  RotInv'
<1> DEFINE cut(r) == [req[r] EXCEPT !.pc = "cut"]
<1>1. /\ req' = [r \in Actors |-> IF req[r].pc \in Running THEN cut(r) ELSE req[r]]
      /\ late' = late \cup UNION {AbandonedWrite(r) : r \in Actors}
      /\ cache' = None /\ calm' = (calm /\ Quiet)
      /\ UNCHANGED <<store, clock, answered, landed>>
  BY DEF Restart
<1>2. StoreInv' /\ UpdatesMove /\ LogOK'
  BY RestartKeepsStore DEF RotInv
<1>3. ASSUME NEW r \in Actors, req[r].pc \in Running
      PROVE  /\ cut(r) \in Request /\ AbandonedWrite(r) \subseteq {r} \X Targets
             /\ \A lt : RequestOK(r, cut(r), upd[r], landed, lt)
  BY <1>3, CutRequestOK
<1>4. ASSUME NEW r \in Actors, req[r].pc \notin Running
      PROVE  AbandonedWrite(r) = {}
  BY <1>4 DEF AbandonedWrite, Writing, Running
<1> HIDE DEF cut
<1>5. \A r \in Actors : AbandonedWrite(r) \subseteq {r} \X Targets
  BY <1>3, <1>4
<1>6. \A r \in Actors, t \in Targets :
        <<r, t>> \in late' => <<r, t>> \in late \/ <<r, t>> \in AbandonedWrite(r)
  BY <1>1, <1>5
<1>7. ASSUME NEW r \in Actors
      PROVE  req'[r] \in Request /\ RequestOK(r, req'[r], upd'[r], landed', late')
  <2>1. CASE req[r].pc \in Running
    <3>1. req'[r] = cut(r) /\ RequestOK(r, cut(r), upd[r], landed, late')
      BY <1>1, <1>3, <2>1
    <3>2. RequestOK(r, cut(r), upd'[r], landed', late')
      BY <1>1, <1>2, <3>1, RequestKept DEF UpdatesMove
    <3> QED
      BY <1>3, <2>1, <3>1, <3>2
  <2>2. CASE req[r].pc \notin Running
    <3>1. req'[r] = req[r]
      BY <1>1, <2>2
    <3>2. \A t \in Targets : <<r, t>> \in landed' \cup late' => <<r, t>> \in landed \cup late
      BY <1>1, <1>4, <1>6, <2>2
    <3>3. req[r] \in Request /\ RequestOK(r, req[r], upd[r], landed, late)
      BY RequestFacts
    <3>4. RequestOK(r, req[r], upd'[r], landed', late')
      BY <1>1, <1>2, <3>2, <3>3, RequestKept DEF UpdatesMove
    <3> QED
      BY <3>1, <3>3, <3>4
  <2> QED
    BY <2>1, <2>2
<1>8. req' \in [Actors -> Request]
  <2>1. req' = [r \in Actors |-> req'[r]]
    BY <1>1
  <2> QED
    BY <1>7, <2>1
<1>9. late' \subseteq Actors \X Targets
  BY <1>1, <1>5 DEF RotInv, RotTypeOK
<1>10. RotTypeOK'
  BY <1>1, <1>2, <1>8, <1>9 DEF RotInv, RotTypeOK, StoreInv
<1> QED
  BY <1>2, <1>7, <1>10 DEF RotInv, RequestInv

-----------------------------------------------------------------------------
LEMMA RotStutterKeepsInv ==
  ASSUME RotInv, UNCHANGED vars
  PROVE  RotInv'
<1>1. /\ UNCHANGED <<obj, upd, log>> /\ UNCHANGED storeVars
      /\ UNCHANGED <<req, cache, store, late, clock, answered, landed, calm>>
  BY DEF vars, storeVars, rotVars
<1>2. RotTypeOK'
  BY <1>1 DEF RotInv, RotTypeOK, StoreTypeOK
<1> QED
  BY <1>1, <1>2, QuietVarsKeepInv

LEMMA StepKeepsInv ==
  ASSUME RotInv, NEW r \in Actors, Step(r)
  PROVE  RotInv'
<1>1. CASE (\E e \in Expiries : ProbeOk(r, e)) \/ ProbeNotSupported(r) \/ ProbeFailed(r)
  BY <1>1, ProbeKeepsInv
<1>2. CASE Reject(r)
  BY <1>2, RejectKeepsInv
<1>3. CASE WriteOk(r) \/ WriteRefused(r) \/ WriteUnanswered(r)
  BY <1>3, WriteKeepsInv
<1>4. CASE Save(r)
  BY <1>4, SaveKeepsInv
<1>5. CASE SaveStep(r)
  BY <1>5, StoreStepKeepsInv DEF SaveStep
<1>6. CASE Saved(r)
  BY <1>6, SavedKeepsInv
<1>7. CASE SaveFailed(r)
  BY <1>7, SaveFailedKeepsInv
<1>8. CASE Publish(r)
  BY <1>8, PublishKeepsInv
<1> QED
  BY <1>1, <1>2, <1>3, <1>4, <1>5, <1>6, <1>7, <1>8 DEF Step

LEMMA RotNextKeepsInv ==
  ASSUME RotInv, [Next]_vars
  PROVE  RotInv'
<1>1. ASSUME NEW r \in Actors, RotateRefused(r) PROVE RotInv'
  BY <1>1, RotateRefusedKeepsInv
<1>2. ASSUME NEW r \in Actors, NEW manual \in Expiries, NEW skip \in BOOLEAN,
             Rotate(r, manual, skip)
      PROVE  RotInv'
  BY <1>2, RotateKeepsInv
<1>3. ASSUME NEW r \in Actors, RecordRefused(r) PROVE RotInv'
  BY <1>3, RecordRefusedKeepsInv
<1>4. ASSUME NEW r \in Actors, NEW at \in 0..MaxTime, NEW manual \in Expiries,
             Record(r, at, manual)
      PROVE  RotInv'
  BY <1>4, RecordKeepsInv
<1>5. ASSUME NEW r \in Actors, Step(r) PROVE RotInv'
  BY <1>5, StepKeepsInv
<1>6. ASSUME NEW r \in Actors, Disconnect(r) PROVE RotInv'
  BY <1>6, DisconnectKeepsInv
<1>7. ASSUME NEW r \in Actors, NEW t \in Targets, LandWrite(r, t) PROVE RotInv'
  BY <1>7, LandWriteKeepsInv
<1>8. ASSUME NEW r \in Actors, Land(r) /\ UNCHANGED rotVars PROVE RotInv'
  BY <1>8, StoreStepKeepsInv
<1>9. CASE Environment /\ UNCHANGED rotVars
  BY <1>9, StoreStepKeepsInv
<1>10. CASE Restart
  BY <1>10, RestartKeepsInv
<1>11. CASE Sync \/ Tick
  BY <1>11, SyncKeepsInv
<1>12. CASE UNCHANGED vars
  BY <1>12, RotStutterKeepsInv
<1> QED
  BY <1>1, <1>2, <1>3, <1>4, <1>5, <1>6, <1>7, <1>8, <1>9, <1>10, <1>11, <1>12
     DEF Next

LEMMA RotInitInv == ASSUME Init PROVE RotInv
<1>1. StoreInv /\ log = <<>> /\ \A r \in Actors : upd[r].pc = "idle"
  BY StoreInitInv DEF Init, StoreInit, IdleUpdate
<1>2. /\ req = [r \in Actors |-> IdleRequest] /\ cache = None
      /\ store = [t \in Targets |-> None] /\ late = {} /\ clock = 0
      /\ answered = [t \in Targets |-> None] /\ landed = {} /\ calm = TRUE
  BY DEF Init
<1>3. RotTypeOK
  BY <1>1, <1>2, IdleRequestType DEF StoreInv, RotTypeOK
<1>4. ASSUME NEW r \in Actors PROVE RequestOK(r, req[r], upd[r], landed, late)
  BY <1>1, <1>2, IdleRequestType
     DEF RequestOK, ProgressOK, WritesOK, SaveOK, AnswerOK, Untouched, Refusals
<1>5. LogOK
  BY <1>1 DEF LogOK
<1> QED
  BY <1>1, <1>3, <1>4, <1>5 DEF RotInv, RequestInv

\* The invariant in every behaviour of the requests, the stores, the cache and
\* the API server, with dropped handlers and restarts.
THEOREM RotationInvariant == Spec => []RotInv
<1>1. Init => RotInv
  BY RotInitInv
<1>2. RotInv /\ [Next]_vars => RotInv'
  BY RotNextKeepsInv
<1> QED
  BY <1>1, <1>2, PTL DEF Spec

\* The rotation's variables keep their types.
THEOREM RotationTypes == Spec => []RotTypeOK
BY RotationInvariant, RotInvImplies, PTL

\* A "Rotated" entry of the history stands for writes to every target.
THEOREM HistoryMeansWritten == Spec => []RotatedMeansWritten
BY RotationInvariant, RotInvImplies, PTL

\* What is acknowledged, and what an audit event says, happened.
THEOREM AcknowledgementsTrue == Spec => []AcknowledgementsAreTrue
BY RotationInvariant, RotInvImplies, PTL

\* A refused submission leaves every target as it was.
THEOREM RefusalsWriteNothing == Spec => []RefusedWroteNothing
BY RotationInvariant, RotInvImplies, PTL

\* The store's promises hold for the mutations the requests really make: no
\* update is lost, the summary agrees with the history, and no request is
\* recorded twice.
THEOREM RotationsKeepHistory ==
  Spec => [](HistoryIsLog /\ HeadAgrees /\ RecordedOnce)
<1>1. RotInv => HistoryIsLog /\ HeadAgrees /\ RecordedOnce
  BY DEF RotInv, StoreInv
<1> QED
  BY <1>1, RotationInvariant, PTL

=============================================================================
