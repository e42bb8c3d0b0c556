-------------------------- MODULE RotationCalmProofs --------------------------
(***************************************************************************)
(* While requests run one at a time and to their end, the status tells the *)
(* truth about the stores.  What has to be added is what holds between two *)
(* saves: the targets the running request has written so far are pending,  *)
(* with outcomes that its mutation will bring into the status, and about   *)
(* every other target the status is right already.                         *)
(***************************************************************************)
EXTENDS RotationProofs

\* No update has failed, and no handler was dropped.
Undisturbed == calm /\ \A r \in Actors : upd[r].pc \in {"idle", "get", "replace", "ok"}

\* The outcomes of request r are not in the status yet.
Open(r) == req[r].pc \in {"write", "save"} /\ ~upd[r].applied

Pending(t) == \E r \in Actors : Open(r) /\ t \in DOMAIN req[r].ok

\* The newest rotation in the log that wrote targets is request c's.
LastIs(c) ==
  \E i \in 1..Len(log) :
    /\ log[i].kind = "Rotated" /\ log[i].by = c
    /\ \A j \in 1..Len(log) : log[j].kind = "Rotated" => j <= i

\* Only the one running request can have an update under way.
AloneOK(q, u) ==
  /\ q.pc # "cut" /\ u.pc # "cut"
  /\ u.pc \in {"get", "replace"} => q.pc = "save"
  /\ u.pc = "error" => q.pc = "save" \/ q.result = "Status"

CalmControl ==
  calm => /\ \A r, s \in Actors : req[r].pc \in Running /\ req[s].pc \in Running => r = s
          /\ \A r \in Actors : AloneOK(req[r], upd[r])

OpenOK ==
  \A r \in Actors : Open(r) =>
    \A t \in DOMAIN req[r].ok : /\ answered[t] = req[r].ok[t]
                                /\ req[r].ok[t] => store[t] = r

Entry(t) == obj.status.targets[t]

EntriesOK ==
  \A t \in Targets : Entry(t) # None /\ ~Pending(t) => Entry(t).ok = answered[t]

\* A failed entry, no entry at all, or one key wherever nothing is pending.
AgreedOK ==
  \/ \E t \in Targets : Entry(t) # None /\ ~Entry(t).ok
  \/ \A t \in Targets : Entry(t) = None
  \/ \E c \in Actors : /\ LastIs(c)
                       /\ \A t \in Targets :
                            Entry(t) # None /\ ~Pending(t) => store[t] = c

TruthOK == OpenOK /\ (obj.exists => EntriesOK /\ AgreedOK)

CalmInv == CalmControl /\ (Undisturbed => TruthOK)

LEMMA CalmInvImplies ==
  ASSUME RotInv, CalmInv
  PROVE  CalmStatusIsTrue
<1> DEFINE entries == {t \in Targets : obj.status.targets[t] # None}
<1> SUFFICES ASSUME calm, Quiet, obj.exists, \A r \in Actors : req[r].result # "Status"
             PROVE  /\ \A t \in entries : obj.status.targets[t].ok = answered[t]
                    /\ (\A t \in entries : obj.status.targets[t].ok) =>
                         \A t \in entries : store[t] = LastRotation
  BY DEF CalmStatusIsTrue
<1>1. \A r \in Actors : AloneOK(req[r], upd[r]) /\ req[r].pc \notin Running
  BY DEF CalmInv, CalmControl, Quiet
<1>2. \A r \in Actors : upd[r].pc \in UpdatePhases
  BY DEF RotInv, StoreInv, StoreTypeOK, Update
<1>3. Undisturbed
  BY <1>1, <1>2 DEF Undisturbed, AloneOK, UpdatePhases, Running
<1>4. \A t \in Targets : ~Pending(t)
  BY <1>1 DEF Pending, Open, Running
<1>5. EntriesOK /\ AgreedOK
  BY <1>3 DEF CalmInv, TruthOK
<1>6. \A t \in entries : obj.status.targets[t].ok = answered[t]
  BY <1>4, <1>5 DEF EntriesOK, Entry
<1>7. ASSUME \A t \in entries : obj.status.targets[t].ok
      PROVE  \A t \in entries : store[t] = LastRotation
  <2>1. CASE \A t \in Targets : Entry(t) = None
    BY <2>1 DEF Entry
  <2>2. ASSUME NEW c \in Actors, LastIs(c),
               \A t \in Targets : Entry(t) # None /\ ~Pending(t) => store[t] = c
        PROVE  \A t \in entries : store[t] = LastRotation
    <3> DEFINE ends == {i \in 1..Len(log) : log[i].kind = "Rotated"}
               newest == CHOOSE i \in ends : \A j \in ends : j <= i
    <3>1. PICK i \in ends : log[i].by = c /\ \A j \in ends : j <= i
      BY <2>2 DEF LastIs
    <3>2. newest \in ends /\ \A j \in ends : j <= newest
      BY <3>1
    <3>3. Len(log) \in Nat
      BY DEF RotInv, StoreInv, StoreTypeOK
    <3>4. \A j \in ends : j \in Int
      BY <3>3
    <3>5. newest = i
      <4> HIDE DEF newest, ends
      <4>1. i <= newest /\ newest <= i /\ i \in Int /\ newest \in Int
        BY <3>1, <3>2, <3>4
      <4> QED
        BY <4>1
    <3>6. LastRotation = log[newest].by
      BY <3>1 DEF LastRotation
    <3>7. LastRotation = c
      BY <3>1, <3>5, <3>6
    <3> QED
      BY <1>4, <2>2, <3>7 DEF Entry
  <2> QED
    BY <1>5, <1>7, <2>1, <2>2 DEF AgreedOK, Entry
<1> QED
  BY <1>6, <1>7

-----------------------------------------------------------------------------
\* Which requests are open and what they have written does not change.
OpenKept ==
  \A r \in Actors :
    /\ Open(r)' /\ DOMAIN req'[r].ok # {} => Open(r) /\ req'[r].ok = req[r].ok
    /\ Open(r) /\ DOMAIN req[r].ok # {} => Open(r)' /\ req'[r].ok = req[r].ok

\* Then the status is as true as it was, if its entries and the stores stay.
LEMMA TruthKept ==
  ASSUME TruthOK, OpenKept, answered' = answered, store' = store, log' = log,
         obj'.exists => obj.exists /\ obj'.status.targets = obj.status.targets
  PROVE  TruthOK'
<1>1. OpenOK'
  BY DEF TruthOK, OpenOK, OpenKept
<1>2. \A t \in Targets : Pending(t)' <=> Pending(t)
  BY DEF Pending, OpenKept
<1>3. \A c \in Actors : LastIs(c)' <=> LastIs(c)
  BY DEF LastIs
<1>4. ASSUME obj'.exists PROVE EntriesOK' /\ AgreedOK'
  <2>1. obj.exists /\ EntriesOK /\ AgreedOK /\ obj'.status.targets = obj.status.targets
    BY <1>4 DEF TruthOK
  <2>2. \A t \in Targets : Entry(t)' = Entry(t)
    BY <2>1 DEF Entry
  <2>3. EntriesOK'
    BY <1>2, <2>1, <2>2 DEF EntriesOK
  <2>4. AgreedOK'
    BY <1>2, <1>3, <2>1, <2>2 DEF AgreedOK
  <2> QED
    BY <2>3, <2>4
<1> QED
  BY <1>1, <1>4 DEF TruthOK

\* A step of one request, whose handler becomes q.
LEMMA ControlKept ==
  ASSUME RotInv, CalmControl, calm' => calm,
         NEW r \in Actors, NEW q, req' = [req EXCEPT ![r] = q],
         \A c \in Actors : c # r => upd'[c] = upd[c],
         calm' /\ q.pc \in Running => req[r].pc \in Running \/ Quiet,
         calm' => AloneOK(q, upd'[r])
  PROVE  CalmControl'
<1>1. req'[r] = q /\ \A c \in Actors : c # r => req'[c] = req[c]
  BY DEF RotInv, RotTypeOK
<1> SUFFICES ASSUME calm'
             PROVE  /\ \A c, d \in Actors :
                         req'[c].pc \in Running /\ req'[d].pc \in Running => c = d
                    /\ \A c \in Actors : AloneOK(req'[c], upd'[c])
  BY DEF CalmControl
<1>2. /\ \A c, d \in Actors : req[c].pc \in Running /\ req[d].pc \in Running => c = d
      /\ \A c \in Actors : AloneOK(req[c], upd[c])
  BY DEF CalmControl
<1>3. \A c \in Actors : AloneOK(req'[c], upd'[c])
  BY <1>1, <1>2
<1>4. ASSUME NEW c \in Actors, NEW d \in Actors,
             req'[c].pc \in Running, req'[d].pc \in Running
      PROVE  c = d
  BY <1>1, <1>2, <1>4 DEF Quiet
<1> QED
  BY <1>3, <1>4

\* A step of one handler that touches neither the status nor the stores.
LEMMA QuietCalm ==
  ASSUME RotInv, CalmInv, calm' => calm,
         NEW r \in Actors, NEW q, req' = [req EXCEPT ![r] = q],
         UNCHANGED <<storeVars, answered, store>>,
         calm' /\ q.pc \in Running => req[r].pc \in Running \/ Quiet,
         calm' => AloneOK(q, upd[r]),
         Undisturbed' /\ q.pc \in {"write", "save"} /\ ~upd[r].applied
           /\ DOMAIN q.ok # {} => req[r].pc \in {"write", "save"} /\ q.ok = req[r].ok,
         Undisturbed' /\ Open(r) /\ DOMAIN req[r].ok # {} =>
           q.pc \in {"write", "save"} /\ q.ok = req[r].ok
  PROVE  CalmInv'
<1>1. UNCHANGED <<obj, upd, log>>
  BY DEF storeVars
<1>2. req'[r] = q /\ \A c \in Actors : c # r => req'[c] = req[c]
  BY DEF RotInv, RotTypeOK
<1>3. CalmControl'
  BY <1>1, ControlKept DEF CalmInv
<1>4. ASSUME Undisturbed' PROVE TruthOK'
  <2>1. Undisturbed /\ TruthOK
    BY <1>1, <1>4 DEF Undisturbed, CalmInv
  <2>2. OpenKept
    <3> SUFFICES ASSUME NEW c \in Actors
                 PROVE  /\ Open(c)' /\ DOMAIN req'[c].ok # {} =>
                             Open(c) /\ req'[c].ok = req[c].ok
                        /\ Open(c) /\ DOMAIN req[c].ok # {} =>
                             Open(c)' /\ req'[c].ok = req[c].ok
      BY DEF OpenKept
    <3>1. CASE c = r
      BY <1>1, <1>2, <1>4, <3>1 DEF Open
    <3>2. CASE c # r
      BY <1>1, <1>2, <3>2 DEF Open
    <3> QED
      BY <3>1, <3>2
  <2> QED
    BY <1>1, <2>1, <2>2, TruthKept
<1> QED
  BY <1>3, <1>4 DEF CalmInv

\* The steps of a request before it writes and after it has saved.
LEMMA BeginCalm ==
  ASSUME RotInv, CalmInv, NEW r \in Actors, NEW q, Begin(r, q),
         q.pc \in Running \cup {"done"}, q.pc \notin {"save"}, DOMAIN q.ok = {},
         UNCHANGED <<storeVars, answered, store>>
  PROVE  CalmInv'
<1>1. req[r].pc = "idle" /\ req' = [req EXCEPT ![r] = q] /\ calm' = (calm /\ Quiet)
  BY DEF Begin
<1>2. upd[r].pc = "idle"
  BY <1>1, RequestFacts DEF RequestOK, SaveOK
<1>3. AloneOK(q, upd[r])
  BY <1>2 DEF AloneOK, Running
<1>4. ~Open(r)
  BY <1>1 DEF Open
<1> QED
  BY <1>1, <1>3, <1>4, QuietCalm

LEMMA RefuseCalm ==
  ASSUME RotInv, CalmInv, NEW r \in Actors, RotateRefused(r) \/ RecordRefused(r)
  PROVE  CalmInv'
<1>0. PICK kind \in {"rotate", "record"} : \E why : Begin(r, Refused(kind, why))
  BY DEF RotateRefused, RecordRefused
<1>1. PICK why : Begin(r, Refused(kind, why))
  BY <1>0
<1>2. UNCHANGED <<storeVars, answered, store>>
  BY DEF RotateRefused, RecordRefused
<1> DEFINE q == Refused(kind, why)
<1>3. q.pc = "done" /\ DOMAIN q.ok = {}
  BY IdleRequestType DEF Refused, Request
<1>4. q.pc \in Running \cup {"done"} /\ q.pc \notin {"save"}
  BY <1>3
<1> HIDE DEF q
<1> QED
  BY <1>1, <1>2, <1>3, <1>4, BeginCalm DEF q

LEMMA RotateCalm ==
  ASSUME RotInv, CalmInv, NEW r \in Actors, NEW manual \in Expiries,
         NEW skip \in BOOLEAN, Rotate(r, manual, skip)
  PROVE  CalmInv'
<1> DEFINE q == [IdleRequest EXCEPT
                   !.kind = "rotate", !.spec = cache, !.manual = manual,
                   !.pc = IF skip \/ ~cache.probed THEN "write" ELSE "probe"]
<1>1. Begin(r, q) /\ UNCHANGED <<storeVars, answered, store>>
  BY DEF Rotate
<1>2. q.pc \in {"write", "probe"} /\ DOMAIN q.ok = {}
  BY IdleRequestType DEF Request
<1> HIDE DEF q
<1>3. q.pc \in Running \cup {"done"} /\ q.pc \notin {"save"}
  BY <1>2 DEF Running
<1> QED
  BY <1>1, <1>2, <1>3, BeginCalm

\* Nothing has been written before the provider has answered.
LEMMA ProbeCalm ==
  ASSUME RotInv, CalmInv, NEW r \in Actors,
         \/ \E e \in Expiries : ProbeOk(r, e)
         \/ ProbeNotSupported(r) \/ ProbeFailed(r)
  PROVE  CalmInv'
<1>1. /\ req[r] \in Request /\ RequestOK(r, req[r], upd[r], landed, late)
      /\ req[r].spec # None => req[r].spec.targets \in Seq(Targets)
  BY RequestFacts
<1>2. req[r].pc = "probe" /\ calm' = calm /\ UNCHANGED <<storeVars, answered, store>>
  BY DEF ProbeOk, ProbeNotSupported, ProbeFailed
<1>3. PICK q : /\ req' = [req EXCEPT ![r] = q] /\ q.pc \in {"write", "reject"}
               /\ q.ok = req[r].ok
  <2>1. ASSUME NEW e \in Expiries, ProbeOk(r, e)
        PROVE  LET q == [req[r] EXCEPT !.pc = "write", !.probe = [expires |-> e]]
               IN  req' = [req EXCEPT ![r] = q] /\ q.pc = "write" /\ q.ok = req[r].ok
    BY <1>1, <2>1 DEF ProbeOk, Request
  <2>2. ASSUME ProbeNotSupported(r)
        PROVE  LET q == [req[r] EXCEPT !.pc = "write"]
               IN  req' = [req EXCEPT ![r] = q] /\ q.pc = "write" /\ q.ok = req[r].ok
    BY <1>1, <2>2 DEF ProbeNotSupported, Request
  <2>3. ASSUME ProbeFailed(r)
        PROVE  LET q == [req[r] EXCEPT !.pc = "reject"]
               IN  req' = [req EXCEPT ![r] = q] /\ q.pc = "reject" /\ q.ok = req[r].ok
    BY <1>1, <2>3 DEF ProbeFailed, Request
  <2> QED
    BY <2>1, <2>2, <2>3
<1>4. DOMAIN req[r].ok = {}
  <2>1. /\ req[r].next = 1
        /\ DOMAIN req[r].ok = {req[r].spec.targets[i] : i \in 1..(req[r].next - 1)}
    BY <1>1, <1>2 DEF RequestOK, ProgressOK
  <2> QED
    BY <2>1
<1>5. upd[r].pc = "idle"
  BY <1>1, <1>2 DEF RequestOK, SaveOK
<1>6. AloneOK(q, upd[r])
  BY <1>3, <1>5 DEF AloneOK
<1>7. req[r].pc \in Running
  BY <1>2 DEF Running
<1> QED
  BY <1>2, <1>3, <1>4, <1>6, <1>7, QuietCalm

LEMMA AfterCalm ==
  ASSUME RotInv, CalmInv, NEW r \in Actors,
         Reject(r) \/ Saved(r) \/ SaveFailed(r) \/ Publish(r)
  PROVE  CalmInv'
<1>1. /\ req[r] \in Request /\ RequestOK(r, req[r], upd[r], landed, late)
      /\ CallOK(r, upd[r])
  BY RequestFacts
<1>2. UNCHANGED <<storeVars, answered, store>> /\ calm' = calm
      /\ UNCHANGED upd
  BY DEF Reject, Saved, SaveFailed, Publish, storeVars
<1>3. ASSUME Reject(r) PROVE CalmInv'
  <2>1. PICK e : req' = [req EXCEPT ![r].pc = "done", ![r].result = "Probe", ![r].event = e]
    BY <1>3 DEF Reject
  <2> DEFINE q == [req[r] EXCEPT !.pc = "done", !.result = "Probe", !.event = e]
  <2>2. req' = [req EXCEPT ![r] = q] /\ req[r].pc = "reject"
    BY <1>3, <2>1 DEF Reject
  <2>3. q.pc = "done"
    BY <1>1 DEF Request
  <2> HIDE DEF q
  <2>4. upd[r].pc = "idle"
    BY <1>1, <2>2 DEF RequestOK, SaveOK
  <2>5. AloneOK(q, upd[r]) /\ ~Open(r)
    BY <2>2, <2>3, <2>4 DEF AloneOK, Open
  <2> QED
    BY <1>2, <2>2, <2>3, <2>5, QuietCalm DEF Running
<1>4. ASSUME Saved(r) PROVE CalmInv'
  <2> DEFINE q == [req[r] EXCEPT !.pc = "publish"]
  <2>1. req' = [req EXCEPT ![r] = q] /\ req[r].pc = "save" /\ upd[r].pc = "ok"
    BY <1>4 DEF Saved
  <2>2. q.pc = "publish"
    BY <1>1 DEF Request
  <2> HIDE DEF q
  <2>3. AloneOK(q, upd[r]) /\ ~Open(r) /\ req[r].pc \in Running
    BY <1>1, <2>1, <2>2 DEF AloneOK, Open, CallOK, Running
  <2> QED
    BY <1>2, <2>1, <2>2, <2>3, QuietCalm
<1>5. ASSUME SaveFailed(r) PROVE CalmInv'
  <2> DEFINE q == [req[r] EXCEPT !.pc = "done", !.result = "Status"]
  <2>1. req' = [req EXCEPT ![r] = q] /\ req[r].pc = "save" /\ upd[r].pc = "error"
    BY <1>5 DEF SaveFailed, Finish
  <2>2. q.pc = "done" /\ q.result = "Status"
    BY <1>1 DEF Request
  <2> HIDE DEF q
  <2>3. AloneOK(q, upd[r]) /\ ~Undisturbed'
    BY <1>2, <2>1, <2>2 DEF AloneOK, Undisturbed
  <2> QED
    BY <1>2, <2>1, <2>2, <2>3, QuietCalm DEF Running
<1>6. ASSUME Publish(r) PROVE CalmInv'
  <2>1. PICK e : req' = [req EXCEPT ![r].pc = "done", ![r].result = Outcome(r), ![r].event = e]
    BY <1>6 DEF Publish
  <2> DEFINE q == [req[r] EXCEPT !.pc = "done", !.result = Outcome(r), !.event = e]
  <2>2. req' = [req EXCEPT ![r] = q] /\ req[r].pc = "publish"
    BY <1>6, <2>1 DEF Publish
  <2>3. q.pc = "done"
    BY <1>1 DEF Request
  <2> HIDE DEF q
  <2>4. req[r].result = "none"
    BY <1>1, <2>2 DEF RequestOK, AnswerOK
  <2>5. calm => AloneOK(req[r], upd[r])
    BY DEF CalmInv, CalmControl
  <2>6. calm => AloneOK(q, upd[r])
    BY <2>2, <2>3, <2>4, <2>5 DEF AloneOK
  <2>7. ~Open(r)
    BY <2>2 DEF Open
  <2> QED
    BY <1>2, <2>2, <2>3, <2>6, <2>7, QuietCalm DEF Running
<1> QED
  BY <1>3, <1>4, <1>5, <1>6

\* A write of the running request: its target is pending from now on.
LEMMA AnswerCalm ==
  ASSUME RotInv, CalmInv, NEW r \in Actors, NEW b \in BOOLEAN, Writing(r), Answer(r, b),
         store' = IF b THEN [store EXCEPT ![Target(r)] = r] ELSE store,
         UNCHANGED <<storeVars, calm>>
  PROVE  CalmInv'
<1> DEFINE p == req[r]
           x == Target(r)
           k == [t \in DOMAIN p.ok \cup {x} |-> IF t = x THEN b ELSE p.ok[t]]
           q == [p EXCEPT !.ok = k, !.next = @ + 1]
<1>1. /\ p \in Request /\ RequestOK(r, p, upd[r], landed, late)
      /\ CallOK(r, upd[r])
      /\ store \in [Targets -> Actors \cup {None}]
      /\ answered \in [Targets -> BOOLEAN \cup {None}]
      /\ DOMAIN p.ok \subseteq Targets
  BY RequestFacts DEF RotInv, RotTypeOK, Request, Outcomes
<1>2. p.pc = "write" /\ x \in Targets /\ upd[r].pc = "idle" /\ ~upd[r].applied
  BY <1>1, WritingFacts DEF RequestOK, SaveOK, CallOK
<1>3. req' = [req EXCEPT ![r] = q] /\ answered' = [answered EXCEPT ![x] = b]
  BY DEF Answer
<1>4. DOMAIN k = DOMAIN p.ok \cup {x}
      /\ \A t \in DOMAIN k : k[t] = IF t = x THEN b ELSE p.ok[t]
  OBVIOUS
<1> HIDE DEF k
<1>5. q.pc = "write" /\ q.ok = k /\ q.result = p.result
  BY <1>1, <1>2 DEF Request
<1> HIDE DEF q
<1>6. req'[r] = q /\ \A c \in Actors : c # r => req'[c] = req[c]
  BY <1>3 DEF RotInv, RotTypeOK
<1>7. UNCHANGED <<obj, upd, log>>
  BY DEF storeVars
<1>8. AloneOK(q, upd[r]) /\ req[r].pc \in Running
  BY <1>2, <1>5 DEF AloneOK, Running
<1>9. CalmControl'
  BY <1>3, <1>7, <1>8, ControlKept DEF CalmInv
<1> HIDE DEF x
<1>10. /\ answered'[x] = b /\ (b => store'[x] = r)
       /\ \A t \in Targets : t # x => answered'[t] = answered[t] /\ store'[t] = store[t]
  <2>1. store' = IF b THEN [store EXCEPT ![x] = r] ELSE store
    BY DEF x
  <2> QED
    BY <1>1, <1>2, <1>3, <2>1
<1>11. ASSUME Undisturbed' PROVE TruthOK'
  <2>1. Undisturbed /\ TruthOK /\ calm
    BY <1>7, <1>11 DEF Undisturbed, CalmInv
  <2>2. \A c \in Actors : c # r => ~Open(c) /\ ~Open(c)'
    BY <1>6, <1>7, <1>8, <2>1 DEF CalmInv, CalmControl, Open, Running
  <2>3. Open(r) /\ Open(r)'
    BY <1>2, <1>5, <1>6, <1>7 DEF Open
  <2>4. OpenOK'
    <3> SUFFICES ASSUME NEW t \in DOMAIN k
                 PROVE  answered'[t] = k[t] /\ (k[t] => store'[t] = r)
      BY <1>5, <1>6, <2>2 DEF OpenOK
    <3>1. CASE t = x
      BY <1>4, <1>10, <3>1
    <3>2. CASE t # x
      <4>1. t \in DOMAIN p.ok /\ t \in Targets /\ k[t] = p.ok[t]
        BY <1>1, <1>4, <3>2
      <4>2. answered[t] = p.ok[t] /\ (p.ok[t] => store[t] = r)
        BY <2>1, <2>3, <4>1 DEF TruthOK, OpenOK
      <4> QED
        BY <1>10, <3>2, <4>1, <4>2
    <3> QED
      BY <3>1, <3>2
  <2>5. \A t \in Targets : ~Pending(t)' => ~Pending(t) /\ t # x
    BY <1>4, <1>5, <1>6, <2>2, <2>3 DEF Pending
  <2>6. ASSUME obj'.exists PROVE EntriesOK' /\ AgreedOK'
    <3>1. EntriesOK /\ AgreedOK
      BY <1>7, <2>1, <2>6 DEF TruthOK
    <3>2. \A t \in Targets : Entry(t)' = Entry(t)
      BY <1>7 DEF Entry
    <3>3. \A c \in Actors : LastIs(c)' <=> LastIs(c)
      BY <1>7 DEF LastIs
    <3>4. EntriesOK'
      BY <1>10, <2>5, <3>1, <3>2 DEF EntriesOK
    <3>5. AgreedOK'
      BY <1>10, <2>5, <3>1, <3>2, <3>3 DEF AgreedOK
    <3> QED
      BY <3>4, <3>5
  <2> QED
    BY <2>4, <2>6 DEF TruthOK
<1> QED
  BY <1>9, <1>11 DEF CalmInv

LEMMA WriteCalm ==
  ASSUME RotInv, CalmInv, NEW r \in Actors,
         WriteOk(r) \/ WriteRefused(r) \/ WriteUnanswered(r)
  PROVE  CalmInv'
<1>1. CASE WriteOk(r)
  BY <1>1, AnswerCalm DEF WriteOk
<1>2. CASE WriteRefused(r) \/ WriteUnanswered(r)
  BY <1>2, AnswerCalm DEF WriteRefused, WriteUnanswered
<1> QED
  BY <1>1, <1>2

\* The call of update_status applies nothing yet.
LEMMA CallCalm ==
  ASSUME RotInv, CalmInv, NEW r \in Actors, NEW m, Call(r, m), NEW q,
         req' = [req EXCEPT ![r] = q], q.pc = "save", calm' => calm,
         calm' => req[r].pc \in Running \/ Quiet,
         \/ req[r].pc = "write" /\ q.ok = req[r].ok
         \/ req[r].pc = "idle" /\ DOMAIN q.ok = {},
         UNCHANGED <<answered, store>>
  PROVE  CalmInv'
<1>1. upd \in [Actors -> Update] /\ req \in [Actors -> Request]
  BY DEF RotInv, StoreInv, StoreTypeOK, RotTypeOK
<1> DEFINE u == [upd[r] EXCEPT !.pc = "get", !.attempt = 1, !.m = m,
                               !.since = obj.version]
<1>2. upd' = [upd EXCEPT ![r] = u] /\ UNCHANGED <<obj, log>> /\ upd[r].pc = "idle"
  BY DEF Call
<1>3. u.pc = "get" /\ u.applied = upd[r].applied
  BY <1>1 DEF Update
<1> HIDE DEF u
<1>4. /\ upd'[r] = u /\ \A c \in Actors : c # r => upd'[c] = upd[c]
      /\ req'[r] = q /\ \A c \in Actors : c # r => req'[c] = req[c]
  BY <1>1, <1>2
<1>5. AloneOK(q, upd'[r])
  BY <1>3, <1>4 DEF AloneOK
<1>6. CalmControl'
  BY <1>4, <1>5, ControlKept DEF CalmInv
<1>7. ASSUME Undisturbed' PROVE TruthOK'
  <2>1. Undisturbed /\ TruthOK
    <3>1. ASSUME NEW c \in Actors PROVE upd[c].pc \in {"idle", "get", "replace", "ok"}
      BY <1>2, <1>4, <1>7 DEF Undisturbed
    <3> QED
      BY <1>7, <3>1 DEF Undisturbed, CalmInv
  <2>2. OpenKept
    <3> SUFFICES ASSUME NEW c \in Actors
                 PROVE  /\ Open(c)' /\ DOMAIN req'[c].ok # {} =>
                             Open(c) /\ req'[c].ok = req[c].ok
                        /\ Open(c) /\ DOMAIN req[c].ok # {} =>
                             Open(c)' /\ req'[c].ok = req[c].ok
      BY DEF OpenKept
    <3>1. CASE c = r
      BY <1>3, <1>4, <3>1 DEF Open
    <3>2. CASE c # r
      BY <1>4, <3>2 DEF Open
    <3> QED
      BY <3>1, <3>2
  <2> QED
    BY <1>2, <2>1, <2>2, TruthKept
<1> QED
  BY <1>6, <1>7 DEF CalmInv

LEMMA SaveCalm ==
  ASSUME RotInv, CalmInv, NEW r \in Actors, Save(r)
  PROVE  CalmInv'
<1> DEFINE q == [req[r] EXCEPT !.pc = "save"]
<1>1. /\ req' = [req EXCEPT ![r] = q] /\ Call(r, RotatedMutation(r)) /\ calm' = calm
      /\ req[r].pc = "write" /\ UNCHANGED <<answered, store>>
  BY DEF Save
<1>2. q.pc = "save" /\ q.ok = req[r].ok
  BY RequestFacts DEF Request
<1> HIDE DEF q
<1> QED
  BY <1>1, <1>2, CallCalm DEF Running

LEMMA RecordCalm ==
  ASSUME RotInv, CalmInv, NEW r \in Actors, NEW at, NEW manual, Record(r, at, manual)
  PROVE  CalmInv'
<1> DEFINE q == [IdleRequest EXCEPT !.kind = "record", !.pc = "save",
                                    !.manual = manual]
           m == [kind |-> "Recorded", by |-> r, at |-> at, manual |-> manual,
                 probe |-> None, ok |-> [t \in {} |-> FALSE]]
<1>1. /\ req' = [req EXCEPT ![r] = q] /\ Call(r, m) /\ calm' = (calm /\ Quiet)
      /\ req[r].pc = "idle" /\ UNCHANGED <<answered, store>>
  BY DEF Record, Begin
<1>2. q.pc = "save" /\ DOMAIN q.ok = {}
  BY IdleRequestType DEF Request
<1> HIDE DEF q, m
<1> QED
  BY <1>1, <1>2, CallCalm

\* What a mutation does to the entries of the targets.
LEMMA ApplyTargets ==
  ASSUME NEW s \in Status, NEW m \in Mutation
  PROVE  /\ m.kind = "Recorded" => Apply(m, s).targets = s.targets
         /\ m.kind = "Rotated" =>
              \A t \in Targets : Apply(m, s).targets[t] =
                IF t \in DOMAIN m.ok THEN [at |-> m.at, ok |-> m.ok[t]] ELSE None
<1>1. CASE m.kind = "Recorded"
  <2>1. Apply(m, s) = ApplyRotation(s, m)
    BY <1>1 DEF Apply
  <2>2. ApplyRotation(s, m).targets = s.targets
    BY ApplyRotationEffect
  <2> QED
    BY <1>1, <2>1, <2>2
<1>2. CASE m.kind = "Rotated"
  <2> DEFINE s2 == MergeTargets(s, m)
  <2>1. s2 \in Status
    BY MergeTargetsEffect
  <2>2. \A t \in Targets : s2.targets[t] =
          IF t \in DOMAIN m.ok THEN [at |-> m.at, ok |-> m.ok[t]] ELSE None
    BY DEF MergeTargets, UpsertTargets, RetainTargets, Status
  <2> HIDE DEF s2
  <2>3. Apply(m, s) = ApplyRotation(s2, m) \/ Apply(m, s) = s2
    BY <1>2 DEF Apply, s2
  <2>4. ApplyRotation(s2, m).targets = s2.targets
    BY <2>1, ApplyRotationEffect
  <2>5. Apply(m, s).targets = s2.targets
    BY <2>3, <2>4
  <2> QED
    BY <1>2, <2>2, <2>5
<1> QED
  BY <1>1, <1>2 DEF Mutation

\* The step that makes the pending outcomes the entries of the status.
LEMMA ReplaceOkCalm ==
  ASSUME RotInv, CalmInv, NEW c \in Actors, ReplaceOk(c), UNCHANGED rotVars
  PROVE  CalmInv'
<1> DEFINE m == upd[c].m
           e == EntryOf(m)
           p == req[c]
           u == [upd[c] EXCEPT !.pc = "ok", !.applied = TRUE, !.since = 0]
<1>1. /\ p \in Request /\ RequestOK(c, p, upd[c], landed, late) /\ CallOK(c, upd[c])
      /\ upd \in [Actors -> Update] /\ upd[c] \in Update /\ VersionOK(upd[c], obj)
      /\ obj \in Object /\ log \in Seq(HistoryEntry)
  BY RequestFacts DEF RotInv, StoreInv, StoreTypeOK, CallerInv, CallerOK
<1>2. upd[c].pc = "replace" /\ Replace(c) /\ upd' = [upd EXCEPT ![c] = u]
  BY DEF ReplaceOk
<1>3. u.pc = "ok" /\ u.applied
  BY <1>1 DEF Update
<1> HIDE DEF u
<1>4. upd'[c] = u /\ \A d \in Actors : d # c => upd'[d] = upd[d]
  BY <1>1, <1>2
<1>5. req' = req /\ store' = store /\ answered' = answered /\ calm' = calm
  BY DEF rotVars
<1>6. calm => AloneOK(p, upd[c])
  BY DEF CalmInv, CalmControl
<1>7. calm => p.pc = "save"
  BY <1>2, <1>6 DEF AloneOK
<1>8. CalmControl'
  <2>1. req' = [req EXCEPT ![c] = p]
    BY <1>5 DEF RotInv, RotTypeOK
  <2>2. calm => AloneOK(p, upd'[c])
    BY <1>3, <1>4, <1>6 DEF AloneOK
  <2>3. calm => p.pc \in Running
    BY <1>7 DEF Running
  <2> QED
    BY <1>4, <1>5, <2>1, <2>2, <2>3, ControlKept DEF CalmInv
<1>9. ASSUME Undisturbed' PROVE TruthOK'
  <2>1. Undisturbed /\ TruthOK /\ calm
    <3>1. ASSUME NEW d \in Actors PROVE upd[d].pc \in {"idle", "get", "replace", "ok"}
      BY <1>2, <1>4, <1>9 DEF Undisturbed
    <3> QED
      BY <1>5, <1>9, <3>1 DEF Undisturbed, CalmInv
  <2>2. /\ obj.exists /\ upd[c].version = obj.version /\ upd[c].base = obj.status
        /\ m \in Mutation /\ m.by = c /\ ~upd[c].applied
        /\ obj.status \in Status
    BY <1>1, <1>2 DEF Replace, VersionMatches, CallOK, VersionOK, Object
  <2>3. Open(c) /\ \A d \in Actors : d # c => ~Open(d)
    BY <1>7, <2>1, <2>2 DEF Open, CalmInv, CalmControl, Running
  <2>4. \A d \in Actors : ~Open(d)'
    BY <1>3, <1>4, <1>5, <2>3 DEF Open
  <2>5. \A t \in Targets : ~Pending(t)' /\ (Pending(t) => t \in DOMAIN p.ok)
    BY <2>3, <2>4 DEF Pending
  <2>6. OpenOK'
    BY <2>4 DEF OpenOK
  <2>7. \A t \in Targets : Entry(t)' = Apply(m, obj.status).targets[t]
    <3>1. obj' = [obj EXCEPT !.status = Apply(m, obj.status), !.version = @ + 1]
      BY <1>2, <2>2 DEF Replace
    <3>2. obj'.status = Apply(m, obj.status)
      BY <1>1, <3>1 DEF Object
    <3> QED
      BY <3>2 DEF Entry
  <2>8. obj.exists /\ EntriesOK /\ AgreedOK
    BY <2>1, <2>2 DEF TruthOK
  <2>9. e.by = c /\ e.kind = m.kind /\ e \in HistoryEntry
    BY <2>2, ApplyEffect DEF EntryOf
  <2>10. log' = IF Records(m) THEN Append(log, e) ELSE log
    BY <1>2 DEF Replace
  <2> HIDE DEF e
  <2>11. Len(log) \in Nat
    BY <1>1
  <2>12. Records(m) => /\ Len(log') = Len(log) + 1 /\ log'[Len(log) + 1] = e
                       /\ \A i \in 1..Len(log) : log'[i] = log[i]
    BY <1>1, <2>9, <2>10
  <2>13. CASE p.kind = "record"
    <3>1. m.kind = "Recorded" /\ DOMAIN p.ok = {} /\ Records(m)
      BY <1>1, <1>2, <2>13 DEF RequestOK, SaveOK, ProgressOK, Records
    <3>2. \A t \in Targets : Entry(t)' = Entry(t) /\ ~Pending(t)
      BY <2>2, <2>5, <2>7, <3>1, ApplyTargets DEF Entry
    <3>3. EntriesOK'
      BY <1>5, <2>8, <3>2 DEF EntriesOK
    <3>4. ASSUME NEW d \in Actors, LastIs(d) PROVE LastIs(d)'
      <4>1. PICK i \in 1..Len(log) :
              /\ log[i].kind = "Rotated" /\ log[i].by = d
              /\ \A j \in 1..Len(log) : log[j].kind = "Rotated" => j <= i
        BY <3>4 DEF LastIs
      <4>2. i \in 1..Len(log') /\ log'[i].kind = "Rotated" /\ log'[i].by = d
        BY <2>11, <2>12, <3>1, <4>1
      <4>3. ASSUME NEW j \in 1..Len(log'), log'[j].kind = "Rotated" PROVE j <= i
        <5>1. j # Len(log) + 1
          BY <2>9, <2>12, <3>1, <4>3
        <5>2. j \in 1..Len(log)
          BY <2>11, <2>12, <3>1, <5>1
        <5> QED
          BY <2>12, <3>1, <4>1, <4>3, <5>2
      <4> QED
        BY <4>2, <4>3 DEF LastIs
    <3>5. AgreedOK'
      BY <1>5, <2>8, <3>2, <3>4 DEF AgreedOK
    <3> QED
      BY <2>6, <3>3, <3>5 DEF TruthOK
  <2>14. CASE p.kind = "rotate"
    <3>1. m.kind = "Rotated" /\ m.ok = p.ok
      BY <1>1, <1>2, <2>14 DEF RequestOK, SaveOK
    <3>2. \A t \in Targets :
            Entry(t)' = IF t \in DOMAIN p.ok THEN [at |-> m.at, ok |-> p.ok[t]] ELSE None
      <4>1. \A t \in Targets : Apply(m, obj.status).targets[t] =
              IF t \in DOMAIN m.ok THEN [at |-> m.at, ok |-> m.ok[t]] ELSE None
        BY <2>2, <3>1, ApplyTargets
      <4> HIDE DEF m
      <4> QED
        BY <2>7, <3>1, <4>1
    <3>3. \A t \in DOMAIN p.ok : /\ answered[t] = p.ok[t]
                                 /\ p.ok[t] => store[t] = c
      BY <2>1, <2>3 DEF TruthOK, OpenOK
    <3>4. EntriesOK'
      BY <1>5, <3>2, <3>3 DEF EntriesOK
    <3>5. AgreedOK'
      <4>1. CASE Completed(p.ok)
        <5>1. Records(m)
          BY <3>1, <4>1 DEF Records
        <5>2. LastIs(c)'
          <6>1. /\ Len(log) + 1 \in 1..Len(log')
                /\ log'[Len(log) + 1].kind = "Rotated" /\ log'[Len(log) + 1].by = c
                /\ \A j \in 1..Len(log') : j <= Len(log) + 1
            BY <2>9, <2>11, <2>12, <3>1, <5>1
          <6> QED
            BY <6>1 DEF LastIs
        <5>3. \A t \in Targets : Entry(t)' # None => store'[t] = c
          BY <1>5, <3>2, <3>3, <4>1 DEF Completed
        <5> QED
          BY <5>2, <5>3 DEF AgreedOK
      <4>2. CASE ~Completed(p.ok)
        <5>1. PICK t \in DOMAIN p.ok : ~p.ok[t]
          BY <4>2 DEF Completed
        <5>2. /\ t \in Targets /\ p.ok[t] \in BOOLEAN /\ m.at \in Instant
          BY <1>1, <2>2 DEF Request, Outcomes, Mutation
        <5>3. Entry(t)' # None /\ ~Entry(t)'.ok
          BY <3>2, <5>1, <5>2, NoTargetStatusAssumption DEF TargetStatus
        <5> QED
          BY <5>2, <5>3 DEF AgreedOK
      <4> QED
        BY <4>1, <4>2
    <3> QED
      BY <2>6, <3>4, <3>5 DEF TruthOK
  <2>15. p.kind = "record" \/ p.kind = "rotate"
    BY <1>1, <1>2 DEF RequestOK, SaveOK
  <2> QED
    BY <2>13, <2>14, <2>15
<1> QED
  BY <1>8, <1>9 DEF CalmInv

\* The other steps of an update leave the resource alone.
LEMMA UpdateCalm ==
  ASSUME RotInv, CalmInv, NEW c \in Actors, NEW u,
         upd' = [upd EXCEPT ![c] = u], UNCHANGED <<obj, log, rotVars>>,
         upd[c].pc \in {"get", "replace"}, u.pc \in {"get", "replace", "error"},
         u.applied = upd[c].applied
  PROVE  CalmInv'
<1>1. upd \in [Actors -> Update] /\ req \in [Actors -> Request]
  BY DEF RotInv, StoreInv, StoreTypeOK, RotTypeOK
<1>2. /\ upd'[c] = u /\ \A d \in Actors : d # c => upd'[d] = upd[d]
      /\ req' = req /\ store' = store /\ answered' = answered /\ calm' = calm
  BY <1>1 DEF rotVars
<1>3. calm => AloneOK(req[c], upd[c])
  BY DEF CalmInv, CalmControl
<1>4. calm => AloneOK(req[c], u) /\ req[c].pc \in Running
  BY <1>3 DEF AloneOK, Running
<1>5. CalmControl'
  <2>1. req' = [req EXCEPT ![c] = req[c]]
    BY <1>1, <1>2
  <2> QED
    BY <1>2, <1>4, <2>1, ControlKept DEF CalmInv
<1>6. ASSUME Undisturbed' PROVE TruthOK'
  <2>1. Undisturbed /\ TruthOK
    <3>1. ASSUME NEW d \in Actors PROVE upd[d].pc \in {"idle", "get", "replace", "ok"}
      BY <1>2, <1>6 DEF Undisturbed
    <3> QED
      BY <1>2, <1>6, <3>1 DEF Undisturbed, CalmInv
  <2>2. OpenKept
    BY <1>2 DEF OpenKept, Open
  <2> QED
    BY <1>2, <2>1, <2>2, TruthKept
<1> QED
  BY <1>5, <1>6 DEF CalmInv

LEMMA SaveStepCalm ==
  ASSUME RotInv, CalmInv, NEW c \in Actors, UpdateStep(c), UNCHANGED rotVars
  PROVE  CalmInv'
<1>1. upd[c] \in Update
  BY RequestFacts
<1>2. ASSUME NEW why, upd[c].pc \in {"get", "replace"}, Fail(c, why)
      PROVE  CalmInv'
  <2> DEFINE u == [upd[c] EXCEPT !.pc = "error", !.reason = why, !.since = 0]
  <2>1. upd' = [upd EXCEPT ![c] = u] /\ UNCHANGED <<obj, log>>
    BY <1>2 DEF Fail
  <2>2. u.pc = "error" /\ u.applied = upd[c].applied
    BY <1>1 DEF Update
  <2> HIDE DEF u
  <2> QED
    BY <1>2, <2>1, <2>2, UpdateCalm
<1>3. CASE Get(c)
  <2> DEFINE u == [upd[c] EXCEPT !.pc = "replace", !.version = obj.version,
                                 !.base = obj.status]
  <2>1. upd' = [upd EXCEPT ![c] = u] /\ UNCHANGED <<obj, log>> /\ upd[c].pc = "get"
    BY <1>3 DEF Get
  <2>2. u.pc = "replace" /\ u.applied = upd[c].applied
    BY <1>1 DEF Update
  <2> HIDE DEF u
  <2> QED
    BY <2>1, <2>2, UpdateCalm
<1>4. CASE GetNotFound(c) \/ GetError(c) \/ ReplaceGone(c)
  BY <1>2, <1>4 DEF GetNotFound, GetError, ReplaceGone
<1>5. CASE ReplaceOk(c)
  BY <1>5, ReplaceOkCalm
<1>6. CASE ReplaceConflict(c)
  <2>1. CASE upd[c].attempt < MAX_STATUS_ATTEMPTS
    <3> DEFINE u == [upd[c] EXCEPT !.pc = "get", !.attempt = @ + 1]
    <3>1. upd' = [upd EXCEPT ![c] = u] /\ UNCHANGED <<obj, log>>
          /\ upd[c].pc = "replace"
      BY <1>6, <2>1 DEF ReplaceConflict
    <3>2. u.pc = "get" /\ u.applied = upd[c].applied
      BY <1>1 DEF Update
    <3> HIDE DEF u
    <3> QED
      BY <3>1, <3>2, UpdateCalm
  <2>2. CASE ~(upd[c].attempt < MAX_STATUS_ATTEMPTS)
    BY <1>2, <1>6, <2>2 DEF ReplaceConflict
  <2> QED
    BY <2>1, <2>2
<1>7. CASE ReplaceError(c)
  <2> DEFINE u == [upd[c] EXCEPT !.pc = "error", !.reason = "Api", !.flying = TRUE,
                                 !.since = 0]
  <2>1. upd' = [upd EXCEPT ![c] = u] /\ UNCHANGED <<obj, log>>
        /\ upd[c].pc = "replace"
    BY <1>7 DEF ReplaceError
  <2>2. u.pc = "error" /\ u.applied = upd[c].applied
    BY <1>1 DEF Update
  <2> HIDE DEF u
  <2> QED
    BY <2>1, <2>2, UpdateCalm
<1> QED
  BY <1>3, <1>4, <1>5, <1>6, <1>7 DEF UpdateStep

\* A replace lands late only after its update has failed.
LEMMA LandCalm ==
  ASSUME RotInv, CalmInv, NEW c \in Actors, Land(c), UNCHANGED rotVars
  PROVE  CalmInv'
<1>1. upd \in [Actors -> Update] /\ req \in [Actors -> Request]
      /\ upd[c] \in Update /\ CallOK(c, upd[c])
  BY DEF RotInv, StoreInv, StoreTypeOK, RotTypeOK, CallerInv, CallerOK
<1> DEFINE u == [upd[c] EXCEPT !.flying = FALSE, !.applied = TRUE]
<1>2. upd' = [upd EXCEPT ![c] = u] /\ upd[c].flying
  BY DEF Land
<1>3. u.pc = upd[c].pc
  BY <1>1 DEF Update
<1> HIDE DEF u
<1>4. /\ upd'[c] = u /\ \A d \in Actors : d # c => upd'[d] = upd[d]
      /\ req' = [req EXCEPT ![c] = req[c]] /\ calm' = calm
  BY <1>1, <1>2 DEF rotVars
<1>5. upd[c].pc \notin {"idle", "get", "replace", "ok"}
  BY <1>1, <1>2 DEF CallOK
<1>6. ~Undisturbed'
  BY <1>3, <1>4, <1>5 DEF Undisturbed
<1>7. CalmControl'
  <2>1. calm => AloneOK(req[c], upd'[c])
    BY <1>3, <1>4 DEF CalmInv, CalmControl, AloneOK
  <2> QED
    BY <1>4, <2>1, ControlKept DEF CalmInv
<1> QED
  BY <1>6, <1>7 DEF CalmInv

\* The other writers leave the entries of a living resource alone.
LEMMA EnvironmentCalm ==
  ASSUME RotInv, CalmInv, Environment, UNCHANGED rotVars
  PROVE  CalmInv'
<1>1. /\ req' = req /\ store' = store /\ answered' = answered /\ calm' = calm
      /\ upd' = upd
  BY DEF rotVars, Environment, Patch, EditSpec, Create, Delete
<1>2. CalmControl'
  BY <1>1 DEF CalmInv, CalmControl
<1>3. obj \in Object /\ obj.status \in Status
  BY DEF RotInv, StoreInv, StoreTypeOK, Object
<1>4. OpenKept
  BY <1>1 DEF OpenKept, Open
<1>5. ASSUME TruthOK PROVE TruthOK'
  <2>1. ASSUME NEW v, Patch(v) PROVE TruthOK'
    <3> DEFINE s == [obj.status EXCEPT !.valid = v]
    <3>1. obj' = [obj EXCEPT !.status = s, !.version = @ + 1] /\ log' = log
          /\ obj.exists
      BY <2>1 DEF Patch
    <3>2. s.targets = obj.status.targets
      BY <1>3 DEF Status
    <3> HIDE DEF s
    <3>3. obj'.status = s
      BY <1>3, <3>1 DEF Object
    <3> QED
      BY <1>1, <1>4, <1>5, <3>1, <3>2, <3>3, TruthKept
  <2>2. ASSUME NEW s, EditSpec(s) PROVE TruthOK'
    <3>1. obj' = [obj EXCEPT !.spec = s, !.gen = @ + 1, !.version = @ + 1]
          /\ log' = log /\ obj.exists
      BY <2>2 DEF EditSpec
    <3>2. obj'.status = obj.status
      BY <1>3, <3>1 DEF Object
    <3> QED
      BY <1>1, <1>4, <1>5, <3>1, <3>2, TruthKept
  <2>3. OpenOK'
    BY <1>1, <1>5 DEF TruthOK, OpenOK, Open
  <2>4. ASSUME NEW s, Create(s) PROVE TruthOK'
    <3>1. obj'.status = DefaultStatus
      BY <2>4 DEF Create
    <3>2. \A t \in Targets : Entry(t)' = None
      BY <3>1 DEF Entry, DefaultStatus
    <3>3. EntriesOK' /\ AgreedOK'
      BY <3>2 DEF EntriesOK, AgreedOK
    <3> QED
      BY <2>3, <3>3 DEF TruthOK
  <2>5. ASSUME Delete PROVE TruthOK'
    <3>1. ~obj'.exists
      BY <1>3, <2>5 DEF Delete, Object
    <3> QED
      BY <2>3, <3>1 DEF TruthOK
  <2> QED
    BY <2>1, <2>2, <2>4, <2>5 DEF Environment
<1>6. Undisturbed' => Undisturbed
  BY <1>1 DEF Undisturbed
<1> QED
  BY <1>2, <1>5, <1>6 DEF CalmInv

\* A step after which requests are no longer known to run one at a time.
LEMMA CalmEnds == ASSUME calm' = FALSE PROVE CalmInv'
BY DEF CalmInv, CalmControl, Undisturbed

\* A step that touches none of what the status is compared with.
LEMMA SameCalm ==
  ASSUME CalmInv, UNCHANGED <<obj, upd, log, req, store, answered, calm>>
  PROVE  CalmInv'
<1>1. CalmControl' /\ (Undisturbed' => Undisturbed)
  BY DEF CalmInv, CalmControl, Undisturbed
<1>2. OpenKept
  BY DEF OpenKept, Open
<1> QED
  BY <1>1, <1>2, TruthKept DEF CalmInv

\* A restart that cuts nothing off changes nothing but the cache.
LEMMA RestartCalm ==
  ASSUME RotInv, CalmInv, Restart
  PROVE  CalmInv'
<1>1. CASE calm /\ Quiet
  <2>1. \A r \in Actors : req[r].pc \notin Running /\ AloneOK(req[r], upd[r])
    BY <1>1 DEF Quiet, CalmInv, CalmControl
  <2>2. \A r \in Actors : upd[r].pc \notin {"get", "replace"}
    BY <2>1 DEF AloneOK, Running
  <2>3. /\ req' = [r \in Actors |-> req[r]] /\ upd' = [r \in Actors |-> upd[r]]
        /\ UNCHANGED <<obj, log, store, answered>> /\ calm' = calm
    BY <1>1, <2>1, <2>2 DEF Restart
  <2>4. req' = req /\ upd' = upd
    BY <2>3 DEF RotInv, RotTypeOK, StoreTypeOK
  <2> QED
    BY <2>3, <2>4, SameCalm
<1>2. CASE ~(calm /\ Quiet)
  BY <1>2, CalmEnds DEF Restart
<1> QED
  BY <1>1, <1>2

LEMMA CalmNext ==
  ASSUME RotInv, CalmInv, [Next]_vars
  PROVE  CalmInv'
<1>1. ASSUME NEW r \in Actors, RotateRefused(r) \/ RecordRefused(r) PROVE CalmInv'
  BY <1>1, RefuseCalm
<1>2. ASSUME NEW r \in Actors, NEW manual \in Expiries, NEW skip \in BOOLEAN,
             Rotate(r, manual, skip)
      PROVE  CalmInv'
  BY <1>2, RotateCalm
<1>3. ASSUME NEW r \in Actors, NEW at \in 0..MaxTime, NEW manual \in Expiries,
             Record(r, at, manual)
      PROVE  CalmInv'
  BY <1>3, RecordCalm
<1>4. ASSUME NEW r \in Actors, Step(r) PROVE CalmInv'
  <2>1. CASE \/ \E e \in Expiries : ProbeOk(r, e)
             \/ ProbeNotSupported(r) \/ ProbeFailed(r)
    BY <2>1, ProbeCalm
  <2>2. CASE Reject(r) \/ Saved(r) \/ SaveFailed(r) \/ Publish(r)
    BY <2>2, AfterCalm
  <2>3. CASE WriteOk(r) \/ WriteRefused(r) \/ WriteUnanswered(r)
    BY <2>3, WriteCalm
  <2>4. CASE Save(r)
    BY <2>4, SaveCalm
  <2>5. CASE SaveStep(r)
    BY <2>5, SaveStepCalm DEF SaveStep
  <2> QED
    BY <1>4, <2>1, <2>2, <2>3, <2>4, <2>5 DEF Step
<1>5. ASSUME NEW r \in Actors, Disconnect(r) PROVE CalmInv'
  BY <1>5, CalmEnds DEF Disconnect
<1>6. ASSUME NEW r \in Actors, NEW t \in Targets, LandWrite(r, t) PROVE CalmInv'
  BY <1>6, CalmEnds DEF LandWrite
<1>7. ASSUME NEW r \in Actors, Land(r) /\ UNCHANGED rotVars PROVE CalmInv'
  BY <1>7, LandCalm
<1>8. CASE Environment /\ UNCHANGED rotVars
  BY <1>8, EnvironmentCalm
<1>9. CASE Restart
  BY <1>9, RestartCalm
<1>10. CASE Sync \/ Tick
  BY <1>10, SameCalm DEF Sync, Tick, storeVars
<1>11. CASE UNCHANGED vars
  BY <1>11, SameCalm DEF vars, storeVars, rotVars
<1> QED
  BY <1>1, <1>2, <1>3, <1>4, <1>5, <1>6, <1>7, <1>8, <1>9, <1>10, <1>11 DEF Next

LEMMA CalmInit == ASSUME Init PROVE CalmInv
<1>1. /\ obj.status = DefaultStatus
      /\ \A r \in Actors : upd[r] = IdleUpdate /\ req[r] = IdleRequest
  BY DEF Init, StoreInit
<1>2. IdleUpdate.pc = "idle" /\ IdleRequest.pc = "idle"
  BY IdleRequestType DEF IdleUpdate
<1>3. \A r \in Actors : upd[r].pc = "idle" /\ req[r].pc = "idle"
  BY <1>1, <1>2
<1>4. \A t \in Targets : Entry(t) = None
  BY <1>1 DEF Entry, DefaultStatus
<1>5. CalmControl
  BY <1>3 DEF CalmControl, AloneOK, Running
<1>6. OpenOK /\ EntriesOK /\ AgreedOK
  BY <1>3, <1>4 DEF OpenOK, Open, EntriesOK, AgreedOK
<1> QED
  BY <1>5, <1>6 DEF CalmInv, TruthOK

\* As long as requests run one at a time, none is cut off and every save
\* succeeds, each entry of the status is the result of its target's last write,
\* and entries that are all ok stand for the key of the newest rotation.
THEOREM CalmTruth == Spec => []CalmStatusIsTrue
<1>1. Init => RotInv /\ CalmInv
  BY RotInitInv, CalmInit
<1>2. RotInv /\ CalmInv /\ [Next]_vars => (RotInv /\ CalmInv)'
  BY RotNextKeepsInv, CalmNext
<1>3. RotInv /\ CalmInv => CalmStatusIsTrue
  BY CalmInvImplies
<1> QED
  BY <1>1, <1>2, <1>3, PTL DEF Spec
=============================================================================
