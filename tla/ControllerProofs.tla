--------------------------- MODULE ControllerProofs ---------------------------
(***************************************************************************)
(* Proofs about the controller, for any specs, allow lists, verdicts and   *)
(* any number of edits, creations, faults and restarts.                    *)
(*                                                                         *)
(* StaleIsNoticed stands on what the controller knows: what it has not     *)
(* been sent ends with the resource as it is, so once it has been sent     *)
(* everything its cache is the resource, and a patch under way with        *)
(* nothing further due is the verdict on that cache.  ObservedMeansJudged  *)
(* stands on generations that only grow: whatever the controller has seen  *)
(* or judged is no later than the resource, and of its generation only if  *)
(* it has its spec.                                                        *)
(***************************************************************************)
EXTENDS Controller, SequenceTheorems, TLAPS

\* What has not been delivered ends with the resource as it is.
CacheInv ==
  /\ ~synced => watch = <<>> /\ cache = None /\ rec = None /\ pending = "none"
  /\ synced => /\ cache # None
               /\ watch = <<>> => cache = obj
               /\ watch # <<>> => watch[Len(watch)] = obj

\* A patch is the verdict on the cache, unless a reconcile is due.
RecInv == rec # None /\ pending = "none" /\ cache.exists => rec = Judged(cache)

\* x was seen, or judged, at a generation o has or has had.
Past(x, o) == x.uid < o.uid \/ (x.uid = o.uid /\ x.gen <= o.gen)
Same(x, o) == x.uid = o.uid /\ x.gen = o.gen

SeenOf(x, o) == Past(x, o) /\ (Same(x, o) => x.spec = o.spec)
JudgedOf(c, o) ==
  Past(c, o) /\ (Same(c, o) => \E a \in AllowLists : c.message = Verdict[o.spec][a])

SeenInv == /\ cache # None => SeenOf(cache, obj)
           /\ \A i \in 1 .. Len(watch) : SeenOf(watch[i], obj)

JudgedInv == /\ obj.cond # None => JudgedOf(obj.cond, obj)
             /\ rec # None => JudgedOf(rec, obj)
             /\ \A c \in late : JudgedOf(c, obj)

CtlInv == CtlTypeOK /\ CacheInv /\ RecInv /\ StaleIsNoticed /\ SeenInv /\ JudgedInv

\* The verdict on an object is a condition.
LEMMA JudgedType ==
  ASSUME NEW o \in Object, allow \in AllowLists
  PROVE  /\ Judged(o) \in Condition
         /\ Judged(o).uid = o.uid /\ Judged(o).gen = o.gen
         /\ Judged(o).message = Verdict[o.spec][allow]
BY DEF Object, Judged, Condition, Verdicts

\* Versions are numbers.
LEMMA ObjectNumbers == \A x \in Object : x.uid \in Nat /\ x.gen \in Nat
BY DEF Object

LEMMA ConditionNumbers == \A c \in Condition : c.uid \in Nat /\ c.gen \in Nat
BY DEF Condition

\* A controller that has seen nothing and a resource nobody has judged.
LEMMA CtlInitInv == ASSUME Init PROVE CtlInv
<1>1. obj \in Object
  BY DEF Init, Object
<1>2. watch \in Seq(Object) /\ late \subseteq Condition
  BY DEF Init
<1>3. CtlTypeOK
  BY <1>1, <1>2 DEF Init, Cold, CtlTypeOK
<1>4. CacheInv /\ RecInv /\ StaleIsNoticed /\ SeenInv /\ JudgedInv
  BY DEF Init, Cold, CacheInv, RecInv, StaleIsNoticed, SeenInv, JudgedInv
<1> QED
  BY <1>3, <1>4 DEF CtlInv

-----------------------------------------------------------------------------
\* The resource becomes o, which is no earlier: whatever was seen or judged of the old
\* one was of the new one.
Follows(o) ==
  /\ o \in Object
  /\ \A x \in Object : SeenOf(x, obj) => SeenOf(x, o)
  /\ \A c \in Condition : JudgedOf(c, obj) => JudgedOf(c, o)
  /\ o.cond # None => JudgedOf(o.cond, o)

\* A change that follows the resource, by whoever makes it.
LEMMA ChangeKeepsInv ==
  ASSUME CtlInv, NEW o, Follows(o), Change(o),
         rec' \in {rec, None},
         UNCHANGED <<cache, synced, allow, pending, poll, waker>>,
         late' \subseteq late, faults' \in Nat
  PROVE  CtlInv'
<1>1. CtlTypeOK'
  BY DEF CtlInv, CtlTypeOK, Change, Follows
<1>2. o \in Object /\ obj' = o /\ watch \in Seq(Object)
  BY DEF CtlInv, CtlTypeOK, Change, Follows
<1>3. CASE synced
  <2>1. watch' = Append(watch, o)
    BY <1>3 DEF Change
  <2>2. /\ watch' # <<>> /\ Len(watch') = Len(watch) + 1
        /\ watch'[Len(watch')] = o
        /\ \A i \in 1 .. Len(watch) : watch'[i] = watch[i]
    BY <1>2, <2>1, AppendProperties
  <2>3. CacheInv' /\ RecInv' /\ StaleIsNoticed'
    BY <1>2, <1>3, <2>2 DEF CtlInv, CacheInv, RecInv, StaleIsNoticed, Judged
  <2>4. SeenOf(o, o)
    BY <1>2 DEF SeenOf, Past, Same, Object
  <2>5. SeenInv'
    <3>1. cache' # None => SeenOf(cache', obj')
      BY <1>2 DEF CtlInv, CtlTypeOK, SeenInv, Follows
    <3>2. ASSUME NEW i \in 1 .. Len(watch') PROVE SeenOf(watch'[i], obj')
      <4>1. CASE i = Len(watch')
        BY <1>2, <2>2, <2>4, <4>1
      <4>2. CASE i # Len(watch')
        <5>1. i \in 1 .. Len(watch) /\ watch[i] \in Object
          BY <1>2, <2>2, <4>2
        <5> QED
          BY <1>2, <2>2, <5>1 DEF CtlInv, SeenInv, Follows
      <4> QED
        BY <4>1, <4>2
    <3> QED
      BY <3>1, <3>2 DEF SeenInv
  <2>6. JudgedInv'
    BY <1>2 DEF CtlInv, CtlTypeOK, JudgedInv, Follows
  <2> QED
    BY <1>1, <2>3, <2>5, <2>6 DEF CtlInv
<1>4. CASE ~synced
  <2>1. watch' = <<>> /\ cache' = None /\ rec' = None /\ pending' = "none" /\ ~synced'
    BY <1>4 DEF Change, CtlInv, CacheInv
  <2>2. CacheInv' /\ RecInv' /\ StaleIsNoticed' /\ SeenInv'
    BY <2>1 DEF CacheInv, RecInv, StaleIsNoticed, SeenInv
  <2>3. JudgedInv'
    BY <1>2 DEF CtlInv, CtlTypeOK, JudgedInv, Follows
  <2> QED
    BY <1>1, <2>2, <2>3 DEF CtlInv
<1> QED
  BY <1>3, <1>4

\* An edit, a deletion or a creation follows the resource as it was.
LEMMA OwnerKeepsInv ==
  ASSUME CtlInv, (\E s \in Specs : EditSpec(s) \/ Create(s)) \/ Delete
  PROVE  CtlInv'
<1> USE DEF controller
<1>1. obj \in Object /\ rec \in {rec, None} /\ late \subseteq late /\ faults \in Nat
  BY DEF CtlInv, CtlTypeOK
<1>2. ASSUME NEW s \in Specs, EditSpec(s) PROVE CtlInv'
  <2> DEFINE o == [obj EXCEPT !.spec = s, !.gen = @ + 1]
  <2>1. obj.uid \in Nat /\ obj.gen \in Nat /\ obj.gen + 1 \in Nat
    BY <1>1 DEF Object
  <2>2. o.uid = obj.uid /\ o.gen = obj.gen + 1 /\ o.cond = obj.cond
    BY <1>1 DEF Object
  <2>3. o \in Object
    BY <1>1, <2>1 DEF Object
  <2> HIDE DEF o
  <2>4. \A x \in Object : SeenOf(x, obj) => SeenOf(x, o)
    BY <2>1, <2>2, ObjectNumbers DEF SeenOf, Past, Same
  <2>5. \A c \in Condition : JudgedOf(c, obj) => JudgedOf(c, o)
    BY <2>1, <2>2, ConditionNumbers DEF JudgedOf, Past, Same
  <2>6. o.cond # None => JudgedOf(o.cond, o)
    BY <1>1, <2>2, <2>5 DEF CtlInv, JudgedInv, Object
  <2>7. Follows(o) /\ Change(o)
    BY <1>2, <2>3, <2>4, <2>5, <2>6 DEF Follows, EditSpec, o
  <2> QED
    BY <1>1, <1>2, <2>7, ChangeKeepsInv DEF EditSpec
<1>3. ASSUME NEW s \in Specs, Create(s) PROVE CtlInv'
  <2> DEFINE o == [exists |-> TRUE, uid |-> obj.uid + 1, gen |-> 1, spec |-> s,
                   cond |-> None]
  <2>1. o \in Object /\ o.uid = obj.uid + 1 /\ o.cond = None /\ obj.uid \in Nat
    BY <1>1 DEF Object
  <2> HIDE DEF o
  <2>2. \A x \in Object : SeenOf(x, obj) => SeenOf(x, o)
    BY <2>1, ObjectNumbers DEF SeenOf, Past, Same
  <2>3. \A c \in Condition : JudgedOf(c, obj) => JudgedOf(c, o)
    BY <2>1, ConditionNumbers DEF JudgedOf, Past, Same
  <2>4. Follows(o) /\ Change(o)
    BY <1>3, <2>1, <2>2, <2>3 DEF Follows, Create, o
  <2> QED
    BY <1>1, <1>3, <2>4, ChangeKeepsInv DEF Create
<1>4. CASE Delete
  <2> DEFINE o == [obj EXCEPT !.exists = FALSE]
  <2>1. /\ o \in Object /\ o.uid = obj.uid /\ o.gen = obj.gen
        /\ o.cond = obj.cond /\ o.spec = obj.spec
    BY <1>1 DEF Object
  <2>2. /\ \A x \in Object : SeenOf(x, obj) => SeenOf(x, o)
        /\ \A c \in Condition : JudgedOf(c, obj) => JudgedOf(c, o)
    BY <2>1 DEF SeenOf, JudgedOf, Past, Same
  <2>3. o.cond # None => JudgedOf(o.cond, o)
    BY <1>1, <2>1, <2>2 DEF CtlInv, JudgedInv, Object
  <2>4. Follows(o) /\ Change(o)
    BY <1>4, <2>1, <2>2, <2>3 DEF Follows, Delete
  <2> HIDE DEF o
  <2> QED
    BY <1>1, <1>4, <2>4, ChangeKeepsInv DEF Delete
<1> QED
  BY <1>2, <1>3, <1>4

\* The resource with a condition that was made for what it has been follows it.
LEMMA PatchFollows ==
  ASSUME CtlInv, NEW c \in Condition, JudgedOf(c, obj)
  PROVE  Follows([obj EXCEPT !.cond = c])
<1> DEFINE o == [obj EXCEPT !.cond = c]
<1>1. /\ o \in Object /\ o.uid = obj.uid /\ o.gen = obj.gen
      /\ o.cond = c /\ o.spec = obj.spec
  BY DEF CtlInv, CtlTypeOK, Object
<1>2. /\ \A x \in Object : SeenOf(x, obj) => SeenOf(x, o)
      /\ \A d \in Condition : JudgedOf(d, obj) => JudgedOf(d, o)
  BY <1>1 DEF SeenOf, JudgedOf, Past, Same
<1> HIDE DEF o
<1> QED
  BY <1>1, <1>2 DEF Follows, o

-----------------------------------------------------------------------------
\* A watch event, the last of which leaves the cache as the resource is.
LEMMA DeliverKeepsInv ==
  ASSUME CtlInv, Deliver
  PROVE  CtlInv'
<1>1. /\ watch \in Seq(Object) /\ watch # <<>> /\ obj \in Object /\ obj' = obj
      /\ cache' = Head(watch) /\ watch' = Tail(watch)
      /\ UNCHANGED <<synced, allow, rec, late>>
  BY DEF CtlInv, CtlTypeOK, Deliver
<1>2. /\ Head(watch) \in Object /\ Head(watch) = watch[1] /\ Tail(watch) \in Seq(Object)
      /\ Len(watch) \in Nat \ {0} /\ Len(Tail(watch)) = Len(watch) - 1
      /\ \A i \in 1 .. Len(watch) - 1 : Tail(watch)[i] = watch[i + 1]
  BY <1>1, HeadTailProperties, EmptySeq
<1>3. CtlTypeOK'
  BY <1>1, <1>2 DEF CtlInv, CtlTypeOK, Deliver
<1>4. synced /\ synced' /\ watch[Len(watch)] = obj
  BY <1>1 DEF CtlInv, CacheInv
<1>5. /\ watch' = <<>> => cache' = obj
      /\ watch' # <<>> => watch'[Len(watch')] = obj
  <2>1. ASSUME watch' = <<>> PROVE cache' = obj
    <3>1. Len(watch') = 0
      BY <1>1, <2>1, EmptySeq
    <3>2. Len(watch') = Len(watch) - 1
      BY <1>1, <1>2
    <3>3. Len(watch) \in Nat
      BY <1>2
    <3>4. Len(watch) = 1
      BY <3>1, <3>2, <3>3
    <3> QED
      BY <1>1, <1>2, <1>4, <3>4
  <2>2. ASSUME watch' # <<>> PROVE watch'[Len(watch')] = obj
    <3>1. Len(watch') \in Nat \ {0}
      BY <1>1, <1>2, <2>2, EmptySeq
    <3> QED
      BY <1>1, <1>2, <1>4, <3>1
  <2> QED
    BY <2>1, <2>2
<1>6. CacheInv'
  BY <1>1, <1>2, <1>4, <1>5, NoneAssumption DEF CacheInv
<1>7. pending' = IF cache'.exists THEN "now" ELSE pending
  BY <1>1 DEF Deliver
<1>8. RecInv' /\ StaleIsNoticed'
  BY <1>1, <1>5, <1>7 DEF RecInv, StaleIsNoticed
<1>9. SeenInv'
  BY <1>1, <1>2 DEF CtlInv, SeenInv
<1>10. JudgedInv'
  BY <1>1 DEF CtlInv, JudgedInv
<1> QED
  BY <1>3, <1>6, <1>8, <1>9, <1>10 DEF CtlInv

\* A list, after which nothing is left to be sent.
LEMMA ListKeepsInv ==
  ASSUME CtlInv, List
  PROVE  CtlInv'
<1>1. /\ obj \in Object /\ obj' = obj /\ cache' = obj /\ watch' = <<>> /\ synced'
      /\ UNCHANGED <<allow, rec, late>>
      /\ pending' = IF obj.exists THEN "now" ELSE pending
  BY DEF CtlInv, CtlTypeOK, List
<1>2. CtlTypeOK'
  BY <1>1 DEF CtlInv, CtlTypeOK, List
<1>3. CacheInv' /\ RecInv' /\ StaleIsNoticed' /\ JudgedInv'
  BY <1>1, NoneAssumption
     DEF CtlInv, CacheInv, RecInv, StaleIsNoticed, JudgedInv
<1>4. SeenOf(obj, obj)
  BY <1>1 DEF SeenOf, Past, Same, Object
<1>5. SeenInv'
  BY <1>1, <1>4 DEF SeenInv
<1> QED
  BY <1>2, <1>3, <1>5 DEF CtlInv

\* A reconcile that finds nothing to do has seen the resource as it is, or will.
LEMMA ReconcileKeepsInv ==
  ASSUME CtlInv, Reconcile
  PROVE  CtlInv'
<1>1. /\ cache \in Object /\ obj \in Object /\ allow \in AllowLists
      /\ SeenOf(cache, obj)
  BY DEF CtlInv, CtlTypeOK, CacheInv, SeenInv, Reconcile
<1>2. /\ UNCHANGED <<obj, watch, cache, synced, allow, late>>
      /\ synced /\ pending' = "none"
      /\ rec' = IF cache.exists /\ ~UpToDate(cache) THEN Judged(cache) ELSE None
  BY DEF Reconcile
<1>3. Judged(cache) \in Condition /\ JudgedOf(Judged(cache), obj)
  BY <1>1, JudgedType DEF SeenOf, JudgedOf, Past, Same
<1>4. CtlTypeOK'
  BY <1>3 DEF CtlInv, CtlTypeOK, Reconcile
<1>5. CacheInv'
  BY <1>2 DEF CtlInv, CacheInv
<1>6. Judged(cache)' = Judged(cache)
  BY <1>2 DEF Judged
<1>7. RecInv' /\ JudgedInv' /\ SeenInv'
  BY <1>2, <1>3, <1>6 DEF CtlInv, RecInv, JudgedInv, SeenInv
<1>8. StaleIsNoticed'
  <2>1. SUFFICES ASSUME obj.exists, ~Current, watch = <<>> PROVE rec' # None
    BY <1>2 DEF StaleIsNoticed, Current
  <2>2. cache = obj
    BY <1>2, <2>1 DEF CtlInv, CacheInv
  <2>3. ~UpToDate(cache)
    BY <1>1, <2>1, <2>2, JudgedType DEF UpToDate, Current
  <2> QED
    BY <1>2, <1>3, <2>1, <2>2, <2>3, NoneAssumption
<1> QED
  BY <1>4, <1>5, <1>7, <1>8 DEF CtlInv

-----------------------------------------------------------------------------
\* The patch of a reconcile, or a late one, is applied to the resource there is.
LEMMA ApplyKeepsInv ==
  ASSUME CtlInv, NEW c \in Condition, JudgedOf(c, obj), ~(obj.cond = c),
         ApplyPatch(c), rec' \in {rec, None},
         UNCHANGED <<cache, synced, allow, pending, poll, waker, faults>>,
         late' \subseteq late
  PROVE  CtlInv'
<1>1. faults' \in Nat
  BY DEF CtlInv, CtlTypeOK
<1>2. Follows([obj EXCEPT !.cond = c])
  BY PatchFollows
<1>3. Change([obj EXCEPT !.cond = c])
  BY DEF ApplyPatch
<1> QED
  BY <1>1, <1>2, <1>3, ChangeKeepsInv

\* A patch that changes nothing was the verdict on the resource as it is, unless
\* something is due.
LEMMA PatchedKeepsInv ==
  ASSUME CtlInv, Patched
  PROVE  CtlInv'
<1>1. rec \in Condition /\ JudgedOf(rec, obj) /\ rec' = None
  BY DEF CtlInv, CtlTypeOK, JudgedInv, Patched
<1>2. CASE obj.cond # rec
  BY <1>1, <1>2, ApplyKeepsInv DEF Patched
<1>3. CASE obj.cond = rec
  <2>1. UNCHANGED <<obj, watch, cache, synced, allow, pending, late, poll, waker, faults>>
    BY <1>3 DEF Patched, ApplyPatch
  <2>2. CtlTypeOK' /\ CacheInv' /\ RecInv' /\ SeenInv' /\ JudgedInv'
    BY <1>1, <2>1
       DEF CtlInv, CtlTypeOK, CacheInv, RecInv, SeenInv, JudgedInv, Judged
  <2>3. StaleIsNoticed'
    <3>1. SUFFICES ASSUME synced, obj.exists, watch = <<>>, pending = "none"
                   PROVE  Current
      BY <2>1 DEF StaleIsNoticed, Current
    <3>2. cache = obj /\ rec = Judged(obj)
      BY <1>1, <3>1, NoneAssumption DEF CtlInv, CacheInv, RecInv
    <3>3. obj \in Object /\ allow \in AllowLists
      BY DEF CtlInv, CtlTypeOK
    <3> QED
      BY <1>1, <1>3, <3>2, <3>3, JudgedType, NoneAssumption DEF Current
  <2> QED
    BY <2>2, <2>3 DEF CtlInv
<1> QED
  BY <1>2, <1>3

\* A late patch was the verdict on something the resource has been.
LEMMA LandKeepsInv ==
  ASSUME CtlInv, Land
  PROVE  CtlInv'
<1>1. PICK c \in late :
        /\ late' = late \ {c}
        /\ IF obj.exists THEN ApplyPatch(c) ELSE UNCHANGED <<obj, watch>>
        /\ UNCHANGED <<cache, synced, allow, pending, rec, poll, waker, faults>>
  BY DEF Land
<1>2. c \in Condition /\ JudgedOf(c, obj) /\ late' \subseteq late
  BY <1>1 DEF CtlInv, CtlTypeOK, JudgedInv
<1>3. CASE obj.exists /\ obj.cond # c
  BY <1>1, <1>2, <1>3, ApplyKeepsInv
<1>4. CASE ~(obj.exists /\ obj.cond # c)
  <2>1. UNCHANGED <<obj, watch, cache, synced, allow, pending, rec, poll, waker, faults>>
    BY <1>1, <1>4 DEF ApplyPatch
  <2> QED
    BY <1>2, <2>1
       DEF CtlInv, CtlTypeOK, CacheInv, RecInv, StaleIsNoticed, Current, SeenInv,
           JudgedInv, Judged
<1> QED
  BY <1>3, <1>4

-----------------------------------------------------------------------------
\* What leaves the resource alone, and what the controller knows of it, keeps the
\* invariant, as long as something stays due if it was.
LEMMA QuietKeepsInv ==
  ASSUME CtlInv, CtlTypeOK',
         UNCHANGED <<obj, watch, cache, synced, allow>>,
         \/ UNCHANGED <<pending, rec>>
         \/ synced /\ pending' # "none" /\ rec' \in {rec, None},
         late' \subseteq late \cup ({rec} \ {None})
  PROVE  CtlInv'
<1>1. CacheInv' /\ StaleIsNoticed' /\ SeenInv'
  BY DEF CtlInv, CacheInv, StaleIsNoticed, Current, SeenInv
<1>2. RecInv'
  BY DEF CtlInv, RecInv, Judged
<1>3. JudgedInv'
  BY DEF CtlInv, JudgedInv
<1> QED
  BY <1>1, <1>2, <1>3 DEF CtlInv

\* An error leaves a retry behind.
LEMMA FailedKeepsInv ==
  ASSUME CtlInv, NotFound \/ PatchError
  PROVE  CtlInv'
<1>1. /\ UNCHANGED <<obj, watch, cache, synced, allow, poll, waker>>
      /\ rec # None /\ rec' = None /\ pending' \in {"now", "later"}
      /\ late' \subseteq late \cup ({rec} \ {None}) /\ faults' \in Nat
  BY DEF CtlInv, CtlTypeOK, NotFound, PatchError, Failed, ErrorPolicy
<1>2. CtlTypeOK' /\ synced
  BY <1>1 DEF CtlInv, CtlTypeOK, CacheInv
<1> QED
  BY <1>1, <1>2, QuietKeepsInv

\* The retry comes due.
LEMMA RequeueKeepsInv ==
  ASSUME CtlInv, Requeue
  PROVE  CtlInv'
<1>1. CtlTypeOK' /\ synced
  BY DEF CtlInv, CtlTypeOK, CacheInv, Requeue
<1> QED
  BY <1>1, QuietKeepsInv DEF Requeue

\* Readiness has no part in the condition.
LEMMA PollKeepsInv ==
  ASSUME CtlInv,
         PollWaits \/ PollReady \/ ControllerWaits \/ Woken \/ PollTimeout
  PROVE  CtlInv'
<1>1. /\ poll' \in {"start", "wait", "ready"}
      /\ waker' \in {"nobody", "poll", "controller"}
      /\ UNCHANGED <<obj, watch, cache, synced, allow, pending, rec, late, faults>>
  BY DEF CtlInv, CtlTypeOK, PollWaits, PollReady, ControllerWaits, Woken, PollTimeout,
         Poll
<1>2. CtlTypeOK'
  BY <1>1 DEF CtlInv, CtlTypeOK
<1> QED
  BY <1>1, <1>2, QuietKeepsInv

\* A restart forgets all but the patches that may still be applied.
LEMMA RestartKeepsInv ==
  ASSUME CtlInv, Restart
  PROVE  CtlInv'
<1>1. late' \subseteq late \cup ({rec} \ {None})
  BY DEF Restart
<1>2. CtlTypeOK'
  <2>1. watch' \in Seq(Object) /\ late' \subseteq Condition
    BY <1>1, EmptySeq DEF CtlInv, CtlTypeOK, Restart
  <2>2. faults' \in Nat
    BY DEF CtlInv, CtlTypeOK, Restart
  <2> QED
    BY <2>1, <2>2 DEF CtlInv, CtlTypeOK, Restart
<1>3. CacheInv' /\ RecInv' /\ StaleIsNoticed' /\ SeenInv'
  BY DEF Restart, CacheInv, RecInv, StaleIsNoticed, SeenInv
<1>4. JudgedInv'
  BY <1>1 DEF CtlInv, JudgedInv, Restart
<1> QED
  BY <1>2, <1>3, <1>4 DEF CtlInv

-----------------------------------------------------------------------------
\* Every step keeps the invariant.
LEMMA CtlNextInv ==
  ASSUME CtlInv, [Next]_vars
  PROVE  CtlInv'
<1>1. ASSUME (\E s \in Specs : EditSpec(s) \/ Create(s)) \/ Delete PROVE CtlInv'
  BY <1>1, OwnerKeepsInv
<1>2. CASE Deliver
  BY <1>2, DeliverKeepsInv
<1>3. CASE List
  BY <1>3, ListKeepsInv
<1>4. CASE Reconcile
  BY <1>4, ReconcileKeepsInv
<1>5. CASE Patched
  BY <1>5, PatchedKeepsInv
<1>6. CASE NotFound \/ PatchError
  BY <1>6, FailedKeepsInv
<1>7. CASE Land
  BY <1>7, LandKeepsInv
<1>8. CASE Requeue
  BY <1>8, RequeueKeepsInv
<1>9. CASE PollWaits \/ PollReady \/ ControllerWaits \/ Woken \/ PollTimeout
  BY <1>9, PollKeepsInv
<1>10. CASE Restart
  BY <1>10, RestartKeepsInv
<1>11. CASE UNCHANGED vars
  BY <1>11
     DEF vars, CtlInv, CtlTypeOK, CacheInv, RecInv, StaleIsNoticed, Current, SeenInv,
         JudgedInv, Judged
<1> QED
  BY <1>1, <1>2, <1>3, <1>4, <1>5, <1>6, <1>7, <1>8, <1>9, <1>10, <1>11 DEF Next

\* What the controller knows, and has under way, always accounts for the resource.
THEOREM CtlInvariant == Spec => []CtlInv
<1>1. Init => CtlInv
  BY CtlInitInv
<1>2. CtlInv /\ [Next]_vars => CtlInv'
  BY CtlNextInv
<1> QED
  BY <1>1, <1>2, PTL DEF Spec

\* The types of the resource, the cache, the patches and the task that sets ready.
THEOREM ControllerTypes == Spec => []CtlTypeOK
<1>1. CtlInv => CtlTypeOK
  BY DEF CtlInv
<1> QED
  BY <1>1, CtlInvariant, PTL

\* A wrong Valid condition always has a watch event, a reconcile or a patch to come,
\* whatever was edited, deleted, created again, lost, repeated or restarted.
THEOREM NothingIsForgotten == Spec => []StaleIsNoticed
<1>1. CtlInv => StaleIsNoticed
  BY DEF CtlInv
<1> QED
  BY <1>1, CtlInvariant, PTL

\* A condition that claims the resource's generation was made from its spec, however
\* far behind the cache it was computed from and however late it was applied.
THEOREM ObservedIsJudged == Spec => []ObservedMeansJudged
<1>1. CtlInv => ObservedMeansJudged
  BY DEF CtlInv, JudgedInv, JudgedOf, Same, ObservedMeansJudged
<1> QED
  BY <1>1, CtlInvariant, PTL
=============================================================================
