------------------------------ MODULE Controller ------------------------------
(***************************************************************************)
(* The controller of KubeRepository (k8s.rs): it judges every ApiKey it    *)
(* sees in its cache and patches the Valid condition, and it tells when    *)
(* the cache is complete.  One resource, which is edited, deleted and      *)
(* created again meanwhile; rotations only add watch events and are left   *)
(* out.                                                                    *)
(*                                                                         *)
(* kube-runtime and the API server are external: the watch delivers the    *)
(* changes in order, or breaks and lists again; at most one reconcile runs *)
(* per resource, a trigger that comes meanwhile runs after it and replaces *)
(* a later requeue; deletions trigger nothing.                             *)
(***************************************************************************)
EXTENDS Integers, Sequences

CONSTANTS Specs, AllowLists,
          Verdict,            \* spec and allow list to the problems validate finds
          MaxGen, MaxUid,     \* bounds: edits of one resource, creations
          MaxFaults,          \* bound: failing requests and restarts
          None

ASSUME ControllerBounds == MaxGen \in Nat /\ MaxUid \in Nat /\ MaxFaults \in Nat

VARIABLES obj,      \* the resource on the API server
          watch,    \* changes the controller has not been sent yet, oldest first
          cache,    \* what the reflector's store holds of it
          synced,   \* the store has had a complete list
          allow,    \* cfg.allowed_paths of the running process
          pending,  \* when the resource is to be reconciled
          rec,      \* the patch of the reconcile under way
          late,     \* patches nobody waits for that may still be applied
          poll,     \* where the task is that sets ready
          waker,    \* who the store will wake when it is complete
          faults

vars == <<obj, watch, cache, synced, allow, pending, rec, late, poll, waker, faults>>

\* The Valid condition: its message, which decides status and reason, and
\* observed_generation.  uid is a history variable: the resource it was made for.
Verdicts == {Verdict[s][a] : s \in Specs, a \in AllowLists}
Condition == [message : Verdicts, gen : Nat, uid : Nat]
Object == [exists : BOOLEAN, uid : Nat, gen : Nat, spec : Specs,
           cond : Condition \cup {None}]

ASSUME NoneAssumption == None \notin Condition /\ None \notin Object

CtlTypeOK ==
  /\ obj \in Object /\ watch \in Seq(Object) /\ cache \in Object \cup {None}
  /\ synced \in BOOLEAN /\ allow \in AllowLists
  /\ pending \in {"none", "now", "later"}
  /\ rec \in Condition \cup {None} /\ late \subseteq Condition
  /\ poll \in {"start", "wait", "ready"} /\ waker \in {"nobody", "poll", "controller"}
  /\ faults \in Nat

Cold == /\ cache = None /\ synced = FALSE /\ pending = "none" /\ rec = None
        /\ poll = "start" /\ waker = "nobody"

Init == /\ \E s \in Specs :
             obj = [exists |-> TRUE, uid |-> 1, gen |-> 1, spec |-> s, cond |-> None]
        /\ watch = <<>> /\ late = {} /\ faults = 0
        /\ allow \in AllowLists
        /\ Cold

controller == <<synced, allow, pending, rec, late, poll, waker>>

-----------------------------------------------------------------------------
(* The API server *)

\* A change; the controller hears of it once it watches.
Change(o) == /\ obj' = o
             /\ watch' = IF synced THEN Append(watch, o) ELSE <<>>

EditSpec(s) == /\ obj.exists /\ obj.spec # s /\ obj.gen < MaxGen
               /\ Change([obj EXCEPT !.spec = s, !.gen = @ + 1])
               /\ UNCHANGED <<cache, controller, faults>>

Delete == /\ obj.exists /\ obj.uid < MaxUid
          /\ Change([obj EXCEPT !.exists = FALSE])
          /\ UNCHANGED <<cache, controller, faults>>

Create(s) == /\ ~obj.exists
             /\ Change([exists |-> TRUE, uid |-> obj.uid + 1, gen |-> 1, spec |-> s,
                        cond |-> None])
             /\ UNCHANGED <<cache, controller, faults>>

\* The merge patch names neither resourceVersion nor uid, so it changes whatever
\* resource has the name; without a difference there is no change.
ApplyPatch(c) == IF obj.cond = c THEN UNCHANGED <<obj, watch>>
                 ELSE Change([obj EXCEPT !.cond = c])

-----------------------------------------------------------------------------
(* The reflector *)

Deliver == /\ watch # <<>>
           /\ cache' = Head(watch)
           /\ watch' = Tail(watch)
           /\ pending' = IF Head(watch).exists THEN "now" ELSE pending
           /\ UNCHANGED <<obj, synced, allow, rec, late, poll, waker, faults>>

\* The list the watch begins with, and begins again with when it breaks.
List == /\ ~synced \/ watch # <<>>
        /\ cache' = obj
        /\ watch' = <<>>
        /\ synced' = TRUE
        /\ pending' = IF obj.exists THEN "now" ELSE pending
        /\ UNCHANGED <<obj, allow, rec, late, poll, waker, faults>>

-----------------------------------------------------------------------------
(* reconcile *)

\* Faulty variant: observed_generation is read when the patch is made.
JudgedNow(o) == [message |-> Verdict[o.spec][allow], gen |-> obj.gen, uid |-> o.uid]

\* Faulty variant: observed_generation is left out.
JudgedAtNoGeneration(o) == [message |-> Verdict[o.spec][allow], gen |-> None, uid |-> o.uid]

\* The condition o should have.
Judged(o) == [message |-> Verdict[o.spec][allow], gen |-> o.gen, uid |-> o.uid]

\* Faulty variant: only the message is compared.
SameMessage(o) == o.cond # None /\ o.cond.message = Judged(o).message

\* desired_valid_condition finds nothing to do.
UpToDate(o) == /\ o.cond # None
               /\ o.cond.message = Judged(o).message
               /\ o.cond.gen = o.gen

Reconcile ==
  /\ synced /\ pending = "now" /\ rec = None
  /\ pending' = "none"
  /\ rec' = IF cache.exists /\ ~UpToDate(cache) THEN Judged(cache) ELSE None
  /\ UNCHANGED <<obj, watch, cache, synced, allow, late, poll, waker, faults>>

\* patch_status succeeds: await_change.
Patched ==
  /\ rec # None /\ obj.exists
  /\ ApplyPatch(rec)
  /\ rec' = None
  /\ UNCHANGED <<cache, synced, allow, pending, late, poll, waker, faults>>

\* Faulty variant: a failed reconcile waits for the next change.
AwaitChange == pending

\* error_policy: requeue in 30 seconds, unless something else comes first.
ErrorPolicy == IF pending = "now" THEN "now" ELSE "later"

Failed == /\ rec # None
          /\ pending' = ErrorPolicy
          /\ rec' = None
          /\ UNCHANGED <<obj, watch, cache, synced, allow, poll, waker>>

NotFound == ~obj.exists /\ Failed /\ UNCHANGED <<late, faults>>

\* An error; the patch may have been sent and may still be applied.
PatchError == /\ faults < MaxFaults
              /\ Failed
              /\ faults' = faults + 1
              /\ late' \in {late, late \cup {rec}}

Land == \E c \in late :
          /\ late' = late \ {c}
          /\ IF obj.exists THEN ApplyPatch(c) ELSE UNCHANGED <<obj, watch>>
          /\ UNCHANGED <<cache, synced, allow, pending, rec, poll, waker, faults>>

Requeue == /\ pending = "later"
           /\ pending' = "now"
           /\ UNCHANGED <<obj, watch, cache, synced, allow, rec, late, poll, waker, faults>>

-----------------------------------------------------------------------------
(* Readiness: the task of KubeRepository::start.                           *)
Poll(next, w) == /\ poll' = next
                 /\ waker' = w
                 /\ UNCHANGED <<obj, watch, cache, synced, allow, pending, rec, late, faults>>

\* wait_until_ready
PollWaits == poll = "start" /\ ~synced /\ Poll("wait", "poll")
PollReady == poll = "start" /\ synced /\ Poll("ready", "nobody")

\* The controller waits as well; the store remembers the last who asked.
ControllerWaits == ~synced /\ waker # "controller" /\ Poll(poll, "controller")

Woken == poll = "wait" /\ synced /\ waker = "poll" /\ Poll("ready", "nobody")

\* Faulty variant: no timeout around wait_until_ready.
NoTimeout == FALSE /\ UNCHANGED vars

\* The timeout of 1 s.
PollTimeout == poll = "wait" /\ Poll("start", waker)

-----------------------------------------------------------------------------
\* The process starts anew, perhaps with other allowed paths.
Restart == /\ faults < MaxFaults
           /\ faults' = faults + 1
           /\ late' \in {late, late \cup ({rec} \ {None})}
           /\ allow' \in AllowLists
           /\ cache' = None /\ synced' = FALSE /\ pending' = "none" /\ rec' = None
           /\ poll' = "start" /\ waker' = "nobody"
           /\ watch' = <<>>
           /\ UNCHANGED obj

Next == \/ \E s \in Specs : EditSpec(s) \/ Create(s)
        \/ Delete
        \/ Deliver \/ List
        \/ Reconcile \/ Patched \/ NotFound \/ PatchError \/ Land \/ Requeue
        \/ PollWaits \/ PollReady \/ ControllerWaits \/ Woken \/ PollTimeout
        \/ Restart

\* Requests are answered, the watch goes on, tokio runs what is ready and fires timers.
Fairness == /\ WF_vars(Deliver) /\ WF_vars(List)
            /\ WF_vars(Reconcile) /\ WF_vars(Patched \/ NotFound) /\ WF_vars(Requeue)
            /\ WF_vars(PollWaits) /\ WF_vars(PollReady)
            /\ WF_vars(Woken) /\ WF_vars(PollTimeout)

Spec == Init /\ [][Next]_vars /\ Fairness

-----------------------------------------------------------------------------
\* The condition says what the running process thinks of the current spec.
Current == /\ obj.cond # None
           /\ obj.cond.message = Verdict[obj.spec][allow]
           /\ obj.cond.gen = obj.gen

\* A condition whose observed generation is the resource's own was made from the
\* spec the resource has, though it was computed from a cache that may be behind and
\* applied to whatever was there (observed_generation in desired_valid_condition).
\* Only a condition made for an earlier resource of the same name can say otherwise.
ObservedMeansJudged ==
  obj.exists /\ obj.cond # None
    /\ obj.cond.uid = obj.uid /\ obj.cond.gen = obj.gen =>
    \E a \in AllowLists : obj.cond.message = Verdict[obj.spec][a]

\* No wrong condition is forgotten: while it stands, the change that made it wrong is
\* still to be delivered, or a reconcile is due or under way.  Errors, late patches
\* and lists after a broken watch included.
StaleIsNoticed ==
  synced /\ obj.exists /\ ~Current =>
    watch # <<>> \/ pending # "none" \/ rec # None

\* Once edits and faults cease the condition becomes right and stays so, also after a
\* restart with other allowed paths, a late patch, or a patch that met another
\* resource of the same name.
Converges == <>[](obj.exists => Current)

\* A complete cache is reported by /readyz, whoever the store wakes.
BecomesReady == synced ~> (poll = "ready" \/ ~synced)
=============================================================================
