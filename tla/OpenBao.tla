------------------------------- MODULE OpenBao -------------------------------
(***************************************************************************)
(* The OpenBao client (targets/openbao.rs): concurrent calls of write()    *)
(* share one cached token behind a tokio Mutex, which is held while a new  *)
(* token is fetched.  A write is a PATCH, on 404 a POST, and on the first  *)
(* 403 a new login.                                                        *)
(*                                                                         *)
(* OpenBao itself is external and modelled from how the client uses it:    *)
(* logins issue tokens with a lease, tokens can be revoked, PATCH needs    *)
(* the secret to exist and merges, POST replaces it.  Time advances in     *)
(* ticks; a request is given up after TIMEOUT of them, so TIMEOUT is 1 and *)
(* TOKEN_MARGIN is 3 for the 10 s and 30 s of the code.                    *)
(***************************************************************************)
EXTENDS Integers, Sequences, FiniteSets

CONSTANTS Writers,        \* calls of write(); each is made once
          Paths, Keys,    \* <mount>/data/<path>, and keys inside a secret
          LEASE,          \* lease_duration of a login, 0 for none
          TIMEOUT, TOKEN_MARGIN,
          MaxTime,        \* bound: the clock stops there
          MaxRevoked,     \* bound: tokens that are revoked
          OthersWrite,    \* bound: FALSE if nobody else uses the store
          None, Other     \* no value, somebody else's value

ASSUME TimesAssumption ==
  LEASE \in Nat /\ TIMEOUT \in Nat /\ TOKEN_MARGIN \in Nat /\ MaxTime \in Nat
ASSUME BoundsAssumption == MaxRevoked \in Nat /\ OthersWrite \in BOOLEAN
ASSUME ValuesAssumption ==
  None \notin Writers \cup Nat /\ None \notin Paths \cup Keys /\ Other \notin Writers

VARIABLES auth,     \* how the client gets tokens, fixed when it starts
          call,     \* per writer: where its write() is
          cached,   \* the token in the Mutex, with the expiry the client computed
          lock,     \* who holds the Mutex across an await
          tokens,   \* OpenBao: the tokens issued so far
          secret,   \* OpenBao: per path, None or the value under each key
          clock

vars == <<auth, call, cached, lock, tokens, secret, clock>>

Secret == [Keys -> Writers \cup {None, Other}]
\* "There is no secret" is not a secret.
ASSUME SecretsAssumption == None \notin Secret

Token == [at : Nat, revoked : BOOLEAN]
CachedToken == [tok : Nat, expires : Nat \cup {None}]

Running == {"token", "login", "request", "invalidate"}
Waiting == {"login", "request"}

\* late: the request was given up unanswered.  refused (retried_login): None, or
\* how many tokens there were when the first 403 arrived.  landed and missing are
\* history variables: the value was stored; the secret was missing at some moment
\* since the write began.
Call == [pc : Running \cup {"idle", "ok", "failed", "cut"},
         path : Paths \cup {None}, key : Keys \cup {None},
         method : {"PATCH", "POST"}, tok : Nat, sent : Nat,
         answer : {"none", "ok", "missing", "forbidden", "error"},
         refused : Nat \cup {None}, late : BOOLEAN, landed : BOOLEAN,
         missing : BOOLEAN]

BaoTypeOK == /\ auth \in {"Kubernetes", "TokenFile"}
             /\ call \in [Writers -> Call]
             /\ cached \in CachedToken \cup {None}
             /\ lock \in Writers \cup {None}
             /\ tokens \in Seq(Token)
             /\ secret \in [Paths -> Secret \cup {None}]
             /\ clock \in Nat

IdleCall == [pc |-> "idle", path |-> None, key |-> None, method |-> "PATCH", tok |-> 0,
             sent |-> 0, answer |-> "none", refused |-> None, late |-> FALSE,
             landed |-> FALSE, missing |-> FALSE]

FreshToken == [at |-> clock, revoked |-> FALSE]

\* A token file holds the newest token.
Init == /\ auth \in {"Kubernetes", "TokenFile"}
        /\ call = [w \in Writers |-> IdleCall]
        /\ cached = None
        /\ lock = None
        /\ clock = 0
        /\ tokens = IF auth = "Kubernetes" THEN <<>> ELSE <<FreshToken>>
        /\ secret = [p \in Paths |-> None]

\* The future ends; a request that was not yet executed may still be.
Ended(c, pc) ==
  LET late == c.pc = "request" /\ c.answer = "none"
  IN  [pc |-> pc, path |-> c.path, key |-> c.key,
       method |-> IF late THEN c.method ELSE "PATCH",
       tok |-> IF late THEN c.tok ELSE 0, sent |-> 0, answer |-> "none",
       refused |-> None, late |-> late, landed |-> c.landed, missing |-> c.missing]

-----------------------------------------------------------------------------
(***************************************************************************)
(* token(): the cached token, or a new one.                                *)
(***************************************************************************)
Sending(c, n) == [c EXCEPT !.pc = "request", !.tok = n, !.sent = clock,
                           !.answer = "none"]

\* Faulty variant: a token is used to its end.
UsableToTheEnd == cached # None /\ (cached.expires # None => clock < cached.expires)

Usable == cached # None /\
          (cached.expires # None => clock + TOKEN_MARGIN < cached.expires)

UseCached(w) ==
  /\ call[w].pc = "token" /\ lock = None /\ Usable
  /\ call' = [call EXCEPT ![w] = Sending(@, cached.tok)]
  /\ UNCHANGED <<auth, cached, lock, tokens, secret, clock>>

\* Faulty variant: the Mutex is not held during the login.
LoginUnlocked(w) ==
  /\ call[w].pc = "token" /\ lock = None /\ ~Usable /\ auth = "Kubernetes"
  /\ call' = [call EXCEPT ![w].pc = "login", ![w].sent = clock, ![w].answer = "none"]
  /\ UNCHANGED <<auth, cached, lock, tokens, secret, clock>>

Login(w) ==
  /\ call[w].pc = "token" /\ lock = None /\ ~Usable /\ auth = "Kubernetes"
  /\ lock' = w
  /\ call' = [call EXCEPT ![w].pc = "login", ![w].sent = clock, ![w].answer = "none"]
  /\ UNCHANGED <<auth, cached, tokens, secret, clock>>

\* OpenBao answers the login; a token it issues to nobody plays no part.
ServeLogin(w) ==
  /\ call[w].pc = "login" /\ call[w].answer = "none"
  /\ \/ /\ tokens' = Append(tokens, FreshToken)
        /\ call' = [call EXCEPT ![w].answer = "ok", ![w].tok = Len(tokens) + 1]
     \/ /\ call' = [call EXCEPT ![w].answer = "error"]
        /\ UNCHANGED tokens
  /\ UNCHANGED <<auth, cached, lock, secret, clock>>

\* The lease counts from the moment the client has the answer.
LoginOk(w) ==
  /\ call[w].pc = "login" /\ call[w].answer = "ok"
  /\ cached' = [tok |-> call[w].tok,
                expires |-> IF LEASE > 0 THEN clock + LEASE ELSE None]
  /\ lock' = None
  /\ call' = [call EXCEPT ![w] = Sending(@, @.tok)]
  /\ UNCHANGED <<auth, tokens, secret, clock>>

\* The store refuses the login.
LoginFailed(w) ==
  /\ call[w].pc = "login" /\ call[w].answer = "error"
  /\ lock' = None
  /\ call' = [call EXCEPT ![w] = Ended(@, "failed")]
  /\ UNCHANGED <<auth, cached, tokens, secret, clock>>

\* Auth::TokenFile: the file is read when nothing is cached.
ReadTokenFile(w) ==
  /\ call[w].pc = "token" /\ lock = None /\ ~Usable /\ auth = "TokenFile"
  /\ cached' = [tok |-> Len(tokens), expires |-> None]
  /\ call' = [call EXCEPT ![w] = Sending(@, Len(tokens))]
  /\ UNCHANGED <<auth, lock, tokens, secret, clock>>

\* The token file, or the service account's token, cannot be read.
ReadFailed(w) ==
  /\ call[w].pc = "token" /\ lock = None /\ ~Usable
  /\ call' = [call EXCEPT ![w] = Ended(@, "failed")]
  /\ UNCHANGED <<auth, cached, lock, tokens, secret, clock>>

Invalidate(w) ==
  /\ call[w].pc = "invalidate" /\ lock = None
  /\ cached' = None
  /\ call' = [call EXCEPT ![w].pc = "token"]
  /\ UNCHANGED <<auth, lock, tokens, secret, clock>>

-----------------------------------------------------------------------------
(***************************************************************************)
(* write_key()                                                             *)
(***************************************************************************)
Write(w, p, k) ==
  /\ call[w].pc = "idle"
  /\ call' = [call EXCEPT ![w] = [@ EXCEPT !.pc = "token", !.path = p, !.key = k,
                                           !.missing = (secret[p] = None)]]
  /\ UNCHANGED <<auth, cached, lock, tokens, secret, clock>>

\* Leases are those of logins; the token in a file has none.
Leased == auth = "Kubernetes" /\ LEASE > 0

Live(n) == ~tokens[n].revoked /\ (Leased => clock < tokens[n].at + LEASE)

\* PATCH merges, POST replaces.
Stored(c, w) ==
  [secret EXCEPT ![c.path] =
     IF c.method = "PATCH" THEN [@ EXCEPT ![c.key] = w]
                           ELSE [k \in Keys |-> IF k = c.key THEN w ELSE None]]

Fits(c) == c.method = "POST" \/ secret[c.path] # None

\* OpenBao executes the request.
ServeOk(w) ==
  /\ call[w].pc = "request" /\ call[w].answer = "none"
  /\ Live(call[w].tok) /\ Fits(call[w])
  /\ secret' = Stored(call[w], w)
  /\ call' = [call EXCEPT ![w].answer = "ok", ![w].landed = TRUE]
  /\ UNCHANGED <<auth, cached, lock, tokens, clock>>

\* OpenBao refuses the request: 404, 403 by token or by policy, anything else.
ServeRefused(w) ==
  /\ call[w].pc = "request" /\ call[w].answer = "none"
  /\ \E a \in {"missing", "forbidden", "error"} :
       /\ a = "missing" => Live(call[w].tok) /\ ~Fits(call[w])
       /\ call' = [call EXCEPT ![w].answer = a]
  /\ UNCHANGED <<auth, cached, lock, tokens, secret, clock>>

Answered(w, a) == call[w].pc = "request" /\ call[w].answer = a

AnsweredOk(w) ==
  /\ Answered(w, "ok")
  /\ call' = [call EXCEPT ![w] = Ended(@, "ok")]
  /\ UNCHANGED <<auth, cached, lock, tokens, secret, clock>>

\* Faulty variant: the secret is created with a method of its own.
AnsweredMissingPut(w) ==
  /\ Answered(w, "missing")
  /\ call' = [call EXCEPT ![w].pc = "token", ![w].method = "PUT"]
  /\ UNCHANGED <<auth, cached, lock, tokens, secret, clock>>

\* 404 to the PATCH: create the secret.
AnsweredMissing(w) ==
  /\ Answered(w, "missing")
  /\ call' = [call EXCEPT ![w].pc = "token", ![w].method = "POST"]
  /\ UNCHANGED <<auth, cached, lock, tokens, secret, clock>>

\* The first 403 to the PATCH: log in once more.
AnsweredForbidden(w) ==
  /\ Answered(w, "forbidden")
  /\ call' = IF call[w].method = "PATCH" /\ auth = "Kubernetes" /\ call[w].refused = None
             THEN [call EXCEPT ![w].pc = "invalidate", ![w].refused = Len(tokens)]
             ELSE [call EXCEPT ![w] = Ended(@, "failed")]
  /\ UNCHANGED <<auth, cached, lock, tokens, secret, clock>>

\* Faulty variant: every error is taken for a missing secret.
AnsweredErrorCreate(w) ==
  /\ Answered(w, "error")
  /\ call' = [call EXCEPT ![w].pc = "token", ![w].method = "POST"]
  /\ UNCHANGED <<auth, cached, lock, tokens, secret, clock>>

AnsweredError(w) ==
  /\ Answered(w, "error")
  /\ call' = [call EXCEPT ![w] = Ended(@, "failed")]
  /\ UNCHANGED <<auth, cached, lock, tokens, secret, clock>>

\* Faulty variant: a request that is not answered is sent again.
TimedOutAgain(w) ==
  /\ call[w].pc \in Waiting
  /\ call' = [call EXCEPT ![w].pc = "token",
                          ![w].late = (call[w].pc = "request" /\ call[w].answer = "none")]
  /\ lock' = IF lock = w THEN None ELSE lock
  /\ UNCHANGED <<auth, cached, tokens, secret, clock>>

\* No answer within TIMEOUT, or the connection breaks.
TimedOut(w) ==
  /\ call[w].pc \in Waiting
  /\ call' = [call EXCEPT ![w] = Ended(@, "failed")]
  /\ lock' = IF lock = w THEN None ELSE lock
  /\ UNCHANGED <<auth, cached, tokens, secret, clock>>

LandLate(w) ==
  /\ call[w].late
  /\ Live(call[w].tok) /\ Fits(call[w])
  /\ secret' = Stored(call[w], w)
  /\ call' = [call EXCEPT ![w].late = FALSE, ![w].landed = TRUE]
  /\ UNCHANGED <<auth, cached, lock, tokens, clock>>

\* The future is dropped; a MutexGuard in it is released.
Disconnect(w) ==
  /\ call[w].pc \in Running
  /\ call' = [call EXCEPT ![w] = Ended(@, "cut")]
  /\ lock' = IF lock = w THEN None ELSE lock
  /\ UNCHANGED <<auth, cached, tokens, secret, clock>>

Restart ==
  /\ cached' = None /\ lock' = None
  /\ call' = [w \in Writers |-> IF call[w].pc \in Running
                                THEN Ended(call[w], "cut") ELSE call[w]]
  /\ UNCHANGED <<auth, tokens, secret, clock>>

-----------------------------------------------------------------------------
(***************************************************************************)
(* OpenBao's other users, and time.                                        *)
(***************************************************************************)
Revoke(n) ==
  /\ n \in 1..Len(tokens) /\ ~tokens[n].revoked
  /\ Cardinality({i \in 1..Len(tokens) : tokens[i].revoked}) < MaxRevoked
  /\ tokens' = [tokens EXCEPT ![n].revoked = TRUE]
  /\ UNCHANGED <<auth, call, cached, lock, secret, clock>>

CreateSecret(p, k) ==
  /\ OthersWrite /\ secret[p] = None
  /\ secret' = [secret EXCEPT ![p] = [j \in Keys |-> IF j = k THEN Other ELSE None]]
  /\ UNCHANGED <<auth, call, cached, lock, tokens, clock>>

DestroySecret(p) ==
  /\ OthersWrite /\ secret[p] # None
  /\ secret' = [secret EXCEPT ![p] = None]
  /\ call' = [w \in Writers |-> IF call[w].path = p
                                THEN [call[w] EXCEPT !.missing = TRUE] ELSE call[w]]
  /\ UNCHANGED <<auth, cached, lock, tokens, clock>>

\* No request outlives its timeout.
Tick ==
  /\ clock < MaxTime
  /\ \A w \in Writers : call[w].pc \in Waiting => clock < call[w].sent + TIMEOUT
  /\ clock' = clock + 1
  /\ UNCHANGED <<auth, call, cached, lock, tokens, secret>>

-----------------------------------------------------------------------------
\* One step of a running write().
Step(w) ==
  \/ UseCached(w) \/ Login(w) \/ LoginOk(w) \/ LoginFailed(w)
  \/ ReadTokenFile(w) \/ ReadFailed(w) \/ Invalidate(w)
  \/ AnsweredOk(w) \/ AnsweredMissing(w) \/ AnsweredForbidden(w)
  \/ AnsweredError(w) \/ TimedOut(w)

Next ==
  \/ \E w \in Writers : \/ \E p \in Paths, k \in Keys : Write(w, p, k)
                        \/ Step(w)
                        \/ ServeLogin(w) \/ ServeOk(w) \/ ServeRefused(w)
                        \/ LandLate(w) \/ Disconnect(w)
  \/ \E n \in 1..Len(tokens) : Revoke(n)
  \/ \E p \in Paths : DestroySecret(p) \/ \E k \in Keys : CreateSecret(p, k)
  \/ Restart \/ Tick

Spec == Init /\ [][Next]_vars

\* Futures are polled and the Mutex is fair.
FairSpec == Spec /\ \A w \in Writers : WF_vars(Step(w))

-----------------------------------------------------------------------------
(***************************************************************************)
(* Properties.                                                             *)
(***************************************************************************)

\* A write that retries after a 403 does so with a token issued after that 403,
\* whatever logins and invalidations of other writes happen in between: a
\* second 403 is never the old token's (openbao.rs: "The cached token may have
\* been revoked or expired early").
RetryIsFresh ==
  \A w \in Writers :
    call[w].pc = "request" /\ call[w].refused # None => call[w].tok > call[w].refused

\* The margin is enough: no request that OpenBao executes in time carries a token
\* whose lease has run out, although the client computes the expiry from the moment
\* it has the answer and not from the moment the token was issued.
LeaseHolds ==
  \A w \in Writers :
    call[w].pc = "request" /\ call[w].answer = "none" /\ Leased
      => clock < tokens[call[w].tok].at + LEASE

\* Only a write that found its secret missing ever takes another key away: where
\* the secret existed from the beginning of the write, its other keys are kept.
KeptWhereItExists ==
  [][\A w \in Writers : ~call[w].landed /\ call'[w].landed /\ ~call[w].missing =>
       \A k \in Keys \ {call[w].key} :
         secret'[call[w].path][k] = secret[call[w].path][k]]_vars

\* Every write ends, with an answer or without.
WriteEnds ==
  \A w \in Writers : call[w].pc \in Running ~> call[w].pc \in {"ok", "failed", "cut"}

AbstractCall(c) ==
  [phase |-> CASE c.pc = "idle" -> "idle"
               [] c.pc \in Running -> "open"
               [] c.pc = "ok" -> "ok"
               [] c.pc \in {"failed", "cut"} -> "failed",
   path |-> c.path, key |-> c.key, landed |-> c.landed]

Promise == INSTANCE TargetWrite WITH call <- [w \in Writers |-> AbstractCall(call[w])]

\* The client keeps the promise of TargetWriter::write, on which Rotation relies.
PromiseSpec == Promise!Spec
=============================================================================
