---------------------------- MODULE OpenBaoProofs ----------------------------
(***************************************************************************)
(* Proofs about the OpenBao client, for any number of writes, paths, keys, *)
(* any lease and any timeout.                                              *)
(*                                                                         *)
(* RetryIsFresh is not inductive: the retry takes whatever token is cached *)
(* by then.  What makes that token new is the Mutex.  It is held during a  *)
(* login, so when a write discards the cached token no login is under way, *)
(* and every login that follows gets a token issued after the refusal.     *)
(*                                                                         *)
(* What a write may have done rests on what it knows of the secret while   *)
(* it is on its way (WriteInv): a step of the client is then a step of the *)
(* promise, or none.  That a token outlives its request rests on when each *)
(* step of a write began and ends at the latest (TimeInv).                 *)
(***************************************************************************)
EXTENDS OpenBao, SequenceTheorems, TLAPS

\* A write knows its target; it waits for a login exactly if it has the Mutex;
\* only a client that can log in is retrying, after a refusal of the past.
CallInv(w) ==
  /\ call[w].pc = "idle" => call[w].refused = None /\ ~call[w].late
  /\ call[w].pc # "idle" => call[w].path \in Paths /\ call[w].key \in Keys
  /\ call[w].pc = "login" <=> lock = w
  /\ call[w].refused # None => auth = "Kubernetes" /\ call[w].refused <= Len(tokens)

\* Every token that is cached, or about to be, was issued after the first n.
FreshFrom(n) ==
  /\ cached # None => cached.tok > n
  /\ \A v \in Writers :
       call[v].pc = "login" /\ call[v].answer = "ok" => call[v].tok > n

\* From the moment it has discarded the refused token, a retrying write can only
\* get a fresh one.
RetryInv(w) ==
  call[w].refused # None =>
    /\ call[w].pc \in {"token", "login", "request"} => FreshFrom(call[w].refused)
    /\ call[w].pc = "request" => call[w].tok > call[w].refused

BaoInv == /\ BaoTypeOK
          /\ \A w \in Writers : CallInv(w)
          /\ \A w \in Writers : RetryInv(w)

\* The invariant gives the property the runs check.
LEMMA BaoInvImplies == BaoInv => BaoTypeOK /\ RetryIsFresh
BY DEF BaoInv, RetryInv, RetryIsFresh

\* The record of a write that has not begun is well typed.
LEMMA IdleCallType == IdleCall \in Call
BY DEF IdleCall, Call, Running

\* The invariant holds initially.
LEMMA BaoInitInv == ASSUME Init PROVE BaoInv
<1>1. \A w \in Writers : call[w] = IdleCall
  BY DEF Init
<1>2. FreshToken \in Token
  BY DEF Init, FreshToken, Token
<1>3. tokens \in Seq(Token) /\ Len(tokens) \in Nat
  BY <1>2 DEF Init
<1>4. BaoTypeOK
  BY <1>3, IdleCallType DEF Init, BaoTypeOK
<1>5. ASSUME NEW w \in Writers PROVE CallInv(w) /\ RetryInv(w)
  <2>1. /\ call[w].pc = "idle" /\ call[w].refused = None /\ ~call[w].late
        /\ lock # w
    BY <1>1, ValuesAssumption DEF IdleCall, Init
  <2> QED
    BY <2>1 DEF CallInv, RetryInv
<1> QED
  BY <1>4, <1>5 DEF BaoInv

-----------------------------------------------------------------------------
\* The end of a write keeps the record's type and forgets the refusal.
LEMMA EndedType ==
  ASSUME NEW c \in Call, NEW pc \in {"ok", "failed", "cut"}
  PROVE  /\ Ended(c, pc) \in Call
         /\ Ended(c, pc).pc = pc /\ Ended(c, pc).refused = None
         /\ Ended(c, pc).path = c.path /\ Ended(c, pc).key = c.key
         /\ Ended(c, pc).answer = "none"
<1> DEFINE late == c.pc = "request" /\ c.answer = "none"
<1>1. Ended(c, pc) =
        [pc |-> pc, path |-> c.path, key |-> c.key,
         method |-> IF late THEN c.method ELSE "PATCH",
         tok |-> IF late THEN c.tok ELSE 0, sent |-> 0, answer |-> "none",
         refused |-> None, late |-> late, landed |-> c.landed, missing |-> c.missing]
  BY DEF Ended
<1>2. /\ c.path \in Paths \cup {None} /\ c.key \in Keys \cup {None}
      /\ (IF late THEN c.method ELSE "PATCH") \in {"PATCH", "POST"}
      /\ (IF late THEN c.tok ELSE 0) \in Nat
      /\ late \in BOOLEAN /\ c.landed \in BOOLEAN /\ c.missing \in BOOLEAN
  BY DEF Call
<1> HIDE DEF late
<1>3. Ended(c, pc) \in Call
  BY <1>1, <1>2 DEF Call, Running
<1> QED
  BY <1>1, <1>3

\* What a step of one write must see to for the invariant: the others are not
\* disturbed as long as the Mutex, the cached token and the logins that have
\* been answered stay as they are.
LEMMA LocalStep ==
  ASSUME BaoInv, NEW w \in Writers, NEW c \in Call,
         call' = [call EXCEPT ![w] = c],
         UNCHANGED <<auth, cached, tokens, clock>>,
         secret' \in [Paths -> Secret \cup {None}],
         lock' \in Writers \cup {None},
         \A v \in Writers \ {w} : lock' = v <=> lock = v,
         c.pc = "login" <=> lock' = w,
         c.pc # "idle", c.path \in Paths, c.key \in Keys,
         c.pc = "login" => c.answer # "ok",
         c.refused # None =>
           /\ auth = "Kubernetes" /\ c.refused <= Len(tokens)
           /\ c.pc \in {"token", "login", "request"} => FreshFrom(c.refused)
           /\ c.pc = "request" => c.tok > c.refused
  PROVE  BaoInv'
<1>1. /\ call \in [Writers -> Call] /\ call' \in [Writers -> Call]
      /\ call'[w] = c
      /\ \A v \in Writers \ {w} : call'[v] = call[v]
  BY DEF BaoInv, BaoTypeOK
<1>2. BaoTypeOK'
  BY <1>1 DEF BaoInv, BaoTypeOK
<1>3. ASSUME NEW n, FreshFrom(n) PROVE FreshFrom(n)'
  BY <1>1, <1>3 DEF FreshFrom
<1>4. ASSUME NEW v \in Writers PROVE CallInv(v)' /\ RetryInv(v)'
  <2>1. CASE v = w
    BY <1>1, <1>3, <2>1 DEF CallInv, RetryInv
  <2>2. CASE v # w
    <3>1. call'[v] = call[v] /\ CallInv(v) /\ RetryInv(v)
      BY <1>1, <2>2 DEF BaoInv
    <3>2. lock' = v <=> lock = v
      BY <2>2
    <3>3. CallInv(v)'
      BY <3>1, <3>2 DEF CallInv
    <3>4. RetryInv(v)'
      BY <3>1, <1>3 DEF RetryInv
    <3> QED
      BY <3>3, <3>4
  <2> QED
    BY <2>1, <2>2
<1> QED
  BY <1>2, <1>4 DEF BaoInv

-----------------------------------------------------------------------------
\* A write that ends, for whatever reason, and gives the Mutex back.
LEMMA EndKeepsInv ==
  ASSUME BaoInv, NEW w \in Writers, NEW pc \in {"ok", "failed", "cut"},
         call[w].pc # "idle",
         call' = [call EXCEPT ![w] = Ended(@, pc)],
         lock' = IF lock = w THEN None ELSE lock,
         UNCHANGED <<auth, cached, tokens, secret, clock>>
  PROVE  BaoInv'
<1> DEFINE c == Ended(call[w], pc)
<1>1. call[w] \in Call /\ CallInv(w)
  BY DEF BaoInv, BaoTypeOK
<1>2. /\ c \in Call /\ c.pc = pc /\ c.refused = None
      /\ c.path = call[w].path /\ c.key = call[w].key
  BY <1>1, EndedType
<1>3. call' = [call EXCEPT ![w] = c]
  OBVIOUS
<1>4. c.path \in Paths /\ c.key \in Keys
  BY <1>1, <1>2 DEF CallInv
<1>5. /\ secret' \in [Paths -> Secret \cup {None}]
      /\ lock' \in Writers \cup {None} /\ lock' # w
      /\ \A v \in Writers \ {w} : lock' = v <=> lock = v
  BY ValuesAssumption DEF BaoInv, BaoTypeOK
<1> HIDE DEF c
<1> QED
  BY <1>2, <1>3, <1>4, <1>5, LocalStep

\* A write that is given the token n to send its request with.
LEMMA SendingType ==
  ASSUME NEW c \in Call, NEW n \in Nat, clock \in Nat
  PROVE  /\ Sending(c, n) \in Call
         /\ Sending(c, n).pc = "request" /\ Sending(c, n).tok = n
         /\ Sending(c, n).answer = "none" /\ Sending(c, n).refused = c.refused
         /\ Sending(c, n).path = c.path /\ Sending(c, n).key = c.key
         /\ Sending(c, n).late = c.late
BY DEF Sending, Call, Running

\* The steps of one write that leave the Mutex and the cached token alone.
LEMMA UseCachedKeepsInv ==
  ASSUME BaoInv, NEW w \in Writers, UseCached(w)
  PROVE  BaoInv'
<1> DEFINE c == Sending(call[w], cached.tok)
<1>1. /\ call[w] \in Call /\ CallInv(w) /\ RetryInv(w) /\ clock \in Nat
      /\ secret \in [Paths -> Secret \cup {None}]
      /\ call[w].pc = "token" /\ lock = None /\ cached # None
  BY DEF BaoInv, BaoTypeOK, UseCached, Usable
<1>2. cached.tok \in Nat
  BY <1>1 DEF BaoInv, BaoTypeOK, CachedToken
<1>3. /\ c \in Call /\ c.pc = "request" /\ c.tok = cached.tok
      /\ c.refused = call[w].refused /\ c.path = call[w].path /\ c.key = call[w].key
  BY <1>1, <1>2, SendingType
<1>4. /\ call' = [call EXCEPT ![w] = c]
      /\ UNCHANGED <<auth, cached, lock, tokens, secret, clock>>
  BY DEF UseCached
<1>5. c.path \in Paths /\ c.key \in Keys /\ lock # w
  BY <1>1, <1>3 DEF CallInv
<1>6. c.refused # None => /\ auth = "Kubernetes" /\ c.refused <= Len(tokens)
                          /\ FreshFrom(c.refused) /\ c.tok > c.refused
  BY <1>1, <1>3 DEF CallInv, RetryInv, FreshFrom
<1> HIDE DEF c
<1> QED
  BY <1>1, <1>3, <1>4, <1>5, <1>6, LocalStep

LEMMA LoginKeepsInv ==
  ASSUME BaoInv, NEW w \in Writers, Login(w)
  PROVE  BaoInv'
<1> DEFINE c == [call[w] EXCEPT !.pc = "login", !.sent = clock, !.answer = "none"]
<1>1. /\ call[w] \in Call /\ CallInv(w) /\ RetryInv(w) /\ clock \in Nat
      /\ secret \in [Paths -> Secret \cup {None}]
      /\ call[w].pc = "token" /\ lock = None
  BY DEF BaoInv, BaoTypeOK, Login
<1>2. /\ c \in Call /\ c.pc = "login" /\ c.answer = "none"
      /\ c.refused = call[w].refused /\ c.path = call[w].path /\ c.key = call[w].key
  BY <1>1 DEF Call, Running
<1>3. /\ call' = [call EXCEPT ![w] = c] /\ lock' = w
      /\ UNCHANGED <<auth, cached, tokens, secret, clock>>
  BY DEF Login
<1>4. c.path \in Paths /\ c.key \in Keys
  BY <1>1, <1>2 DEF CallInv
<1>5. c.refused # None => /\ auth = "Kubernetes" /\ c.refused <= Len(tokens)
                          /\ FreshFrom(c.refused)
  BY <1>1, <1>2 DEF CallInv, RetryInv
<1>6. \A v \in Writers \ {w} : lock' = v <=> lock = v
  BY <1>1, <1>3, ValuesAssumption
<1> HIDE DEF c
<1> QED
  BY <1>1, <1>2, <1>3, <1>4, <1>5, <1>6, LocalStep

\* A new token has a number that no refusal has seen.
LEMMA ServeLoginKeepsInv ==
  ASSUME BaoInv, NEW w \in Writers, ServeLogin(w)
  PROVE  BaoInv'
<1>1. /\ call \in [Writers -> Call] /\ call[w] \in Call /\ tokens \in Seq(Token)
      /\ clock \in Nat /\ secret \in [Paths -> Secret \cup {None}]
      /\ call[w].pc = "login" /\ call[w].answer = "none"
      /\ CallInv(w) /\ RetryInv(w)
      /\ UNCHANGED <<auth, cached, lock, secret, clock>>
  BY DEF BaoInv, BaoTypeOK, ServeLogin
<1>2. CASE /\ tokens' = Append(tokens, FreshToken)
           /\ call' = [call EXCEPT ![w].answer = "ok", ![w].tok = Len(tokens) + 1]
  <2> DEFINE c == [call[w] EXCEPT !.answer = "ok", !.tok = Len(tokens) + 1]
  <2>1. Len(tokens) \in Nat /\ Len(tokens) + 1 \in Nat /\ FreshToken \in Token
    BY <1>1 DEF FreshToken, Token
  <2>2. tokens' \in Seq(Token) /\ Len(tokens') = Len(tokens) + 1
    BY <1>1, <1>2, <2>1
  <2>3. c \in Call
    BY <1>1, <2>1 DEF Call
  <2>4. /\ call' = [call EXCEPT ![w] = c] /\ call' \in [Writers -> Call]
        /\ call'[w] = c /\ \A v \in Writers \ {w} : call'[v] = call[v]
    BY <1>1, <1>2, <2>3
  <2>5. /\ c.tok = Len(tokens) + 1 /\ c.pc = "login" /\ c.path = call[w].path
        /\ c.key = call[w].key /\ c.refused = call[w].refused
    BY <1>1 DEF Call
  <2> HIDE DEF c
  <2>6. BaoTypeOK'
    BY <1>1, <2>2, <2>4 DEF BaoInv, BaoTypeOK
  <2>7. ASSUME NEW v \in Writers PROVE CallInv(v)'
    <3>1. CallInv(v) /\ call[v] \in Call
      BY <1>1 DEF BaoInv
    <3>2. call[v].refused # None => call[v].refused \in Nat
      BY <3>1 DEF Call
    <3>3. /\ call'[v].pc = call[v].pc /\ call'[v].refused = call[v].refused
          /\ call'[v].path = call[v].path /\ call'[v].key = call[v].key
          /\ (call'[v].pc = "idle" => call'[v].late = call[v].late)
      BY <1>1, <2>4, <2>5
    <3> QED
      BY <1>1, <2>1, <2>2, <3>1, <3>2, <3>3 DEF CallInv
  <2>8. ASSUME NEW v \in Writers PROVE RetryInv(v)'
    <3>1. CallInv(v) /\ RetryInv(v) /\ call[v] \in Call
      BY <1>1 DEF BaoInv
    <3>2. /\ call'[v].pc = call[v].pc /\ call'[v].refused = call[v].refused
          /\ (call'[v].pc = "request" => call'[v].tok = call[v].tok)
      BY <1>1, <2>4, <2>5
    <3>3. call[v].refused # None => Len(tokens) + 1 > call[v].refused
      <4>1. call[v].refused # None => call[v].refused \in Nat
        BY <3>1 DEF Call
      <4> QED
        BY <2>1, <3>1, <4>1 DEF CallInv
    <3>4. ASSUME call[v].refused # None, FreshFrom(call[v].refused)
          PROVE  FreshFrom(call[v].refused)'
      BY <1>1, <2>4, <2>5, <3>2, <3>3, <3>4 DEF FreshFrom
    <3> QED
      BY <3>1, <3>2, <3>4 DEF RetryInv
  <2> QED
    BY <2>6, <2>7, <2>8 DEF BaoInv
<1>3. CASE call' = [call EXCEPT ![w].answer = "error"] /\ UNCHANGED tokens
  <2> DEFINE c == [call[w] EXCEPT !.answer = "error"]
  <2>1. /\ c \in Call /\ c.answer = "error" /\ c.pc = call[w].pc
        /\ c.refused = call[w].refused /\ c.path = call[w].path
        /\ c.key = call[w].key
    BY <1>1 DEF Call
  <2>2. call' = [call EXCEPT ![w] = c]
    BY <1>3
  <2>3. c.path \in Paths /\ c.key \in Keys /\ lock = w /\ lock \in Writers \cup {None}
    BY <1>1, <2>1 DEF CallInv
  <2>4. c.refused # None => /\ auth = "Kubernetes" /\ c.refused <= Len(tokens)
                            /\ FreshFrom(c.refused)
    BY <1>1, <2>1 DEF CallInv, RetryInv
  <2> HIDE DEF c
  <2> QED
    BY <1>1, <1>3, <2>1, <2>2, <2>3, <2>4, LocalStep
<1> QED
  BY <1>2, <1>3 DEF ServeLogin

\* The holder of the Mutex caches its token and releases the Mutex.
LEMMA LoginOkKeepsInv ==
  ASSUME BaoInv, NEW w \in Writers, LoginOk(w)
  PROVE  BaoInv'
<1> DEFINE c == Sending(call[w], call[w].tok)
<1>1. /\ call \in [Writers -> Call] /\ call[w] \in Call /\ CallInv(w) /\ RetryInv(w)
      /\ clock \in Nat /\ call[w].pc = "login" /\ call[w].answer = "ok"
      /\ UNCHANGED <<auth, tokens, secret, clock>>
  BY DEF BaoInv, BaoTypeOK, LoginOk
<1>2. call[w].tok \in Nat
  BY <1>1 DEF Call
<1>3. /\ c \in Call /\ c.pc = "request" /\ c.tok = call[w].tok /\ c.answer = "none"
      /\ c.refused = call[w].refused /\ c.path = call[w].path /\ c.key = call[w].key
  BY <1>1, <1>2, SendingType
<1>4. /\ call' = [call EXCEPT ![w] = c] /\ lock' = None
  BY DEF LoginOk
<1>5. cached' \in CachedToken /\ cached'.tok = call[w].tok
  <2>1. clock + LEASE \in Nat
    BY <1>1, TimesAssumption
  <2> QED
    BY <1>2, <2>1 DEF LoginOk, CachedToken
<1> HIDE DEF c
<1>6. /\ call' \in [Writers -> Call] /\ call'[w] = c
      /\ \A v \in Writers \ {w} : call'[v] = call[v]
  BY <1>1, <1>3, <1>4
<1>7. BaoTypeOK'
  BY <1>1, <1>4, <1>5, <1>6 DEF BaoInv, BaoTypeOK
<1>8. \A v \in Writers \ {w} : call[v].pc # "login"
  BY <1>1 DEF BaoInv, CallInv
<1>9. ASSUME NEW v \in Writers PROVE CallInv(v)'
  <2>1. CallInv(v)
    BY DEF BaoInv
  <2>2. lock' # v
    BY <1>4, ValuesAssumption
  <2>3. CASE v = w
    BY <1>1, <1>3, <1>6, <2>2, <2>3 DEF CallInv
  <2>4. CASE v # w
    BY <1>1, <1>6, <1>8, <2>1, <2>2, <2>4 DEF CallInv
  <2> QED
    BY <2>3, <2>4
<1>10. ASSUME NEW n, FreshFrom(n) PROVE FreshFrom(n)' /\ call[w].tok > n
  BY <1>1, <1>3, <1>5, <1>6, <1>8, <1>10 DEF FreshFrom
<1>11. ASSUME NEW v \in Writers PROVE RetryInv(v)'
  <2>1. RetryInv(v)
    BY DEF BaoInv
  <2>2. CASE v = w
    BY <1>1, <1>3, <1>6, <1>10, <2>2 DEF RetryInv
  <2>3. CASE v # w
    BY <1>6, <1>10, <2>1, <2>3 DEF RetryInv
  <2> QED
    BY <2>2, <2>3
<1> QED
  BY <1>7, <1>9, <1>11 DEF BaoInv

\* Without logins nobody retries.
LEMMA ReadTokenFileKeepsInv ==
  ASSUME BaoInv, NEW w \in Writers, ReadTokenFile(w)
  PROVE  BaoInv'
<1> DEFINE c == Sending(call[w], Len(tokens))
<1>1. /\ call \in [Writers -> Call] /\ call[w] \in Call /\ tokens \in Seq(Token)
      /\ clock \in Nat /\ call[w].pc = "token" /\ auth = "TokenFile" /\ lock = None
      /\ UNCHANGED <<auth, lock, tokens, secret, clock>>
  BY DEF BaoInv, BaoTypeOK, ReadTokenFile
<1>2. Len(tokens) \in Nat
  BY <1>1
<1>3. /\ c \in Call /\ c.pc = "request" /\ c.refused = call[w].refused
      /\ c.path = call[w].path /\ c.key = call[w].key
  BY <1>1, <1>2, SendingType
<1>4. call' = [call EXCEPT ![w] = c] /\ cached' \in CachedToken
  BY <1>2 DEF ReadTokenFile, CachedToken
<1> HIDE DEF c
<1>5. /\ call' \in [Writers -> Call] /\ call'[w] = c
      /\ \A v \in Writers \ {w} : call'[v] = call[v]
  BY <1>1, <1>3, <1>4
<1>6. BaoTypeOK'
  BY <1>1, <1>4, <1>5 DEF BaoInv, BaoTypeOK
<1>7. ASSUME NEW v \in Writers PROVE CallInv(v)' /\ RetryInv(v)'
  <2>1. CallInv(v)
    BY DEF BaoInv
  <2>2. /\ call'[v].refused = call[v].refused /\ call'[v].path = call[v].path
        /\ call'[v].key = call[v].key
        /\ (call'[v].pc = "login" <=> call[v].pc = "login")
        /\ (call'[v].pc = "idle" <=> call[v].pc = "idle")
        /\ (call'[v].pc = "idle" => call'[v].late = call[v].late)
    BY <1>1, <1>3, <1>5
  <2> QED
    BY <1>1, <2>1, <2>2 DEF CallInv, RetryInv
<1> QED
  BY <1>6, <1>7 DEF BaoInv

\* Nothing is cached and no login is under way: whatever comes is fresh.
LEMMA InvalidateKeepsInv ==
  ASSUME BaoInv, NEW w \in Writers, Invalidate(w)
  PROVE  BaoInv'
<1> DEFINE c == [call[w] EXCEPT !.pc = "token"]
<1>1. /\ call \in [Writers -> Call] /\ call[w] \in Call /\ call[w].pc = "invalidate"
      /\ lock = None /\ cached' = None /\ UNCHANGED <<auth, lock, tokens, secret, clock>>
  BY DEF BaoInv, BaoTypeOK, Invalidate
<1>2. /\ c \in Call /\ c.pc = "token" /\ c.refused = call[w].refused
      /\ c.path = call[w].path /\ c.key = call[w].key
  BY <1>1 DEF Call, Running
<1>3. call' = [call EXCEPT ![w] = c]
  BY DEF Invalidate
<1> HIDE DEF c
<1>4. /\ call' \in [Writers -> Call] /\ call'[w] = c
      /\ \A v \in Writers \ {w} : call'[v] = call[v]
  BY <1>1, <1>2, <1>3
<1>5. BaoTypeOK'
  BY <1>1, <1>4 DEF BaoInv, BaoTypeOK
<1>6. \A v \in Writers : call'[v].pc # "login"
  BY <1>1, <1>2, <1>4, ValuesAssumption DEF BaoInv, CallInv
<1>7. ASSUME NEW v \in Writers PROVE CallInv(v)' /\ RetryInv(v)'
  <2>1. CallInv(v) /\ RetryInv(v) /\ lock # v
    BY <1>1, ValuesAssumption DEF BaoInv
  <2>2. /\ call'[v].refused = call[v].refused /\ call'[v].path = call[v].path
        /\ call'[v].key = call[v].key
        /\ (call'[v].pc = "idle" <=> call[v].pc = "idle")
        /\ (call'[v].pc = "idle" => call'[v].late = call[v].late)
        /\ (call'[v].pc = "request" =>
              call[v].pc = "request" /\ call'[v].tok = call[v].tok)
    BY <1>1, <1>2, <1>4
  <2>3. CallInv(v)'
    BY <1>1, <1>6, <2>1, <2>2 DEF CallInv
  <2>4. \A n : FreshFrom(n)'
    BY <1>1, <1>6 DEF FreshFrom
  <2> QED
    BY <2>1, <2>2, <2>3, <2>4 DEF RetryInv
<1> QED
  BY <1>5, <1>7 DEF BaoInv

LEMMA WriteKeepsInv ==
  ASSUME BaoInv, NEW w \in Writers, NEW p \in Paths, NEW k \in Keys, Write(w, p, k)
  PROVE  BaoInv'
<1> DEFINE c == [call[w] EXCEPT !.pc = "token", !.path = p, !.key = k,
                                !.missing = (secret[p] = None)]
<1>1. /\ call[w] \in Call /\ CallInv(w) /\ call[w].pc = "idle"
      /\ UNCHANGED <<auth, cached, lock, tokens, secret, clock>>
      /\ lock \in Writers \cup {None} /\ secret \in [Paths -> Secret \cup {None}]
  BY DEF BaoInv, BaoTypeOK, Write
<1>2. /\ c \in Call /\ c.pc = "token" /\ c.path = p /\ c.key = k
      /\ c.refused = call[w].refused
  BY <1>1 DEF Call, Running
<1>3. call' = [call EXCEPT ![w] = c]
  BY DEF Write
<1>4. c.refused = None /\ lock # w
  BY <1>1, <1>2 DEF CallInv
<1> HIDE DEF c
<1> QED
  BY <1>1, <1>2, <1>3, <1>4, LocalStep

\* What OpenBao stores is a secret.
LEMMA StoredType ==
  ASSUME NEW c \in Call, NEW w \in Writers, c.path \in Paths, c.key \in Keys,
         secret \in [Paths -> Secret \cup {None}], Fits(c)
  PROVE  Stored(c, w) \in [Paths -> Secret \cup {None}]
<1>1. CASE c.method = "PATCH"
  <2> DEFINE new == [secret[c.path] EXCEPT ![c.key] = w]
  <2>1. secret[c.path] \in Secret
    BY <1>1 DEF Fits
  <2>2. new \in Secret
    BY <2>1 DEF Secret
  <2>3. Stored(c, w) = [secret EXCEPT ![c.path] = new]
    BY <1>1 DEF Stored
  <2> HIDE DEF new
  <2> QED
    BY <2>2, <2>3
<1>2. CASE c.method # "PATCH"
  <2> DEFINE new == [k \in Keys |-> IF k = c.key THEN w ELSE None]
  <2>1. new \in Secret
    BY DEF Secret
  <2>2. Stored(c, w) = [secret EXCEPT ![c.path] = new]
    BY <1>2 DEF Stored
  <2> HIDE DEF new
  <2> QED
    BY <2>1, <2>2
<1> QED
  BY <1>1, <1>2

LEMMA ServeOkKeepsInv ==
  ASSUME BaoInv, NEW w \in Writers, ServeOk(w)
  PROVE  BaoInv'
<1> DEFINE c == [call[w] EXCEPT !.answer = "ok", !.landed = TRUE]
<1>1. /\ call[w] \in Call /\ CallInv(w) /\ RetryInv(w) /\ call[w].pc = "request"
      /\ UNCHANGED <<auth, cached, lock, tokens, clock>>
      /\ lock \in Writers \cup {None} /\ secret \in [Paths -> Secret \cup {None}]
      /\ Fits(call[w]) /\ secret' = Stored(call[w], w)
  BY DEF BaoInv, BaoTypeOK, ServeOk
<1>2. /\ c \in Call /\ c.pc = "request" /\ c.path = call[w].path
      /\ c.key = call[w].key /\ c.refused = call[w].refused /\ c.tok = call[w].tok
  BY <1>1 DEF Call
<1>3. call' = [call EXCEPT ![w] = c]
  BY DEF ServeOk
<1>4. c.path \in Paths /\ c.key \in Keys /\ lock # w
  BY <1>1, <1>2 DEF CallInv
<1>5. secret' \in [Paths -> Secret \cup {None}]
  BY <1>1, <1>2, <1>4, StoredType
<1>6. c.refused # None => /\ auth = "Kubernetes" /\ c.refused <= Len(tokens)
                          /\ FreshFrom(c.refused) /\ c.tok > c.refused
  BY <1>1, <1>2 DEF CallInv, RetryInv
<1> HIDE DEF c
<1> QED
  BY <1>1, <1>2, <1>3, <1>4, <1>5, <1>6, LocalStep

LEMMA ServeRefusedKeepsInv ==
  ASSUME BaoInv, NEW w \in Writers, ServeRefused(w)
  PROVE  BaoInv'
<1>1. PICK a \in {"missing", "forbidden", "error"} :
        call' = [call EXCEPT ![w].answer = a]
  BY DEF ServeRefused
<1> DEFINE c == [call[w] EXCEPT !.answer = a]
<1>2. /\ call[w] \in Call /\ CallInv(w) /\ RetryInv(w) /\ call[w].pc = "request"
      /\ UNCHANGED <<auth, cached, lock, tokens, secret, clock>>
      /\ lock \in Writers \cup {None} /\ secret \in [Paths -> Secret \cup {None}]
  BY DEF BaoInv, BaoTypeOK, ServeRefused
<1>3. /\ c \in Call /\ c.pc = "request" /\ c.path = call[w].path
      /\ c.key = call[w].key /\ c.refused = call[w].refused /\ c.tok = call[w].tok
  BY <1>2 DEF Call
<1>4. call' = [call EXCEPT ![w] = c]
  BY <1>1
<1>5. c.path \in Paths /\ c.key \in Keys /\ lock # w
  BY <1>2, <1>3 DEF CallInv
<1>6. c.refused # None => /\ auth = "Kubernetes" /\ c.refused <= Len(tokens)
                          /\ FreshFrom(c.refused) /\ c.tok > c.refused
  BY <1>2, <1>3 DEF CallInv, RetryInv
<1> HIDE DEF c
<1> QED
  BY <1>2, <1>3, <1>4, <1>5, <1>6, LocalStep

\* After a 404 the write goes on with a POST.
LEMMA AnsweredMissingKeepsInv ==
  ASSUME BaoInv, NEW w \in Writers, AnsweredMissing(w)
  PROVE  BaoInv'
<1> DEFINE c == [call[w] EXCEPT !.pc = "token", !.method = "POST"]
<1>1. /\ call[w] \in Call /\ CallInv(w) /\ RetryInv(w) /\ call[w].pc = "request"
      /\ UNCHANGED <<auth, cached, lock, tokens, secret, clock>>
      /\ lock \in Writers \cup {None} /\ secret \in [Paths -> Secret \cup {None}]
  BY DEF BaoInv, BaoTypeOK, AnsweredMissing, Answered
<1>2. /\ c \in Call /\ c.pc = "token" /\ c.path = call[w].path
      /\ c.key = call[w].key /\ c.refused = call[w].refused
  BY <1>1 DEF Call, Running
<1>3. call' = [call EXCEPT ![w] = c]
  BY DEF AnsweredMissing
<1>4. c.path \in Paths /\ c.key \in Keys /\ lock # w
  BY <1>1, <1>2 DEF CallInv
<1>5. c.refused # None => /\ auth = "Kubernetes" /\ c.refused <= Len(tokens)
                          /\ FreshFrom(c.refused)
  BY <1>1, <1>2 DEF CallInv, RetryInv
<1> HIDE DEF c
<1> QED
  BY <1>1, <1>2, <1>3, <1>4, <1>5, LocalStep

\* The first 403: the refusal is remembered, nothing is claimed of it yet.
LEMMA AnsweredForbiddenKeepsInv ==
  ASSUME BaoInv, NEW w \in Writers, AnsweredForbidden(w)
  PROVE  BaoInv'
<1>1. /\ call[w] \in Call /\ CallInv(w) /\ call[w].pc = "request"
      /\ UNCHANGED <<auth, cached, lock, tokens, secret, clock>> /\ tokens \in Seq(Token)
      /\ lock \in Writers \cup {None} /\ secret \in [Paths -> Secret \cup {None}]
      /\ lock # w
  BY DEF BaoInv, BaoTypeOK, AnsweredForbidden, Answered, CallInv
<1>2. CASE call[w].method = "PATCH" /\ auth = "Kubernetes" /\ call[w].refused = None
  <2> DEFINE c == [call[w] EXCEPT !.pc = "invalidate", !.refused = Len(tokens)]
  <2>1. Len(tokens) \in Nat
    BY <1>1
  <2>2. /\ c \in Call /\ c.pc = "invalidate" /\ c.path = call[w].path
        /\ c.key = call[w].key /\ c.refused = Len(tokens)
    BY <1>1, <2>1 DEF Call, Running
  <2>3. call' = [call EXCEPT ![w] = c]
    BY <1>2 DEF AnsweredForbidden
  <2>4. c.path \in Paths /\ c.key \in Keys
    BY <1>1, <2>2 DEF CallInv
  <2> HIDE DEF c
  <2>5. c.refused <= Len(tokens) /\ c.pc \notin {"token", "login", "request"}
    BY <2>1, <2>2
  <2> QED
    BY <1>1, <1>2, <2>2, <2>3, <2>4, <2>5, LocalStep
<1>3. CASE ~(call[w].method = "PATCH" /\ auth = "Kubernetes" /\ call[w].refused = None)
  <2>1. call' = [call EXCEPT ![w] = Ended(@, "failed")]
    BY <1>3 DEF AnsweredForbidden
  <2> QED
    BY <1>1, <2>1, EndKeepsInv
<1> QED
  BY <1>2, <1>3

\* The steps that end a write.
LEMMA EndingsKeepInv ==
  ASSUME BaoInv, NEW w \in Writers,
         \/ AnsweredOk(w) \/ AnsweredError(w) \/ ReadFailed(w)
         \/ LoginFailed(w) \/ TimedOut(w) \/ Disconnect(w)
  PROVE  BaoInv'
<1>1. CallInv(w) /\ (lock = None => lock # w)
  BY ValuesAssumption DEF BaoInv
<1>2. CASE AnsweredOk(w)
  BY <1>1, <1>2, EndKeepsInv DEF AnsweredOk, Answered, CallInv
<1>3. CASE AnsweredError(w)
  BY <1>1, <1>3, EndKeepsInv DEF AnsweredError, Answered, CallInv
<1>4. CASE ReadFailed(w)
  BY <1>1, <1>4, EndKeepsInv DEF ReadFailed
<1>5. CASE LoginFailed(w)
  BY <1>1, <1>5, EndKeepsInv DEF LoginFailed, CallInv
<1>6. CASE TimedOut(w)
  BY <1>6, EndKeepsInv DEF TimedOut, Waiting
<1>7. CASE Disconnect(w)
  BY <1>7, EndKeepsInv DEF Disconnect, Running
<1> QED
  BY <1>2, <1>3, <1>4, <1>5, <1>6, <1>7

\* A write that ended unanswered has forgotten its refusal.
LEMMA LandLateKeepsInv ==
  ASSUME BaoInv, NEW w \in Writers, LandLate(w)
  PROVE  BaoInv'
<1> DEFINE c == [call[w] EXCEPT !.late = FALSE, !.landed = TRUE]
<1>1. /\ call \in [Writers -> Call] /\ call[w] \in Call /\ CallInv(w)
      /\ call[w].late /\ UNCHANGED <<auth, cached, lock, tokens, clock>>
      /\ secret \in [Paths -> Secret \cup {None}]
      /\ Fits(call[w]) /\ secret' = Stored(call[w], w)
  BY DEF BaoInv, BaoTypeOK, LandLate
<1>2. /\ c \in Call /\ c.pc = call[w].pc /\ c.path = call[w].path
      /\ c.key = call[w].key /\ c.refused = call[w].refused /\ c.tok = call[w].tok
      /\ c.answer = call[w].answer
  BY <1>1 DEF Call
<1>3. call' = [call EXCEPT ![w] = c]
  BY DEF LandLate
<1> HIDE DEF c
<1>4. /\ call' \in [Writers -> Call] /\ call'[w] = c
      /\ \A v \in Writers \ {w} : call'[v] = call[v]
  BY <1>1, <1>2, <1>3
<1>5. call[w].pc # "idle" /\ call[w].path \in Paths /\ call[w].key \in Keys
  BY <1>1 DEF CallInv
<1>6. secret' \in [Paths -> Secret \cup {None}]
  BY <1>1, <1>5, StoredType
<1>7. BaoTypeOK'
  BY <1>1, <1>4, <1>6 DEF BaoInv, BaoTypeOK
<1>8. ASSUME NEW v \in Writers
      PROVE  /\ call'[v].pc = call[v].pc /\ call'[v].refused = call[v].refused
             /\ call'[v].path = call[v].path /\ call'[v].key = call[v].key
             /\ call'[v].tok = call[v].tok /\ call'[v].answer = call[v].answer
             /\ (call'[v].late => call[v].late)
  BY <1>2, <1>4, <1>1
<1>9. \A n : FreshFrom(n) => FreshFrom(n)'
  BY <1>1, <1>8 DEF FreshFrom
<1>10. ASSUME NEW v \in Writers PROVE CallInv(v)' /\ RetryInv(v)'
  <2>1. CallInv(v) /\ RetryInv(v) /\ call[v].late \in BOOLEAN
    BY <1>1 DEF BaoInv, Call
  <2> QED
    BY <1>1, <1>8, <1>9, <2>1 DEF CallInv, RetryInv
<1> QED
  BY <1>7, <1>10 DEF BaoInv

\* A restart empties the cache and ends every write.
LEMMA RestartKeepsInv ==
  ASSUME BaoInv, Restart
  PROVE  BaoInv'
<1>1. /\ call \in [Writers -> Call] /\ cached' = None /\ lock' = None
      /\ UNCHANGED <<auth, tokens, secret, clock>>
  BY DEF BaoInv, BaoTypeOK, Restart
<1>2. ASSUME NEW v \in Writers
      PROVE  /\ call'[v] = IF call[v].pc \in Running
                           THEN Ended(call[v], "cut") ELSE call[v]
             /\ call'[v] \in Call
  BY <1>1, EndedType DEF Restart
<1>3. call' \in [Writers -> Call]
  BY <1>2 DEF Restart
<1>4. BaoTypeOK'
  BY <1>1, <1>3 DEF BaoInv, BaoTypeOK
<1>5. ASSUME NEW v \in Writers PROVE CallInv(v)' /\ RetryInv(v)'
  <2>1. CallInv(v) /\ call[v] \in Call /\ lock' # v
    BY <1>1, ValuesAssumption DEF BaoInv
  <2>2. CASE call[v].pc \in Running
    <3>1. /\ call'[v].pc = "cut" /\ call'[v].refused = None
          /\ call'[v].path = call[v].path /\ call'[v].key = call[v].key
      BY <1>2, <2>1, <2>2, EndedType
    <3> QED
      BY <2>1, <2>2, <3>1 DEF CallInv, RetryInv, Running
  <2>3. CASE call[v].pc \notin Running
    <3>1. call'[v] = call[v]
      BY <1>2, <2>3
    <3> QED
      BY <1>1, <2>1, <2>3, <3>1 DEF CallInv, RetryInv, Running
  <2> QED
    BY <2>2, <2>3
<1> QED
  BY <1>4, <1>5 DEF BaoInv

\* OpenBao's other users and the clock do not touch what the client knows.
LEMMA RevokeKeepsInv ==
  ASSUME BaoInv, NEW n \in 1..Len(tokens), Revoke(n)
  PROVE  BaoInv'
<1> DEFINE t == [tokens[n] EXCEPT !.revoked = TRUE]
<1>1. tokens \in Seq(Token) /\ UNCHANGED <<auth, call, cached, lock, secret, clock>>
  BY DEF BaoInv, BaoTypeOK, Revoke
<1>2. tokens[n] \in Token
  BY <1>1, ElementOfSeq
<1>3. t \in Token
  BY <1>2 DEF Token
<1>4. tokens' = [tokens EXCEPT ![n] = t]
  BY DEF Revoke
<1> HIDE DEF t
<1>5. tokens' \in Seq(Token) /\ Len(tokens') = Len(tokens)
  BY <1>1, <1>3, <1>4, ExceptSeq
<1>6. BaoTypeOK'
  BY <1>1, <1>5 DEF BaoInv, BaoTypeOK
<1>7. ASSUME NEW v \in Writers PROVE CallInv(v)' /\ RetryInv(v)'
  BY <1>1, <1>5 DEF BaoInv, CallInv, RetryInv, FreshFrom
<1> QED
  BY <1>6, <1>7 DEF BaoInv

LEMMA CreateSecretKeepsInv ==
  ASSUME BaoInv, NEW p \in Paths, NEW k \in Keys, CreateSecret(p, k)
  PROVE  BaoInv'
<1> DEFINE new == [j \in Keys |-> IF j = k THEN Other ELSE None]
<1>1. /\ new \in Secret /\ secret' = [secret EXCEPT ![p] = new]
      /\ UNCHANGED <<auth, call, cached, lock, tokens, clock>>
  BY DEF Secret, CreateSecret
<1> HIDE DEF new
<1>2. BaoTypeOK'
  BY <1>1 DEF BaoInv, BaoTypeOK
<1>3. ASSUME NEW v \in Writers PROVE CallInv(v)' /\ RetryInv(v)'
  BY <1>1 DEF BaoInv, CallInv, RetryInv, FreshFrom
<1> QED
  BY <1>2, <1>3 DEF BaoInv

LEMMA DestroySecretKeepsInv ==
  ASSUME BaoInv, NEW p \in Paths, DestroySecret(p)
  PROVE  BaoInv'
<1>1. /\ call \in [Writers -> Call] /\ secret' = [secret EXCEPT ![p] = None]
      /\ UNCHANGED <<auth, cached, lock, tokens, clock>>
  BY DEF BaoInv, BaoTypeOK, DestroySecret
<1>2. call' = [w \in Writers |-> IF call[w].path = p
                                 THEN [call[w] EXCEPT !.missing = TRUE] ELSE call[w]]
  BY DEF DestroySecret
<1>3. ASSUME NEW v \in Writers
      PROVE  /\ call'[v] \in Call
             /\ call'[v].pc = call[v].pc /\ call'[v].refused = call[v].refused
             /\ call'[v].path = call[v].path /\ call'[v].key = call[v].key
             /\ call'[v].tok = call[v].tok /\ call'[v].answer = call[v].answer
             /\ call'[v].late = call[v].late
  <2>1. call[v] \in Call
    BY <1>1
  <2>2. CASE call[v].path = p
    <3>1. call'[v] = [call[v] EXCEPT !.missing = TRUE]
      BY <1>2, <2>2
    <3> QED
      BY <2>1, <3>1 DEF Call
  <2>3. CASE call[v].path # p
    BY <1>2, <2>1, <2>3
  <2> QED
    BY <2>2, <2>3
<1>4. call' \in [Writers -> Call]
  BY <1>2, <1>3
<1>5. BaoTypeOK'
  BY <1>1, <1>4 DEF BaoInv, BaoTypeOK
<1>6. \A n : FreshFrom(n) => FreshFrom(n)'
  BY <1>1, <1>3 DEF FreshFrom
<1>7. ASSUME NEW v \in Writers PROVE CallInv(v)' /\ RetryInv(v)'
  <2>1. CallInv(v) /\ RetryInv(v)
    BY DEF BaoInv
  <2> QED
    BY <1>1, <1>3, <1>6, <2>1 DEF CallInv, RetryInv
<1> QED
  BY <1>5, <1>7 DEF BaoInv

LEMMA TickKeepsInv ==
  ASSUME BaoInv, Tick
  PROVE  BaoInv'
<1>1. clock' \in Nat /\ UNCHANGED <<auth, call, cached, lock, tokens, secret>>
  BY DEF BaoInv, BaoTypeOK, Tick
<1> QED
  BY <1>1 DEF BaoInv, BaoTypeOK, CallInv, RetryInv, FreshFrom

-----------------------------------------------------------------------------
\* Every step of the specification keeps the invariant.
LEMMA NextKeepsInv == ASSUME BaoInv, [Next]_vars PROVE BaoInv'
<1>1. ASSUME NEW w \in Writers, NEW p \in Paths, NEW k \in Keys, Write(w, p, k)
      PROVE  BaoInv'
  BY <1>1, WriteKeepsInv
<1>2. ASSUME NEW w \in Writers, Step(w) PROVE BaoInv'
  BY <1>2, UseCachedKeepsInv, LoginKeepsInv, LoginOkKeepsInv, ReadTokenFileKeepsInv,
     InvalidateKeepsInv, AnsweredMissingKeepsInv, AnsweredForbiddenKeepsInv,
     EndingsKeepInv DEF Step
<1>3. ASSUME NEW w \in Writers,
             \/ ServeLogin(w) \/ ServeOk(w) \/ ServeRefused(w)
             \/ LandLate(w) \/ Disconnect(w)
      PROVE  BaoInv'
  BY <1>3, ServeLoginKeepsInv, ServeOkKeepsInv, ServeRefusedKeepsInv,
     LandLateKeepsInv, EndingsKeepInv
<1>4. ASSUME NEW n \in 1..Len(tokens), Revoke(n) PROVE BaoInv'
  BY <1>4, RevokeKeepsInv
<1>5. ASSUME NEW p \in Paths, DestroySecret(p) \/ \E k \in Keys : CreateSecret(p, k)
      PROVE  BaoInv'
  BY <1>5, DestroySecretKeepsInv, CreateSecretKeepsInv
<1>6. CASE Restart \/ Tick
  BY <1>6, RestartKeepsInv, TickKeepsInv
<1>7. CASE UNCHANGED vars
  BY <1>7 DEF vars, BaoInv, BaoTypeOK, CallInv, RetryInv, FreshFrom
<1> QED
  BY <1>1, <1>2, <1>3, <1>4, <1>5, <1>6, <1>7 DEF Next

\* The invariant holds in every state of every behaviour.
THEOREM BaoInvariant == Spec => []BaoInv
<1>1. Init => BaoInv
  BY BaoInitInv
<1>2. BaoInv /\ [Next]_vars => BaoInv'
  BY NextKeepsInv
<1> QED
  BY <1>1, <1>2, PTL DEF Spec

\* The client's variables, and the part of OpenBao it relies on, keep their
\* types (targets/openbao.rs).
THEOREM BaoTypes == Spec => []BaoTypeOK
BY BaoInvariant, BaoInvImplies, PTL

\* A write that retries after a 403 never sends the refused token again, nor any
\* token that is as old, whatever other writes log in or invalidate meanwhile
\* (openbao.rs: write_key, token and invalidate).
THEOREM RetriesAreFresh == Spec => []RetryIsFresh
BY BaoInvariant, BaoInvImplies, PTL

-----------------------------------------------------------------------------
(***************************************************************************)
(* What has reached the store.  A request is answered Ok exactly if it was *)
(* executed, one that was given up may still be, and never both.  A write  *)
(* goes over to POST, which replaces the secret, only if the secret was    *)
(* missing at some moment since the write began.                           *)
(***************************************************************************)
\* What the write has done is what its phase and its answer say.
OutcomeInv(c) ==
  /\ c.pc \in {"idle", "token", "login", "invalidate"} => ~c.landed
  /\ c.pc = "request" => (c.landed <=> c.answer = "ok")
  /\ c.pc = "ok" => c.landed
  /\ c.late => ~c.landed /\ c.pc \in {"failed", "cut"}

\* A write begins with a PATCH; a POST is sent for a secret that was missing.
MissingInv(c) ==
  /\ c.pc = "idle" => c.method = "PATCH"
  /\ c.method = "POST" \/ (c.pc = "request" /\ c.answer = "missing") => c.missing

\* A secret that was never missing is there.
FoundInv(c) == c.pc # "idle" /\ ~c.missing => secret[c.path] # None

WriteInv ==
  \A w \in Writers : OutcomeInv(call[w]) /\ MissingInv(call[w]) /\ FoundInv(call[w])

\* The invariant holds initially.
LEMMA WriteInit == ASSUME Init PROVE WriteInv
<1>1. \A w \in Writers : call[w] = IdleCall
  BY DEF Init
<1> QED
  BY <1>1 DEF WriteInv, OutcomeInv, MissingInv, FoundInv, IdleCall

\* The steps with which a running write goes on, and OpenBao's answers that
\* change nothing in the store.
Continue(w) ==
  \/ UseCached(w) \/ Login(w) \/ ServeLogin(w) \/ LoginOk(w) \/ ReadTokenFile(w)
  \/ Invalidate(w) \/ ServeRefused(w) \/ AnsweredMissing(w)
  \/ (AnsweredForbidden(w) /\ call'[w].pc = "invalidate")

\* The steps with which it ends.
Finish(w) ==
  \/ LoginFailed(w) \/ ReadFailed(w) \/ AnsweredOk(w) \/ AnsweredError(w)
  \/ TimedOut(w) \/ Disconnect(w)
  \/ (AnsweredForbidden(w) /\ call'[w].pc # "invalidate")

\* No step of one write touches the record of another.
LEMMA OthersUntouched ==
  ASSUME BaoInv, NEW w \in Writers,
         \/ Continue(w) \/ Finish(w) \/ ServeOk(w) \/ LandLate(w)
         \/ \E p \in Paths, k \in Keys : Write(w, p, k)
  PROVE  \A v \in Writers \ {w} : call'[v] = call[v]
<1>1. call \in [Writers -> Call]
  BY DEF BaoInv, BaoTypeOK
<1>2. CASE Continue(w)
  BY <1>1, <1>2 DEF Continue, UseCached, Login, ServeLogin, LoginOk, ReadTokenFile,
     Invalidate, ServeRefused, AnsweredMissing, AnsweredForbidden
<1>3. CASE Finish(w)
  BY <1>1, <1>3 DEF Finish, LoginFailed, ReadFailed, AnsweredOk, AnsweredError,
     TimedOut, Disconnect, AnsweredForbidden
<1>4. CASE ServeOk(w) \/ LandLate(w)
  BY <1>1, <1>4 DEF ServeOk, LandLate
<1>5. CASE \E p \in Paths, k \in Keys : Write(w, p, k)
  BY <1>1, <1>5 DEF Write
<1> QED
  BY <1>2, <1>3, <1>4, <1>5

\* A write that goes on has stored nothing by that.
LEMMA ContinueEffect ==
  ASSUME BaoInv, WriteInv, NEW w \in Writers, Continue(w)
  PROVE  /\ UNCHANGED secret
         /\ call[w].pc \in Running /\ call'[w].pc \in Running
         /\ call'[w].path = call[w].path /\ call'[w].key = call[w].key
         /\ call'[w].landed = call[w].landed /\ call'[w].missing = call[w].missing
         /\ OutcomeInv(call'[w]) /\ MissingInv(call'[w])
<1>1. /\ call \in [Writers -> Call] /\ call[w] \in Call /\ CallInv(w)
      /\ OutcomeInv(call[w]) /\ MissingInv(call[w]) /\ FoundInv(call[w])
  BY DEF BaoInv, BaoTypeOK, WriteInv
<1>2. CASE UseCached(w)
  BY <1>1, <1>2 DEF UseCached, Sending, Call, Running, OutcomeInv, MissingInv
<1>3. CASE Login(w)
  BY <1>1, <1>3 DEF Login, Call, Running, OutcomeInv, MissingInv
<1>4. CASE ServeLogin(w)
  BY <1>1, <1>4 DEF ServeLogin, Call, Running, OutcomeInv, MissingInv
<1>5. CASE LoginOk(w)
  BY <1>1, <1>5 DEF LoginOk, Sending, Call, Running, OutcomeInv, MissingInv
<1>6. CASE ReadTokenFile(w)
  BY <1>1, <1>6 DEF ReadTokenFile, Sending, Call, Running, OutcomeInv, MissingInv
<1>7. CASE Invalidate(w)
  BY <1>1, <1>7 DEF Invalidate, Call, Running, OutcomeInv, MissingInv
<1>8. CASE ServeRefused(w)
  <2>1. PICK a \in {"missing", "forbidden", "error"} :
          /\ a = "missing" => ~Fits(call[w])
          /\ call' = [call EXCEPT ![w].answer = a]
    BY <1>8 DEF ServeRefused
  <2>2. a = "missing" => call[w].missing
    BY <1>1, <1>8, <2>1 DEF ServeRefused, Fits, FoundInv
  <2>3. call[w].pc = "request" /\ call[w].answer = "none" /\ UNCHANGED secret
    BY <1>8 DEF ServeRefused
  <2> QED
    BY <1>1, <2>1, <2>2, <2>3 DEF Call, Running, OutcomeInv, MissingInv
<1>9. CASE AnsweredMissing(w)
  BY <1>1, <1>9 DEF AnsweredMissing, Answered, Call, Running, OutcomeInv, MissingInv
<1>10. CASE AnsweredForbidden(w) /\ call'[w].pc = "invalidate"
  <2>1. call' # [call EXCEPT ![w] = Ended(@, "failed")]
    BY <1>1, <1>10, EndedType
  <2>2. call' = [call EXCEPT ![w].pc = "invalidate", ![w].refused = Len(tokens)]
    BY <1>10, <2>1 DEF AnsweredForbidden
  <2>3. call[w].pc = "request" /\ call[w].answer = "forbidden" /\ UNCHANGED secret
    BY <1>10 DEF AnsweredForbidden, Answered
  <2> QED
    BY <1>1, <2>2, <2>3 DEF Call, Running, OutcomeInv, MissingInv
<1> QED
  BY <1>2, <1>3, <1>4, <1>5, <1>6, <1>7, <1>8, <1>9, <1>10 DEF Continue

\* The record that an ended write leaves.
LEMMA EndedOutcome ==
  ASSUME NEW c \in Call, NEW pc \in {"ok", "failed", "cut"}, c.pc \in Running,
         OutcomeInv(c), MissingInv(c), pc = "ok" => c.landed /\ c.answer = "ok"
  PROVE  /\ OutcomeInv(Ended(c, pc)) /\ MissingInv(Ended(c, pc))
         /\ Ended(c, pc).landed = c.landed /\ Ended(c, pc).missing = c.missing
<1> DEFINE late == c.pc = "request" /\ c.answer = "none"
           e == Ended(c, pc)
<1>1. /\ e.pc = pc /\ e.landed = c.landed /\ e.missing = c.missing
      /\ e.late = late /\ e.method = IF late THEN c.method ELSE "PATCH"
  BY DEF Ended
<1>2. late => ~c.landed /\ pc # "ok"
  BY DEF OutcomeInv
<1> HIDE DEF late, e
<1>3. OutcomeInv(e)
  BY <1>1, <1>2 DEF OutcomeInv
<1>4. MissingInv(e)
  BY <1>1 DEF MissingInv
<1> QED
  BY <1>1, <1>3, <1>4 DEF e

\* A write that ends well has landed.
LEMMA FinishEffect ==
  ASSUME BaoInv, WriteInv, NEW w \in Writers, Finish(w)
  PROVE  /\ UNCHANGED secret /\ call[w].pc \in Running
         /\ call'[w].path = call[w].path /\ call'[w].key = call[w].key
         /\ call'[w].landed = call[w].landed /\ call'[w].missing = call[w].missing
         /\ call'[w].pc \in {"ok", "failed", "cut"}
         /\ OutcomeInv(call'[w]) /\ MissingInv(call'[w])
<1>1. /\ call \in [Writers -> Call] /\ call[w] \in Call
      /\ OutcomeInv(call[w]) /\ MissingInv(call[w])
  BY DEF BaoInv, BaoTypeOK, WriteInv
<1>2. \E pc \in {"ok", "failed", "cut"} :
         /\ pc = "ok" => call[w].pc = "request" /\ call[w].answer = "ok"
         /\ call' = [call EXCEPT ![w] = Ended(@, pc)]
         /\ call[w].pc \in Running /\ UNCHANGED secret
  <2>1. CASE LoginFailed(w)
    BY <2>1 DEF LoginFailed, Running
  <2>2. CASE ReadFailed(w)
    BY <2>2 DEF ReadFailed, Running
  <2>3. CASE AnsweredOk(w)
    BY <2>3 DEF AnsweredOk, Answered, Running
  <2>4. CASE AnsweredError(w)
    BY <2>4 DEF AnsweredError, Answered, Running
  <2>5. CASE TimedOut(w)
    BY <2>5 DEF TimedOut, Waiting, Running
  <2>6. CASE Disconnect(w)
    BY <2>6 DEF Disconnect
  <2>7. CASE AnsweredForbidden(w) /\ call'[w].pc # "invalidate"
    <3>1. call' # [call EXCEPT ![w].pc = "invalidate", ![w].refused = Len(tokens)]
      BY <1>1, <2>7 DEF Call
    <3>2. call' = [call EXCEPT ![w] = Ended(@, "failed")]
      BY <2>7, <3>1 DEF AnsweredForbidden
    <3> QED
      BY <2>7, <3>2 DEF AnsweredForbidden, Answered, Running
  <2> QED
    BY <2>1, <2>2, <2>3, <2>4, <2>5, <2>6, <2>7 DEF Finish
<1>3. PICK pc \in {"ok", "failed", "cut"} :
         /\ pc = "ok" => call[w].pc = "request" /\ call[w].answer = "ok"
         /\ call' = [call EXCEPT ![w] = Ended(@, pc)]
         /\ call[w].pc \in Running /\ UNCHANGED secret
  BY <1>2
<1>4. call'[w] = Ended(call[w], pc)
  BY <1>1, <1>3
<1>5. pc = "ok" => call[w].landed
  BY <1>1, <1>3 DEF OutcomeInv
<1> QED
  BY <1>1, <1>3, <1>4, <1>5, EndedType, EndedOutcome

\* A value is stored for a write that has not landed yet, and only once.
LEMMA LandEffect ==
  ASSUME BaoInv, WriteInv, NEW w \in Writers, ServeOk(w) \/ LandLate(w)
  PROVE  /\ secret' = Stored(call[w], w) /\ Fits(call[w])
         /\ call[w].pc \in {"request", "failed", "cut"} /\ call'[w].pc = call[w].pc
         /\ call'[w].path = call[w].path /\ call'[w].key = call[w].key
         /\ ~call[w].landed /\ call'[w].landed = TRUE
         /\ call'[w].missing = call[w].missing
         /\ OutcomeInv(call'[w]) /\ MissingInv(call'[w])
<1>1. /\ call \in [Writers -> Call] /\ call[w] \in Call
      /\ OutcomeInv(call[w]) /\ MissingInv(call[w])
  BY DEF BaoInv, BaoTypeOK, WriteInv
<1>2. CASE ServeOk(w)
  BY <1>1, <1>2 DEF ServeOk, Call, Running, OutcomeInv, MissingInv
<1>3. CASE LandLate(w)
  BY <1>1, <1>3 DEF LandLate, Call, Running, OutcomeInv, MissingInv
<1> QED
  BY <1>2, <1>3

\* Secrets that are there stay there, and the stored one is there afterwards.
LEMMA StoredKeeps ==
  ASSUME BaoInv, NEW c \in Call, NEW w \in Writers, c.path \in Paths, c.key \in Keys,
         Fits(c), secret' = Stored(c, w)
  PROVE  /\ secret'[c.path] \in Secret /\ secret'[c.path] # None
         /\ \A p \in Paths \ {c.path} : secret'[p] = secret[p]
         /\ c.method = "PATCH" =>
              secret[c.path] # None
              /\ secret'[c.path] = [secret[c.path] EXCEPT ![c.key] = w]
         /\ c.method = "POST" =>
              secret'[c.path] = [k \in Keys |-> IF k = c.key THEN w ELSE None]
<1>1. secret \in [Paths -> Secret \cup {None}] /\ c.method \in {"PATCH", "POST"}
  BY DEF BaoInv, BaoTypeOK, Call
<1>2. Stored(c, w) \in [Paths -> Secret \cup {None}]
  BY <1>1, StoredType
<1>3. \A p \in Paths \ {c.path} : secret'[p] = secret[p]
  BY <1>1 DEF Stored
<1>4. CASE c.method = "PATCH"
  <2>1. secret[c.path] # None /\ secret[c.path] \in Secret
    BY <1>1, <1>4 DEF Fits
  <2>2. secret'[c.path] = [secret[c.path] EXCEPT ![c.key] = w]
    BY <1>1, <1>4 DEF Stored
  <2>3. secret'[c.path] \in Secret
    BY <2>1, <2>2 DEF Secret
  <2> QED
    BY <1>3, <1>4, <2>1, <2>2, <2>3, SecretsAssumption
<1>5. CASE c.method = "POST"
  <2>1. secret'[c.path] = [k \in Keys |-> IF k = c.key THEN w ELSE None]
    BY <1>1, <1>5 DEF Stored
  <2>2. secret'[c.path] \in Secret
    BY <2>1 DEF Secret
  <2> QED
    BY <1>3, <1>5, <2>1, <2>2, SecretsAssumption
<1> QED
  BY <1>1, <1>4, <1>5

\* Every secret that was there is there after a step of a write.
LEMMA LocalWrite ==
  ASSUME BaoInv, WriteInv, NEW w \in Writers,
         \A v \in Writers \ {w} : call'[v] = call[v],
         \A p \in Paths : secret[p] # None => secret'[p] # None,
         OutcomeInv(call'[w]), MissingInv(call'[w]), FoundInv(call[w])',
         call[w].pc # "idle" \/ call'[w].pc # "idle"
  PROVE  WriteInv'
<1>1. ASSUME NEW v \in Writers
      PROVE  OutcomeInv(call'[v]) /\ MissingInv(call'[v]) /\ FoundInv(call[v])'
  <2>1. CASE v = w
    BY <2>1
  <2>2. CASE v # w
    <3>1. /\ call'[v] = call[v] /\ CallInv(v)
          /\ OutcomeInv(call[v]) /\ MissingInv(call[v]) /\ FoundInv(call[v])
      BY <2>2 DEF WriteInv, BaoInv
    <3> QED
      BY <3>1 DEF FoundInv, CallInv
  <2> QED
    BY <2>1, <2>2
<1> QED
  BY <1>1 DEF WriteInv, OutcomeInv, MissingInv

\* A write that begins notes whether its secret is missing.
LEMMA WriteEffect ==
  ASSUME BaoInv, WriteInv, NEW w \in Writers, NEW p \in Paths, NEW k \in Keys,
         Write(w, p, k)
  PROVE  /\ UNCHANGED secret /\ call[w].pc = "idle" /\ call'[w].pc = "token"
         /\ call'[w].path = p /\ call'[w].key = k
         /\ ~call[w].landed /\ call'[w].landed = call[w].landed
         /\ OutcomeInv(call'[w]) /\ MissingInv(call'[w]) /\ FoundInv(call[w])'
<1>1. /\ call \in [Writers -> Call] /\ call[w] \in Call /\ CallInv(w)
      /\ OutcomeInv(call[w]) /\ MissingInv(call[w]) /\ call[w].pc = "idle"
      /\ UNCHANGED secret
  BY DEF BaoInv, BaoTypeOK, WriteInv, Write
<1>2. call'[w] = [call[w] EXCEPT !.pc = "token", !.path = p, !.key = k,
                                 !.missing = (secret[p] = None)]
  BY <1>1 DEF Write
<1>3. /\ call'[w].pc = "token" /\ call'[w].path = p /\ call'[w].key = k
      /\ call'[w].landed = call[w].landed /\ call'[w].late = call[w].late
      /\ call'[w].method = call[w].method /\ call'[w].missing = (secret[p] = None)
  BY <1>1, <1>2 DEF Call
<1>4. ~call[w].landed /\ ~call[w].late
  BY <1>1 DEF OutcomeInv
<1>5. OutcomeInv(call'[w])
  BY <1>3, <1>4 DEF OutcomeInv
<1>6. call[w].method = "PATCH"
  BY <1>1 DEF MissingInv
<1>7. MissingInv(call'[w])
  BY <1>3, <1>6 DEF MissingInv
<1>8. FoundInv(call[w])'
  BY <1>1, <1>3 DEF FoundInv
<1> QED
  BY <1>1, <1>3, <1>4, <1>5, <1>7, <1>8

-----------------------------------------------------------------------------
\* A step of a write keeps the invariant.
LEMMA WriterKeepsWrite ==
  ASSUME BaoInv, WriteInv, NEW w \in Writers,
         \/ Continue(w) \/ Finish(w) \/ ServeOk(w) \/ LandLate(w)
         \/ \E p \in Paths, k \in Keys : Write(w, p, k)
  PROVE  WriteInv'
<1>1. /\ call[w] \in Call /\ CallInv(w) /\ FoundInv(call[w])
      /\ \A v \in Writers \ {w} : call'[v] = call[v]
  BY OthersUntouched DEF BaoInv, BaoTypeOK, WriteInv
<1>2. CASE Continue(w) \/ Finish(w)
  <2>1. /\ UNCHANGED secret /\ call[w].pc \in Running /\ call'[w].path = call[w].path
        /\ call'[w].missing = call[w].missing
        /\ OutcomeInv(call'[w]) /\ MissingInv(call'[w])
    BY <1>2, ContinueEffect, FinishEffect
  <2>2. call[w].pc # "idle"
    BY <2>1 DEF Running
  <2>3. FoundInv(call[w])'
    BY <1>1, <2>1, <2>2 DEF FoundInv
  <2> QED
    BY <1>1, <2>1, <2>2, <2>3, LocalWrite
<1>3. CASE ServeOk(w) \/ LandLate(w)
  <2>1. /\ secret' = Stored(call[w], w) /\ Fits(call[w]) /\ call'[w].path = call[w].path
        /\ OutcomeInv(call'[w]) /\ MissingInv(call'[w]) /\ call[w].pc # "idle"
    BY <1>3, LandEffect
  <2>2. call[w].path \in Paths /\ call[w].key \in Keys
    BY <1>1, <2>1 DEF CallInv
  <2>3. /\ secret'[call[w].path] # None
        /\ \A p \in Paths \ {call[w].path} : secret'[p] = secret[p]
    BY <1>1, <2>1, <2>2, StoredKeeps
  <2>4. \A p \in Paths : secret[p] # None => secret'[p] # None
    BY <2>3
  <2>5. FoundInv(call[w])'
    BY <2>1, <2>3 DEF FoundInv
  <2> QED
    BY <1>1, <2>1, <2>4, <2>5, LocalWrite
<1>4. CASE \E p \in Paths, k \in Keys : Write(w, p, k)
  <2>1. /\ UNCHANGED secret /\ call'[w].pc = "token"
        /\ OutcomeInv(call'[w]) /\ MissingInv(call'[w]) /\ FoundInv(call[w])'
    BY <1>4, WriteEffect
  <2> QED
    BY <1>1, <2>1, LocalWrite
<1> QED
  BY <1>2, <1>3, <1>4

\* Running writes end at a restart; a request under way may still be executed.
LEMMA RestartEffect ==
  ASSUME BaoInv, WriteInv, Restart, NEW w \in Writers
  PROVE  /\ UNCHANGED secret
         /\ call'[w].pc = IF call[w].pc \in Running THEN "cut" ELSE call[w].pc
         /\ call'[w].path = call[w].path /\ call'[w].key = call[w].key
         /\ call'[w].landed = call[w].landed /\ call'[w].missing = call[w].missing
         /\ OutcomeInv(call'[w]) /\ MissingInv(call'[w])
<1>1. /\ call[w] \in Call /\ OutcomeInv(call[w]) /\ MissingInv(call[w])
      /\ UNCHANGED secret
      /\ call'[w] = IF call[w].pc \in Running THEN Ended(call[w], "cut") ELSE call[w]
  BY DEF BaoInv, BaoTypeOK, WriteInv, Restart
<1>2. CASE call[w].pc \in Running
  BY <1>1, <1>2, EndedType, EndedOutcome
<1>3. CASE call[w].pc \notin Running
  BY <1>1, <1>3
<1> QED
  BY <1>2, <1>3

\* Whoever's secret is destroyed knows that it was missing.
LEMMA DestroyEffect ==
  ASSUME BaoInv, WriteInv, NEW p \in Paths, DestroySecret(p), NEW w \in Writers
  PROVE  /\ call'[w].pc = call[w].pc /\ call'[w].path = call[w].path
         /\ call'[w].key = call[w].key /\ call'[w].landed = call[w].landed
         /\ OutcomeInv(call'[w]) /\ MissingInv(call'[w]) /\ FoundInv(call[w])'
<1>1. /\ call[w] \in Call /\ OutcomeInv(call[w]) /\ MissingInv(call[w])
      /\ FoundInv(call[w]) /\ CallInv(w)
      /\ secret \in [Paths -> Secret \cup {None}]
      /\ secret' = [secret EXCEPT ![p] = None]
      /\ call'[w] = IF call[w].path = p THEN [call[w] EXCEPT !.missing = TRUE]
                                        ELSE call[w]
  BY DEF BaoInv, BaoTypeOK, WriteInv, DestroySecret
<1>2. CASE call[w].path = p
  <2>1. /\ call'[w].pc = call[w].pc /\ call'[w].path = call[w].path
        /\ call'[w].key = call[w].key /\ call'[w].landed = call[w].landed
        /\ call'[w].method = call[w].method /\ call'[w].answer = call[w].answer
        /\ call'[w].late = call[w].late /\ call'[w].missing = TRUE
    BY <1>1, <1>2 DEF Call
  <2> QED
    BY <1>1, <2>1 DEF OutcomeInv, MissingInv, FoundInv
<1>3. CASE call[w].path # p
  BY <1>1, <1>3 DEF FoundInv, CallInv
<1> QED
  BY <1>2, <1>3

\* Every step keeps the invariant.
LEMMA NextKeepsWrite == ASSUME BaoInv, WriteInv, [Next]_vars PROVE WriteInv'
<1>1. ASSUME NEW w \in Writers,
             \/ Step(w) \/ ServeLogin(w) \/ ServeOk(w) \/ ServeRefused(w)
             \/ LandLate(w) \/ Disconnect(w)
             \/ \E p \in Paths, k \in Keys : Write(w, p, k)
      PROVE  WriteInv'
  BY <1>1, WriterKeepsWrite DEF Step, Continue, Finish
<1>2. CASE Restart
  <2>1. ASSUME NEW w \in Writers
        PROVE  OutcomeInv(call'[w]) /\ MissingInv(call'[w]) /\ FoundInv(call[w])'
    <3>1. FoundInv(call[w]) /\ (call'[w].pc # "idle" => call[w].pc # "idle")
      BY <1>2, RestartEffect DEF WriteInv, Running
    <3> QED
      BY <1>2, <3>1, RestartEffect DEF FoundInv
  <2> QED
    BY <2>1 DEF WriteInv, OutcomeInv, MissingInv
<1>3. ASSUME NEW p \in Paths, DestroySecret(p) PROVE WriteInv'
  <2>1. \A w \in Writers : OutcomeInv(call'[w]) /\ MissingInv(call'[w])
                           /\ FoundInv(call[w])'
    BY <1>3, DestroyEffect
  <2> QED
    BY <2>1 DEF WriteInv, OutcomeInv, MissingInv
<1>4. ASSUME NEW p \in Paths, NEW k \in Keys, CreateSecret(p, k) PROVE WriteInv'
  <2>1. UNCHANGED call /\ secret \in [Paths -> Secret \cup {None}]
    BY <1>4 DEF CreateSecret, BaoInv, BaoTypeOK
  <2>2. [j \in Keys |-> IF j = k THEN Other ELSE None] \in Secret
    BY DEF Secret
  <2>3. \A q \in Paths : secret[q] # None => secret'[q] # None
    BY <1>4, <2>1, <2>2, SecretsAssumption DEF CreateSecret
  <2>4. \A w \in Writers : call[w].pc # "idle" => call[w].path \in Paths
    BY DEF BaoInv, CallInv
  <2> QED
    BY <2>1, <2>3, <2>4 DEF WriteInv, OutcomeInv, MissingInv, FoundInv
<1>5. CASE Tick \/ UNCHANGED vars \/ \E n \in 1..Len(tokens) : Revoke(n)
  <2>1. UNCHANGED <<call, secret>>
    BY <1>5 DEF Tick, vars, Revoke
  <2> QED
    BY <2>1 DEF WriteInv, OutcomeInv, MissingInv, FoundInv
<1> QED
  BY <1>1, <1>2, <1>3, <1>4, <1>5 DEF Next

\* The invariant holds in every state of every behaviour.
THEOREM WriteInvariant == Spec => [](BaoInv /\ WriteInv)
<1>1. Init => BaoInv /\ WriteInv
  BY BaoInitInv, WriteInit
<1>2. BaoInv /\ WriteInv /\ [Next]_vars => (BaoInv /\ WriteInv)'
  BY NextKeepsInv, NextKeepsWrite
<1> QED
  BY <1>1, <1>2, PTL DEF Spec

\* Only ServeOk and LandLate land a value.
LEMMA WhoLands ==
  ASSUME BaoInv, WriteInv, [Next]_vars, NEW w \in Writers,
         ~call[w].landed, call'[w].landed
  PROVE  ServeOk(w) \/ LandLate(w)
<1>1. ASSUME NEW v \in Writers,
             \/ Step(v) \/ ServeLogin(v) \/ ServeOk(v) \/ ServeRefused(v)
             \/ LandLate(v) \/ Disconnect(v)
             \/ \E p \in Paths, k \in Keys : Write(v, p, k)
      PROVE  ServeOk(w) \/ LandLate(w)
  <2>1. \/ Continue(v) \/ Finish(v) \/ ServeOk(v) \/ LandLate(v)
        \/ \E p \in Paths, k \in Keys : Write(v, p, k)
    BY <1>1 DEF Step, Continue, Finish
  <2>2. v = w
    BY <2>1, OthersUntouched
  <2>3. ~(Continue(v) \/ Finish(v) \/ \E p \in Paths, k \in Keys : Write(v, p, k))
    BY <2>2, ContinueEffect, FinishEffect, WriteEffect
  <2> QED
    BY <2>1, <2>2, <2>3
<1>2. ~Restart
  BY RestartEffect
<1>3. \A p \in Paths : ~DestroySecret(p)
  BY DestroyEffect
<1>4. call' # call
  OBVIOUS
<1> QED
  BY <1>1, <1>2, <1>3, <1>4 DEF Next, vars, Tick, Revoke, CreateSecret

\* Whatever other writes and users do, and however late a request is executed,
\* a write whose secret existed from its beginning takes no other key away
\* (openbao.rs: write_key tries PATCH and creates the secret on 404 only).
THEOREM OtherKeysSurvive == Spec => KeptWhereItExists
<1>1. ASSUME BaoInv, WriteInv, [Next]_vars, NEW w \in Writers,
             ~call[w].landed /\ call'[w].landed /\ ~call[w].missing,
             NEW k \in Keys \ {call[w].key}
      PROVE  secret'[call[w].path][k] = secret[call[w].path][k]
  <2>1. ServeOk(w) \/ LandLate(w)
    BY <1>1, WhoLands
  <2>2. /\ secret' = Stored(call[w], w) /\ Fits(call[w]) /\ call[w].pc # "idle"
        /\ call[w] \in Call /\ MissingInv(call[w]) /\ CallInv(w)
    BY <1>1, <2>1, LandEffect DEF BaoInv, BaoTypeOK, WriteInv
  <2>3. call[w].path \in Paths /\ call[w].key \in Keys /\ call[w].method = "PATCH"
    BY <1>1, <2>2 DEF CallInv, MissingInv, Call
  <2>4. secret'[call[w].path] = [secret[call[w].path] EXCEPT ![call[w].key] = w]
    BY <1>1, <2>2, <2>3, StoredKeeps
  <2> QED
    BY <1>1, <2>4
<1>2. BaoInv /\ WriteInv /\ [Next]_vars =>
        [\A w \in Writers : ~call[w].landed /\ call'[w].landed /\ ~call[w].missing =>
           \A k \in Keys \ {call[w].key} :
             secret'[call[w].path][k] = secret[call[w].path][k]]_vars
  BY <1>1
<1> QED
  BY <1>2, WriteInvariant, PTL DEF Spec, KeptWhereItExists

-----------------------------------------------------------------------------
(***************************************************************************)
(* The client implements TargetWrite: every step is a step of the promise  *)
(* or leaves what the caller is promised alone.                            *)
(***************************************************************************)
\* What the promise sees of the calls.
Mapped == [w \in Writers |-> AbstractCall(call[w])]

\* What it sees of one call.
LEMMA AbstractFields ==
  ASSUME NEW c \in Call
  PROVE  /\ AbstractCall(c).path = c.path /\ AbstractCall(c).key = c.key
         /\ AbstractCall(c).landed = c.landed
         /\ c.pc = "idle" => AbstractCall(c).phase = "idle"
         /\ c.pc \in Running => AbstractCall(c).phase = "open"
         /\ c.pc = "ok" => AbstractCall(c).phase = "ok"
         /\ c.pc \in {"failed", "cut"} => AbstractCall(c).phase = "failed"
BY DEF AbstractCall, Running

\* The record of the promise has these fields and no others.
LEMMA AbstractShape ==
  ASSUME NEW c
  PROVE  AbstractCall(c) = [phase |-> AbstractCall(c).phase, path |-> c.path,
                            key |-> c.key, landed |-> c.landed]
<1> DEFINE ph == CASE c.pc = "idle" -> "idle"
                   [] c.pc \in Running -> "open"
                   [] c.pc = "ok" -> "ok"
                   [] c.pc \in {"failed", "cut"} -> "failed"
<1>1. AbstractCall(c) = [phase |-> ph, path |-> c.path, key |-> c.key,
                         landed |-> c.landed]
  BY DEF AbstractCall
<1> HIDE DEF ph
<1> QED
  BY <1>1

\* A step of one write changes one call of the promise.
LEMMA MappedStep ==
  ASSUME BaoInv, call' \in [Writers -> Call], NEW w \in Writers,
         \A v \in Writers \ {w} : call'[v] = call[v]
  PROVE  /\ Mapped' = [Mapped EXCEPT ![w] = AbstractCall(call'[w])]
         /\ Mapped[w] = AbstractCall(call[w])
BY DEF Mapped

\* A write that goes on stutters.
LEMMA ContinueMaps ==
  ASSUME BaoInv, WriteInv, call' \in [Writers -> Call], NEW w \in Writers, Continue(w)
  PROVE  UNCHANGED Promise!vars
<1>1. /\ call[w] \in Call /\ call'[w] \in Call /\ UNCHANGED secret
      /\ call[w].pc \in Running /\ call'[w].pc \in Running
      /\ call'[w].path = call[w].path /\ call'[w].key = call[w].key
      /\ call'[w].landed = call[w].landed
  BY ContinueEffect DEF BaoInv, BaoTypeOK
<1>2. AbstractCall(call'[w]) = AbstractCall(call[w])
  BY <1>1 DEF AbstractCall, Running
<1>3. Mapped' = Mapped
  BY <1>2, OthersUntouched DEF Mapped
<1> QED
  BY <1>1, <1>3 DEF Promise!vars, Mapped

\* A write that ends has succeeded after it landed, or has failed.
LEMMA FinishMaps ==
  ASSUME BaoInv, WriteInv, call' \in [Writers -> Call], NEW w \in Writers, Finish(w)
  PROVE  Promise!Succeed(w) \/ Promise!Fail(w)
<1> DEFINE a == AbstractCall(call[w])
           b == AbstractCall(call'[w])
<1>1. /\ call[w] \in Call /\ call'[w] \in Call /\ UNCHANGED secret
      /\ call[w].pc \in Running /\ call'[w].pc \in {"ok", "failed", "cut"}
      /\ call'[w].path = call[w].path /\ call'[w].key = call[w].key
      /\ call'[w].landed = call[w].landed /\ OutcomeInv(call'[w])
  BY FinishEffect DEF BaoInv, BaoTypeOK
<1>2. /\ a.phase = "open" /\ a.landed = call[w].landed
      /\ b.phase = IF call'[w].pc = "ok" THEN "ok" ELSE "failed"
  BY <1>1, AbstractFields
<1>3. b = [a EXCEPT !.phase = b.phase]
  BY <1>1 DEF AbstractCall
<1>4. Mapped' = [Mapped EXCEPT ![w] = b] /\ Mapped[w] = a
  BY OthersUntouched, MappedStep
<1> HIDE DEF a, b
<1>5. Mapped' = [Mapped EXCEPT ![w].phase = b.phase]
  BY <1>3, <1>4
<1>6. call'[w].pc = "ok" => a.landed
  BY <1>1, <1>2 DEF OutcomeInv
<1>7. CASE call'[w].pc = "ok"
  BY <1>1, <1>2, <1>4, <1>5, <1>6, <1>7 DEF Promise!Succeed, Mapped
<1>8. CASE call'[w].pc # "ok"
  BY <1>1, <1>2, <1>4, <1>5, <1>8 DEF Promise!Fail, Mapped
<1> QED
  BY <1>7, <1>8

\* A stored value lands once, and with it the other keys are kept or gone.
LEMMA LandMaps ==
  ASSUME BaoInv, WriteInv, call' \in [Writers -> Call], NEW w \in Writers,
         ServeOk(w) \/ LandLate(w)
  PROVE  Promise!Land(w)
<1> DEFINE a == AbstractCall(call[w])
           b == AbstractCall(call'[w])
           p == call[w].path
           k == call[w].key
<1>1. /\ call[w] \in Call /\ call'[w] \in Call /\ CallInv(w)
      /\ secret' = Stored(call[w], w) /\ Fits(call[w])
      /\ call[w].pc \in {"request", "failed", "cut"} /\ call'[w].pc = call[w].pc
      /\ call'[w].path = call[w].path /\ call'[w].key = call[w].key
      /\ ~call[w].landed /\ call'[w].landed = TRUE
  BY LandEffect DEF BaoInv, BaoTypeOK
<1>2. p \in Paths /\ k \in Keys /\ call[w].method \in {"PATCH", "POST"}
      /\ secret \in [Paths -> Secret \cup {None}]
  BY <1>1 DEF CallInv, Call, BaoInv, BaoTypeOK
<1>3. a.phase \in {"open", "failed"} /\ ~a.landed /\ a.path = p /\ a.key = k
  BY <1>1, AbstractFields DEF Running
<1>4. b = [a EXCEPT !.landed = TRUE]
  <2>1. /\ a = [phase |-> a.phase, path |-> p, key |-> k, landed |-> call[w].landed]
        /\ b = [phase |-> b.phase, path |-> p, key |-> k, landed |-> TRUE]
    BY <1>1, AbstractShape
  <2>2. b.phase = a.phase
    BY <1>1, AbstractFields DEF Running
  <2> HIDE DEF a, b, p, k
  <2> QED
    BY <2>1, <2>2
<1>5. Mapped' = [Mapped EXCEPT ![w] = b] /\ Mapped[w] = a
  BY OthersUntouched, MappedStep DEF Continue
<1> HIDE DEF a, b
<1>6. Mapped' = [Mapped EXCEPT ![w].landed = TRUE]
  BY <1>4, <1>5
<1> DEFINE Kept(K) == [j \in Keys |-> IF j = k THEN w
                                      ELSE IF j \in K /\ secret[p] # None
                                           THEN secret[p][j] ELSE None]
<1>7. \E K \in SUBSET (Keys \ {k}) : secret' = [secret EXCEPT ![p] = Kept(K)]
  <2>1. CASE call[w].method = "PATCH"
    <3>1. secret[p] # None /\ secret[p] \in Secret
      BY <1>1, <1>2, <2>1 DEF Fits
    <3>2. [secret[p] EXCEPT ![k] = w] = Kept(Keys \ {k})
      BY <1>2, <3>1 DEF Secret
    <3>3. secret' = [secret EXCEPT ![p] = [secret[p] EXCEPT ![k] = w]]
      BY <1>1, <2>1 DEF Stored
    <3> HIDE DEF Kept
    <3> QED
      BY <3>2, <3>3
  <2>2. CASE call[w].method = "POST"
    <3>1. [j \in Keys |-> IF j = k THEN w ELSE None] = Kept({})
      OBVIOUS
    <3>2. secret' = [secret EXCEPT ![p] = [j \in Keys |-> IF j = k THEN w ELSE None]]
      BY <1>1, <2>2 DEF Stored
    <3> HIDE DEF Kept
    <3> QED
      BY <3>1, <3>2
  <2> QED
    BY <1>2, <2>1, <2>2
<1>8. /\ Mapped[w].path = p /\ Mapped[w].key = k /\ ~Mapped[w].landed
      /\ Mapped[w].phase \in {"open", "failed"}
  BY <1>3, <1>5
<1>9. PICK K \in SUBSET (Keys \ {k}) : secret' = [secret EXCEPT ![p] = Kept(K)]
  BY <1>7
<1>10. secret' = [secret EXCEPT ![Mapped[w].path] =
                    [j \in Keys |-> IF j = Mapped[w].key THEN w
                                    ELSE IF j \in K /\ secret[Mapped[w].path] # None
                                         THEN secret[Mapped[w].path][j] ELSE None]]
  BY <1>8, <1>9
<1>11. K \in SUBSET (Keys \ {Mapped[w].key})
  BY <1>8, <1>9
<1> QED
  BY <1>6, <1>8, <1>10, <1>11 DEF Promise!Land, Mapped

\* The call begins.
LEMMA WriteMaps ==
  ASSUME BaoInv, WriteInv, call' \in [Writers -> Call], NEW w \in Writers,
         NEW p \in Paths, NEW k \in Keys, Write(w, p, k)
  PROVE  Promise!Open(w, p, k)
<1> DEFINE a == AbstractCall(call[w])
           b == AbstractCall(call'[w])
<1>1. /\ call[w] \in Call /\ call'[w] \in Call /\ UNCHANGED secret
      /\ call[w].pc = "idle" /\ call'[w].pc = "token"
      /\ call'[w].path = p /\ call'[w].key = k /\ call'[w].landed = call[w].landed
  BY WriteEffect DEF BaoInv, BaoTypeOK
<1>2. a.phase = "idle" /\ b.phase = "open"
  BY <1>1, AbstractFields DEF Running
<1>3. b = [a EXCEPT !.phase = "open", !.path = p, !.key = k]
  <2>1. /\ a = [phase |-> a.phase, path |-> call[w].path, key |-> call[w].key,
                landed |-> call[w].landed]
        /\ b = [phase |-> b.phase, path |-> p, key |-> k, landed |-> call[w].landed]
    BY <1>1, AbstractShape
  <2> HIDE DEF a, b
  <2> DEFINE a1 == [a EXCEPT !.phase = "open"]
             a2 == [a1 EXCEPT !.path = p]
  <2>2. a1 = [phase |-> "open", path |-> call[w].path, key |-> call[w].key,
              landed |-> call[w].landed]
    BY <2>1
  <2> HIDE DEF a1
  <2>3. a2 = [phase |-> "open", path |-> p, key |-> call[w].key,
              landed |-> call[w].landed]
    BY <2>2
  <2> HIDE DEF a2
  <2>4. [a2 EXCEPT !.key = k] = b
    BY <1>2, <2>1, <2>3
  <2> QED
    BY <2>4, Zenon DEF a1, a2
<1>4. Mapped' = [Mapped EXCEPT ![w] = b] /\ Mapped[w] = a
  BY OthersUntouched, MappedStep
<1> HIDE DEF a, b
<1> QED
  BY <1>1, <1>2, <1>3, <1>4 DEF Promise!Open, Mapped

\* At a restart every open call fails.
LEMMA RestartMaps ==
  ASSUME BaoInv, WriteInv, call' \in [Writers -> Call], Restart
  PROVE  Promise!FailAll
<1>1. ASSUME NEW w \in Writers
      PROVE  AbstractCall(call'[w]) = IF AbstractCall(call[w]).phase = "open"
                                      THEN [AbstractCall(call[w]) EXCEPT !.phase = "failed"]
                                      ELSE AbstractCall(call[w])
  <2>1. /\ call[w] \in Call /\ call'[w] \in Call
        /\ call'[w].pc = IF call[w].pc \in Running THEN "cut" ELSE call[w].pc
        /\ call'[w].path = call[w].path /\ call'[w].key = call[w].key
        /\ call'[w].landed = call[w].landed
    BY RestartEffect DEF BaoInv, BaoTypeOK
  <2>2. CASE call[w].pc \in Running
    <3>1. AbstractCall(call[w]).phase = "open" /\ AbstractCall(call'[w]).phase = "failed"
      BY <2>1, <2>2, AbstractFields
    <3> QED
      BY <2>1, <3>1 DEF AbstractCall
  <2>3. CASE call[w].pc \notin Running
    <3>1. call[w].pc \in {"idle", "ok", "failed", "cut"}
      BY <2>1, <2>3 DEF Call
    <3>2. AbstractCall(call[w]).phase # "open"
      BY <2>1, <3>1, AbstractFields
    <3>3. AbstractCall(call'[w]) = AbstractCall(call[w])
      BY <2>1, <2>3 DEF AbstractCall
    <3> QED
      BY <3>2, <3>3
  <2> QED
    BY <2>2, <2>3
<1>2. UNCHANGED secret
  BY DEF Restart
<1> QED
  BY <1>1, <1>2 DEF Promise!FailAll

\* Every step of the client, of OpenBao and of time is one of the promise.
LEMMA NextMaps ==
  ASSUME BaoInv, WriteInv, BaoInv', [Next]_vars
  PROVE  [Promise!Next]_(Promise!vars)
<1>1. call' \in [Writers -> Call]
  BY DEF BaoInv, BaoTypeOK
<1>2. ASSUME NEW w \in Writers,
             \/ Step(w) \/ ServeLogin(w) \/ ServeOk(w) \/ ServeRefused(w)
             \/ LandLate(w) \/ Disconnect(w)
      PROVE  Promise!Next \/ UNCHANGED Promise!vars
  <2>1. Continue(w) \/ Finish(w) \/ ServeOk(w) \/ LandLate(w)
    BY <1>2 DEF Step, Continue, Finish
  <2>2. \/ UNCHANGED Promise!vars \/ Promise!Land(w)
        \/ Promise!Succeed(w) \/ Promise!Fail(w)
    BY <1>1, <2>1, ContinueMaps, FinishMaps, LandMaps
  <2> QED
    BY <2>2 DEF Promise!Next
<1>3. ASSUME NEW w \in Writers, NEW p \in Paths, NEW k \in Keys, Write(w, p, k)
      PROVE  Promise!Next
  BY <1>1, <1>3, WriteMaps DEF Promise!Next
<1>4. CASE Restart
  BY <1>1, <1>4, RestartMaps DEF Promise!Next
<1>5. ASSUME NEW p \in Paths, NEW k \in Keys, CreateSecret(p, k)
      PROVE  Promise!Others
  <2>1. [j \in Keys |-> IF j = k THEN Other ELSE None] \in [Keys -> {None, Other}]
    OBVIOUS
  <2> QED
    BY <1>5, <2>1 DEF CreateSecret, Promise!Others
<1>6. ASSUME NEW p \in Paths, DestroySecret(p) PROVE Promise!Others
  <2>1. ASSUME NEW w \in Writers PROVE AbstractCall(call'[w]) = AbstractCall(call[w])
    BY <1>6, DestroyEffect DEF AbstractCall
  <2> QED
    BY <1>6, <2>1 DEF DestroySecret, Promise!Others
<1>7. CASE Tick \/ UNCHANGED vars \/ \E n \in 1..Len(tokens) : Revoke(n)
  BY <1>7 DEF Tick, vars, Revoke, Promise!vars
<1> QED
  BY <1>2, <1>3, <1>4, <1>5, <1>6, <1>7 DEF Next, Promise!Next

\* The client keeps the promise of TargetWriter::write on which Rotation relies:
\* the value lands in one step, at most once, before the caller is told Ok, and
\* nobody else's secret is touched (targets/mod.rs and openbao.rs).
THEOREM WriterKeepsPromise == Spec => PromiseSpec
<1>1. Init => Promise!Init
  <2>1. AbstractCall(IdleCall) = [phase |-> "idle", path |-> None, key |-> None,
                                  landed |-> FALSE]
    <3>1. AbstractCall(IdleCall).phase = "idle"
      BY IdleCallType, AbstractFields DEF IdleCall
    <3>2. /\ IdleCall.path = None /\ IdleCall.key = None
          /\ IdleCall.landed = FALSE
      BY DEF IdleCall
    <3> QED
      BY <3>1, <3>2, AbstractShape
  <2> QED
    BY <2>1 DEF Init, Promise!Init
<1>2. BaoInv /\ WriteInv /\ (BaoInv /\ WriteInv)' /\ [Next]_vars
        => [Promise!Next]_(Promise!vars)
  BY NextMaps
<1> QED
  BY <1>1, <1>2, WriteInvariant, PTL DEF Spec, PromiseSpec, Promise!Spec

-----------------------------------------------------------------------------
(***************************************************************************)
(* Time.  The client computes the expiry of a token from the moment it has *)
(* the answer to its login, at most TIMEOUT after the token was issued,    *)
(* and a request lasts at most TIMEOUT from the moment its token was       *)
(* chosen.  The margin has to make up for both.                            *)
(***************************************************************************)
\* The token has been issued.
Issued(n) == n \in 1..Len(tokens)

\* Nobody waits longer than TIMEOUT.
WaitInv(c) == c.pc \in Waiting => c.sent <= clock /\ clock <= c.sent + TIMEOUT

\* The computed expiry is late by at most TIMEOUT.
CacheTimes ==
  cached # None =>
    /\ Issued(cached.tok) /\ cached.expires # None
    /\ cached.expires <= tokens[cached.tok].at + LEASE + TIMEOUT

\* A token was issued after its login was sent; a request is sent with a token
\* that has just come, or one that the client believes to last for the margin.
CallTimes(c) ==
  /\ c.pc = "login" /\ c.answer = "ok" => Issued(c.tok) /\ c.sent <= tokens[c.tok].at
  /\ c.pc = "request" =>
       /\ Issued(c.tok)
       /\ \/ c.sent <= tokens[c.tok].at + TIMEOUT
          \/ c.sent + TOKEN_MARGIN < tokens[c.tok].at + LEASE + TIMEOUT

TimeInv ==
  /\ \A n \in 1..Len(tokens) : tokens[n].at <= clock
  /\ \A w \in Writers : WaitInv(call[w])
  /\ Leased => CacheTimes /\ \A w \in Writers : CallTimes(call[w])

\* The invariant gives the property, if the margin covers two timeouts and a
\* lease outlasts them.
LEMMA TimesSuffice ==
  ASSUME BaoInv, TimeInv, TOKEN_MARGIN >= 2 * TIMEOUT, LEASE = 0 \/ LEASE > 2 * TIMEOUT
  PROVE  LeaseHolds
<1> SUFFICES ASSUME NEW w \in Writers, call[w].pc = "request", Leased
             PROVE  clock < tokens[call[w].tok].at + LEASE
  BY DEF LeaseHolds
<1> DEFINE t == tokens[call[w].tok].at
           s == call[w].sent
<1>1. /\ Issued(call[w].tok) /\ s <= clock /\ clock <= s + TIMEOUT
      /\ s <= t + TIMEOUT \/ s + TOKEN_MARGIN < t + LEASE + TIMEOUT
  BY DEF TimeInv, CallTimes, WaitInv, Waiting
<1>2. t \in Nat /\ s \in Nat /\ clock \in Nat
  <2>1. tokens \in Seq(Token) /\ call[w] \in Call /\ clock \in Nat
    BY DEF BaoInv, BaoTypeOK
  <2>2. tokens[call[w].tok] \in Token
    BY <1>1, <2>1, ElementOfSeq DEF Issued
  <2> QED
    BY <2>1, <2>2 DEF Token, Call
<1>3. LEASE > 2 * TIMEOUT /\ LEASE \in Nat /\ TIMEOUT \in Nat /\ TOKEN_MARGIN \in Nat
  BY TimesAssumption DEF Leased
<1> HIDE DEF t, s
<1>4. clock < t + LEASE
  BY <1>1, <1>2, <1>3
<1> QED
  BY <1>4 DEF t

\* The invariant holds initially.
LEMMA TimeInit == ASSUME Init PROVE TimeInv
<1>1. \A w \in Writers : call[w].pc = "idle"
  BY DEF Init, IdleCall
<1>2. \A n \in 1..Len(tokens) : tokens[n].at <= clock
  <2>1. CASE auth = "Kubernetes"
    BY <2>1 DEF Init
  <2>2. CASE auth # "Kubernetes"
    <3>1. Len(tokens) = 1 /\ tokens[1].at = clock /\ clock = 0
      BY <2>2 DEF Init, FreshToken
    <3> QED
      BY <3>1
  <2> QED
    BY <2>1, <2>2
<1> QED
  BY <1>1, <1>2 DEF TimeInv, WaitInv, Waiting, CacheTimes, CallTimes, Init

\* A step of one write: the tokens and the clock stay, and so do the others.
LEMMA LocalTime ==
  ASSUME BaoInv, TimeInv, UNCHANGED <<auth, tokens, clock>>, NEW w \in Writers,
         \A v \in Writers \ {w} : call'[v] = call[v],
         WaitInv(call[w])', Leased => CacheTimes' /\ CallTimes(call[w])'
  PROVE  TimeInv'
<1>1. ASSUME NEW v \in Writers PROVE WaitInv(call[v])' /\ (Leased => CallTimes(call[v])')
  <2>1. CASE v = w
    BY <2>1
  <2>2. CASE v # w
    <3>1. call'[v] = call[v] /\ WaitInv(call[v]) /\ (Leased => CallTimes(call[v]))
      BY <2>2 DEF TimeInv
    <3> QED
      BY <3>1 DEF WaitInv, CallTimes, Issued
  <2> QED
    BY <2>1, <2>2
<1>2. Leased' = Leased
  BY DEF Leased
<1> QED
  BY <1>1, <1>2 DEF TimeInv

\* A request is sent now.
LEMMA SendingTimes ==
  ASSUME BaoInv, NEW w \in Writers, NEW n, call'[w] = Sending(call[w], n),
         UNCHANGED <<tokens, clock>>,
         Leased => /\ Issued(n)
                   /\ \/ clock <= tokens[n].at + TIMEOUT
                      \/ clock + TOKEN_MARGIN < tokens[n].at + LEASE + TIMEOUT
  PROVE  WaitInv(call[w])' /\ (Leased => CallTimes(call[w])')
<1>1. /\ call'[w].pc = "request" /\ call'[w].tok = n /\ call'[w].sent = clock
      /\ clock \in Nat
  BY DEF Sending, Call, BaoInv, BaoTypeOK
<1> QED
  BY <1>1, TimesAssumption DEF WaitInv, CallTimes, Issued

LEMMA UseCachedKeepsTime ==
  ASSUME BaoInv, TimeInv, NEW w \in Writers, UseCached(w)
  PROVE  TimeInv'
<1>1. /\ call \in [Writers -> Call] /\ clock \in Nat /\ cached \in CachedToken
      /\ tokens \in Seq(Token)
      /\ call' = [call EXCEPT ![w] = Sending(@, cached.tok)] /\ Usable
      /\ UNCHANGED <<auth, cached, lock, tokens, secret, clock>>
  BY DEF BaoInv, BaoTypeOK, UseCached, Usable
<1>2. Leased => /\ CacheTimes /\ Issued(cached.tok)
                /\ clock + TOKEN_MARGIN < tokens[cached.tok].at + LEASE + TIMEOUT
  <2> SUFFICES ASSUME Leased
               PROVE  /\ CacheTimes /\ Issued(cached.tok)
                      /\ clock + TOKEN_MARGIN < tokens[cached.tok].at + LEASE + TIMEOUT
    OBVIOUS
  <2>1. /\ CacheTimes /\ Issued(cached.tok) /\ clock + TOKEN_MARGIN < cached.expires
        /\ cached.expires <= tokens[cached.tok].at + LEASE + TIMEOUT
        /\ cached.expires # None
    BY <1>1 DEF TimeInv, CacheTimes, Usable
  <2>2. cached.expires \in Nat
    BY <1>1, <2>1 DEF CachedToken
  <2>3. tokens[cached.tok].at \in Nat
    <3>1. tokens[cached.tok] \in Token
      BY <1>1, <2>1, ElementOfSeq DEF Issued
    <3> QED
      BY <3>1 DEF Token
  <2> DEFINE e == cached.expires
             t == tokens[cached.tok].at
  <2>4. e \in Nat /\ t \in Nat /\ clock + TOKEN_MARGIN < e /\ e <= t + LEASE + TIMEOUT
    BY <2>1, <2>2, <2>3
  <2> HIDE DEF e, t
  <2>5. clock + TOKEN_MARGIN < t + LEASE + TIMEOUT
    BY <1>1, <2>4, TimesAssumption
  <2> QED
    BY <2>1, <2>5 DEF t
<1>3. call'[w] = Sending(call[w], cached.tok) /\ \A v \in Writers \ {w} : call'[v] = call[v]
  BY <1>1
<1>4. WaitInv(call[w])' /\ (Leased => CallTimes(call[w])')
  BY <1>1, <1>2, <1>3, SendingTimes
<1>5. Leased => CacheTimes'
  BY <1>1, <1>2 DEF CacheTimes, Issued
<1> QED
  BY <1>1, <1>3, <1>4, <1>5, LocalTime

LEMMA LoginKeepsTime ==
  ASSUME BaoInv, TimeInv, NEW w \in Writers, Login(w)
  PROVE  TimeInv'
<1>1. /\ call \in [Writers -> Call] /\ clock \in Nat
      /\ call' = [call EXCEPT ![w].pc = "login", ![w].sent = clock, ![w].answer = "none"]
      /\ UNCHANGED <<auth, cached, tokens, secret, clock>>
  BY DEF BaoInv, BaoTypeOK, Login
<1>2. /\ call'[w].pc = "login" /\ call'[w].sent = clock /\ call'[w].answer = "none"
      /\ \A v \in Writers \ {w} : call'[v] = call[v]
  BY <1>1 DEF Call
<1>3. WaitInv(call[w])' /\ CallTimes(call[w])'
  BY <1>1, <1>2, TimesAssumption DEF WaitInv, CallTimes
<1>4. Leased => CacheTimes'
  BY <1>1 DEF TimeInv, CacheTimes, Issued
<1> QED
  BY <1>1, <1>2, <1>3, <1>4, LocalTime

\* The tokens that there were are still there, as old as before.
LEMMA OldTokens ==
  ASSUME BaoInv, NEW t \in Token, tokens' = Append(tokens, t)
  PROVE  /\ \A n : Issued(n) => n \in 1..Len(tokens') /\ tokens'[n] = tokens[n]
         /\ Len(tokens) + 1 \in 1..Len(tokens') /\ tokens'[Len(tokens) + 1] = t
         /\ \A n \in 1..Len(tokens') : Issued(n) \/ n = Len(tokens) + 1
<1>1. tokens \in Seq(Token) /\ Len(tokens) \in Nat
  BY DEF BaoInv, BaoTypeOK
<1>2. Len(tokens') = Len(tokens) + 1
  BY <1>1
<1>3. \A n \in 1..Len(tokens) : tokens'[n] = tokens[n]
  BY <1>1, AppendProperties
<1>4. tokens'[Len(tokens) + 1] = t
  BY <1>1, AppendProperties
<1>5. /\ \A n \in 1..Len(tokens) : n \in 1..Len(tokens')
      /\ Len(tokens) + 1 \in 1..Len(tokens')
      /\ \A n \in 1..Len(tokens') : n \in 1..Len(tokens) \/ n = Len(tokens) + 1
  BY <1>1, <1>2
<1> QED
  BY <1>3, <1>4, <1>5 DEF Issued

LEMMA ServeLoginKeepsTime ==
  ASSUME BaoInv, TimeInv, NEW w \in Writers, ServeLogin(w)
  PROVE  TimeInv'
<1>1. /\ call \in [Writers -> Call] /\ call[w] \in Call /\ clock \in Nat
      /\ tokens \in Seq(Token) /\ call[w].pc = "login" /\ call[w].answer = "none"
      /\ UNCHANGED <<auth, cached, lock, secret, clock>>
  BY DEF BaoInv, BaoTypeOK, ServeLogin
<1>2. CASE /\ tokens' = Append(tokens, FreshToken)
           /\ call' = [call EXCEPT ![w].answer = "ok", ![w].tok = Len(tokens) + 1]
  <2>1. FreshToken \in Token /\ FreshToken.at = clock /\ Len(tokens) \in Nat
    BY <1>1 DEF FreshToken, Token
  <2>2. /\ \A n : Issued(n) => n \in 1..Len(tokens') /\ tokens'[n] = tokens[n]
        /\ Len(tokens) + 1 \in 1..Len(tokens') /\ tokens'[Len(tokens) + 1].at = clock
        /\ \A n \in 1..Len(tokens') : Issued(n) \/ n = Len(tokens) + 1
    BY <1>2, <2>1, OldTokens
  <2>3. \A n \in 1..Len(tokens') : tokens'[n].at <= clock'
    <3> SUFFICES ASSUME NEW n \in 1..Len(tokens') PROVE tokens'[n].at <= clock
      BY <1>1
    <3>1. Issued(n) => tokens[n].at <= clock
      BY DEF TimeInv, Issued
    <3> QED
      BY <1>1, <2>2, <3>1
  <2>4. /\ call'[w].pc = "login" /\ call'[w].sent = call[w].sent
        /\ call'[w].tok = Len(tokens) + 1
        /\ \A v \in Writers \ {w} : call'[v] = call[v]
    BY <1>1, <1>2 DEF Call
  <2>5. ASSUME NEW v \in Writers PROVE WaitInv(call[v])'
    <3>1. call'[v].pc = call[v].pc /\ call'[v].sent = call[v].sent /\ WaitInv(call[v])
      BY <1>1, <2>4 DEF TimeInv
    <3> QED
      BY <1>1, <3>1 DEF WaitInv
  <2>6. Leased => CacheTimes'
    <3>1. Leased => CacheTimes /\ (cached # None => Issued(cached.tok))
      BY DEF TimeInv, CacheTimes
    <3>2. cached # None /\ Leased => /\ cached.tok \in 1..Len(tokens')
                                     /\ tokens'[cached.tok] = tokens[cached.tok]
      BY <2>2, <3>1
    <3> QED
      BY <1>1, <3>1, <3>2 DEF CacheTimes, Issued
  <2>7. ASSUME NEW v \in Writers, Leased PROVE CallTimes(call[v])'
    <3>1. CASE v = w
      <4>1. call[w].sent <= clock
        BY <1>1 DEF TimeInv, WaitInv, Waiting
      <4> QED
        BY <2>2, <2>4, <3>1, <4>1 DEF CallTimes, Issued
    <3>2. CASE v # w
      <4>1. call'[v] = call[v] /\ CallTimes(call[v])
        BY <2>4, <2>7, <3>2 DEF TimeInv
      <4>2. Issued(call[v].tok) => /\ call[v].tok \in 1..Len(tokens')
                                   /\ tokens'[call[v].tok] = tokens[call[v].tok]
        BY <2>2
      <4> QED
        BY <4>1, <4>2 DEF CallTimes, Issued
    <3> QED
      BY <3>1, <3>2
  <2>8. Leased' = Leased
    BY <1>1 DEF Leased
  <2> QED
    BY <2>3, <2>5, <2>6, <2>7, <2>8 DEF TimeInv
<1>3. CASE call' = [call EXCEPT ![w].answer = "error"] /\ UNCHANGED tokens
  <2>1. /\ call'[w].pc = "login" /\ call'[w].sent = call[w].sent
        /\ call'[w].answer = "error" /\ \A v \in Writers \ {w} : call'[v] = call[v]
    BY <1>1, <1>3 DEF Call
  <2>2. WaitInv(call[w])' /\ CallTimes(call[w])'
    BY <1>1, <2>1 DEF TimeInv, WaitInv, CallTimes
  <2>3. Leased => CacheTimes'
    BY <1>1, <1>3 DEF TimeInv, CacheTimes, Issued
  <2> QED
    BY <1>1, <1>3, <2>1, <2>2, <2>3, LocalTime
<1> QED
  BY <1>2, <1>3 DEF ServeLogin

\* The answer has come within TIMEOUT of the login, so of the token.
LEMMA LoginOkKeepsTime ==
  ASSUME BaoInv, TimeInv, NEW w \in Writers, LoginOk(w)
  PROVE  TimeInv'
<1>1. /\ call \in [Writers -> Call] /\ call[w] \in Call /\ clock \in Nat
      /\ tokens \in Seq(Token) /\ call[w].pc = "login" /\ call[w].answer = "ok"
      /\ UNCHANGED <<auth, tokens, secret, clock>>
      /\ call' = [call EXCEPT ![w] = Sending(@, @.tok)]
      /\ cached' = [tok |-> call[w].tok,
                    expires |-> IF LEASE > 0 THEN clock + LEASE ELSE None]
  BY DEF BaoInv, BaoTypeOK, LoginOk
<1>2. ASSUME Leased
      PROVE  /\ Issued(call[w].tok) /\ clock <= tokens[call[w].tok].at + TIMEOUT
             /\ tokens[call[w].tok].at \in Nat
  <2>1. /\ Issued(call[w].tok) /\ call[w].sent <= tokens[call[w].tok].at
        /\ clock <= call[w].sent + TIMEOUT
    BY <1>1, <1>2 DEF TimeInv, CallTimes, WaitInv, Waiting
  <2>2. tokens[call[w].tok].at \in Nat
    <3>1. tokens[call[w].tok] \in Token
      BY <1>1, <2>1, ElementOfSeq DEF Issued
    <3> QED
      BY <3>1 DEF Token
  <2>3. call[w].sent \in Nat
    BY <1>1 DEF Call
  <2> QED
    BY <1>1, <2>1, <2>2, <2>3, TimesAssumption
<1>3. /\ call'[w] = Sending(call[w], call[w].tok)
      /\ \A v \in Writers \ {w} : call'[v] = call[v]
  BY <1>1
<1>4. WaitInv(call[w])' /\ (Leased => CallTimes(call[w])')
  BY <1>1, <1>2, <1>3, SendingTimes
<1>5. Leased => CacheTimes'
  <2> SUFFICES ASSUME Leased PROVE CacheTimes'
    OBVIOUS
  <2>1. cached'.tok = call[w].tok /\ cached'.expires = clock + LEASE
    BY <1>1 DEF Leased
  <2>2. clock + LEASE <= tokens[call[w].tok].at + LEASE + TIMEOUT
    BY <1>1, <1>2, TimesAssumption
  <2>3. clock + LEASE # None
    <3>1. clock + LEASE \in Nat
      BY <1>1, TimesAssumption
    <3> QED
      BY <3>1, ValuesAssumption
  <2> QED
    BY <1>1, <1>2, <2>1, <2>2, <2>3 DEF CacheTimes, Issued
<1> QED
  BY <1>1, <1>3, <1>4, <1>5, LocalTime

LEMMA ReadTokenFileKeepsTime ==
  ASSUME BaoInv, TimeInv, NEW w \in Writers, ReadTokenFile(w)
  PROVE  TimeInv'
<1>1. /\ call \in [Writers -> Call] /\ auth = "TokenFile"
      /\ UNCHANGED <<auth, lock, tokens, secret, clock>>
      /\ call' = [call EXCEPT ![w] = Sending(@, Len(tokens))]
  BY DEF BaoInv, BaoTypeOK, ReadTokenFile
<1>2. /\ ~Leased /\ call'[w] = Sending(call[w], Len(tokens))
      /\ \A v \in Writers \ {w} : call'[v] = call[v]
  BY <1>1 DEF Leased
<1>3. WaitInv(call[w])'
  BY <1>1, <1>2, SendingTimes
<1> QED
  BY <1>1, <1>2, <1>3, LocalTime

\* A write that keeps its request, with the token and the moment it was sent, or
\* waits for nothing, is in time.
LEMMA QuietTime ==
  ASSUME BaoInv, TimeInv, NEW w \in Writers,
         UNCHANGED <<auth, tokens, clock>>, cached' \in {cached, None},
         \A v \in Writers \ {w} : call'[v] = call[v],
         \/ call'[w].pc \notin Waiting
         \/ /\ call'[w].pc = "request" /\ call[w].pc = "request"
            /\ call'[w].tok = call[w].tok /\ call'[w].sent = call[w].sent
  PROVE  TimeInv'
<1>1. WaitInv(call[w])'
  BY DEF TimeInv, WaitInv, Waiting
<1>2. Leased => CacheTimes' /\ CallTimes(call[w])'
  BY DEF TimeInv, CacheTimes, CallTimes, Issued, Waiting
<1> QED
  BY <1>1, <1>2, LocalTime

\* The other steps of a write.
LEMMA WriterKeepsTime ==
  ASSUME BaoInv, WriteInv, TimeInv, NEW w \in Writers,
         \/ Continue(w) \/ Finish(w) \/ ServeOk(w) \/ LandLate(w)
         \/ \E p \in Paths, k \in Keys : Write(w, p, k)
  PROVE  TimeInv'
<1>1. /\ call \in [Writers -> Call] /\ call[w] \in Call
      /\ \A v \in Writers \ {w} : call'[v] = call[v]
  BY OthersUntouched DEF BaoInv, BaoTypeOK
<1>2. CASE \/ UseCached(w) \/ Login(w) \/ ServeLogin(w) \/ LoginOk(w)
           \/ ReadTokenFile(w)
  BY <1>2, UseCachedKeepsTime, LoginKeepsTime, ServeLoginKeepsTime,
     LoginOkKeepsTime, ReadTokenFileKeepsTime
<1>3. CASE Invalidate(w)
  BY <1>1, <1>3, QuietTime DEF Invalidate, Call, Waiting
<1>4. CASE AnsweredMissing(w)
  BY <1>1, <1>4, QuietTime DEF AnsweredMissing, Call, Waiting
<1>5. CASE AnsweredForbidden(w) /\ call'[w].pc = "invalidate"
  BY <1>1, <1>5, QuietTime DEF AnsweredForbidden, Waiting
<1>6. CASE ServeRefused(w) \/ ServeOk(w)
  BY <1>1, <1>6, QuietTime DEF ServeRefused, ServeOk, Call
<1>7. CASE LandLate(w)
  <2>1. call[w].late /\ call'[w].pc = call[w].pc
    BY <1>1, <1>7 DEF LandLate, Call
  <2>2. call'[w].pc \notin Waiting
    BY <2>1 DEF WriteInv, OutcomeInv, Waiting
  <2> QED
    BY <1>1, <1>7, <2>2, QuietTime DEF LandLate
<1>8. CASE Finish(w)
  <2>1. call'[w].pc \notin Waiting
    BY <1>8, FinishEffect DEF Waiting
  <2>2. UNCHANGED <<auth, cached, tokens, clock>>
    BY <1>8 DEF Finish, LoginFailed, ReadFailed, AnsweredOk, AnsweredError, TimedOut,
       Disconnect, AnsweredForbidden
  <2> QED
    BY <1>1, <2>1, <2>2, QuietTime
<1>9. CASE \E p \in Paths, k \in Keys : Write(w, p, k)
  <2>1. call'[w].pc \notin Waiting
    BY <1>9, WriteEffect DEF Waiting
  <2>2. UNCHANGED <<auth, cached, tokens, clock>>
    BY <1>9 DEF Write
  <2> QED
    BY <1>1, <2>1, <2>2, QuietTime
<1> QED
  BY <1>2, <1>3, <1>4, <1>5, <1>6, <1>7, <1>8, <1>9 DEF Continue

\* A revoked token is as old as it was.
LEMMA RevokeKeepsTime ==
  ASSUME BaoInv, TimeInv, NEW n \in 1..Len(tokens), Revoke(n)
  PROVE  TimeInv'
<1>1. /\ tokens \in Seq(Token) /\ UNCHANGED <<auth, call, cached, lock, secret, clock>>
      /\ tokens' = [tokens EXCEPT ![n].revoked = TRUE]
  BY DEF BaoInv, BaoTypeOK, Revoke
<1>2. tokens[n] \in Token
  BY <1>1, ElementOfSeq
<1> DEFINE t == [tokens[n] EXCEPT !.revoked = TRUE]
<1>3. t \in Token /\ t.at = tokens[n].at
  BY <1>2 DEF Token
<1>4. tokens' = [tokens EXCEPT ![n] = t]
  BY <1>1
<1> HIDE DEF t
<1>5. Len(tokens') = Len(tokens) /\ \A m \in 1..Len(tokens) : tokens'[m].at = tokens[m].at
  BY <1>1, <1>3, <1>4, ExceptSeq
<1> QED
  BY <1>1, <1>5 DEF TimeInv, WaitInv, CacheTimes, CallTimes, Issued, Leased

\* Time does not pass while it would make somebody wait too long.
LEMMA TickKeepsTime ==
  ASSUME BaoInv, TimeInv, Tick
  PROVE  TimeInv'
<1>1. /\ clock \in Nat /\ clock' = clock + 1 /\ call \in [Writers -> Call]
      /\ tokens \in Seq(Token)
      /\ UNCHANGED <<auth, call, cached, lock, tokens, secret>>
      /\ \A w \in Writers : call[w].pc \in Waiting => clock < call[w].sent + TIMEOUT
  BY DEF BaoInv, BaoTypeOK, Tick
<1>2. ASSUME NEW n \in 1..Len(tokens) PROVE tokens[n].at <= clock + 1
  <2>1. tokens[n].at \in Nat /\ tokens[n].at <= clock
    <3>1. tokens[n] \in Token
      BY <1>1, ElementOfSeq
    <3> QED
      BY <3>1 DEF Token, TimeInv
  <2> QED
    BY <1>1, <2>1
<1>3. ASSUME NEW w \in Writers PROVE WaitInv(call[w])'
  <2>1. call[w].sent \in Nat /\ WaitInv(call[w])
    BY <1>1 DEF Call, TimeInv
  <2> QED
    BY <1>1, <2>1, TimesAssumption DEF WaitInv
<1> QED
  BY <1>1, <1>2, <1>3 DEF TimeInv, CacheTimes, CallTimes, Issued, Leased

\* Every step keeps the invariant.
LEMMA NextKeepsTime ==
  ASSUME BaoInv, WriteInv, TimeInv, [Next]_vars PROVE TimeInv'
<1>1. ASSUME NEW w \in Writers,
             \/ Step(w) \/ ServeLogin(w) \/ ServeOk(w) \/ ServeRefused(w)
             \/ LandLate(w) \/ Disconnect(w)
             \/ \E p \in Paths, k \in Keys : Write(w, p, k)
      PROVE  TimeInv'
  BY <1>1, WriterKeepsTime DEF Step, Continue, Finish
<1>2. CASE Restart
  <2>1. ASSUME NEW w \in Writers PROVE call'[w].pc \notin Waiting
    <3>1. call[w] \in Call
      BY DEF BaoInv, BaoTypeOK
    <3> QED
      BY <1>2, <3>1, RestartEffect DEF Running, Waiting
  <2>2. UNCHANGED <<auth, tokens, clock>> /\ cached' = None
    BY <1>2 DEF Restart
  <2> QED
    BY <2>1, <2>2 DEF TimeInv, WaitInv, CacheTimes, CallTimes, Waiting
<1>3. ASSUME NEW p \in Paths, DestroySecret(p) PROVE TimeInv'
  <2>1. ASSUME NEW w \in Writers
        PROVE  /\ call'[w].pc = call[w].pc /\ call'[w].tok = call[w].tok
               /\ call'[w].sent = call[w].sent /\ call'[w].answer = call[w].answer
    BY <1>3 DEF DestroySecret, BaoInv, BaoTypeOK, Call
  <2>2. UNCHANGED <<auth, cached, tokens, clock>>
    BY <1>3 DEF DestroySecret
  <2> QED
    BY <2>1, <2>2 DEF TimeInv, WaitInv, CacheTimes, CallTimes, Issued, Leased
<1>4. CASE UNCHANGED vars \/ \E p \in Paths, k \in Keys : CreateSecret(p, k)
  <2>1. UNCHANGED <<auth, call, cached, tokens, clock>>
    BY <1>4 DEF vars, CreateSecret
  <2> QED
    BY <2>1 DEF TimeInv, WaitInv, CacheTimes, CallTimes, Issued, Leased
<1>5. CASE Tick \/ \E n \in 1..Len(tokens) : Revoke(n)
  BY <1>5, TickKeepsTime, RevokeKeepsTime
<1> QED
  BY <1>1, <1>2, <1>3, <1>4, <1>5 DEF Next

\* Two things have to be so: the margin covers two timeouts (30 s and 10 s in
\* openbao.rs), and OpenBao's lease is longer than two timeouts.  Then no request
\* that is executed in time carries a token whose lease has run out.
THEOREM MarginSuffices ==
  ASSUME TOKEN_MARGIN >= 2 * TIMEOUT, LEASE = 0 \/ LEASE > 2 * TIMEOUT
  PROVE  Spec => []LeaseHolds
<1>1. Init => BaoInv /\ WriteInv /\ TimeInv
  BY BaoInitInv, WriteInit, TimeInit
<1>2. BaoInv /\ WriteInv /\ TimeInv /\ [Next]_vars => (BaoInv /\ WriteInv /\ TimeInv)'
  BY NextKeepsInv, NextKeepsWrite, NextKeepsTime
<1>3. BaoInv /\ WriteInv /\ TimeInv => LeaseHolds
  BY TimesSuffice
<1> QED
  BY <1>1, <1>2, <1>3, PTL DEF Spec
=============================================================================
