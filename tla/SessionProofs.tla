----------------------------- MODULE SessionProofs -----------------------------
(***************************************************************************)
(* Proofs about logging in and being admitted, for any number of tabs,     *)
(* users, logins and restarts, and any times.                              *)
(*                                                                         *)
(* The cookies carry what they were made from, so the invariant says it of *)
(* every session (SessionOK) and of every request under way (TabOK), by    *)
(* the numbers of the login and of the code it stands on.  Nothing of what *)
(* it says of a session changes later: logins, codes and sessions only     *)
(* become more (Grows), so a step has to be looked at only for what it     *)
(* adds and for the tab it moves.                                          *)
(***************************************************************************)
EXTENDS Session, SequenceTheorems, TLAPS

CodeOK(c) == c \in Code /\ c.login \in 1 .. Len(logins)

Claim(c) == IF idp = None THEN None ELSE c.real + idp

SessionOK(s) ==
  /\ s \in SessionState
  /\ s.code \in 1 .. Len(codes) /\ s.login \in 1 .. Len(logins)
  /\ s.admin = codes[s.code].admin
  /\ s.auth_time = Claim(codes[s.code])
  /\ s.exp <= logins[s.login].started + LOGIN_TTL_SECS + SESSION_TTL
  /\ logins[s.login].reauth =>
       /\ s.auth_time # None
       /\ s.auth_time >= logins[s.login].started - CLOCK_SKEW_SECS
       /\ s.auth_time <= now + CLOCK_SKEW_SECS

\* The request of a session that was recent enough to record.
Fresh(r) ==
  STEP_UP # None =>
    /\ sessions[r.session].auth_time # None
    /\ r.at - sessions[r.session].auth_time <= STEP_UP + CLOCK_SKEW_SECS

TabOK(r) ==
  /\ r \in Tab
  /\ r.login \in 0 .. Len(logins) /\ r.code \in 0 .. Len(codes)
  /\ r.session \in 0 .. Len(sessions) /\ r.shown \in 0 .. Len(sessions)
  /\ r.pc = "idp" => r.login # 0
  /\ r.pc = "answer" => r.session # 0
  /\ r.pc = "exchange" =>
       /\ r.login # 0 /\ r.code # 0 /\ r.at <= now
       /\ r.at <= logins[r.login].started + LOGIN_TTL_SECS
  /\ r.pc = "body" =>
       /\ r.session # 0 /\ sessions[r.session].admin
       /\ r.at < sessions[r.session].exp
  /\ r.pc \in {"record", "rotate"} => r.session # 0 /\ r.session = r.shown
  /\ r.pc = "record" => Fresh(r)

\* Only a callback that succeeded takes the newest login out of the jar.
JarOK == /\ jar \in [login : 0 .. Len(logins), session : 0 .. Len(sessions)]
         /\ jar.login = Len(logins) \/ sessions # <<>>

RestTypeOK ==
  /\ idp \in Offsets \cup {None}
  /\ now \in Nat /\ key \in Nat
  /\ logins \in Seq(LoginState) /\ codes \in Seq(Code) /\ sessions \in Seq(SessionState)
  /\ sso \in [user : Users, at : Int] \cup {None}
  /\ DOMAIN tab = Tabs /\ tab = [t \in Tabs |-> tab[t]]

SessInv ==
  /\ RestTypeOK /\ JarOK
  /\ \A c \in 1 .. Len(codes) : CodeOK(codes[c])
  /\ \A s \in 1 .. Len(sessions) : SessionOK(sessions[s])
  /\ \A t \in Tabs : TabOK(tab[t])

-----------------------------------------------------------------------------
\* Logins, codes and sessions are never taken back, and a code keeps what it says.
Grows ==
  /\ idp' = idp /\ now' \in Nat /\ now <= now'
  /\ Len(logins) <= Len(logins')
  /\ \A l \in 1 .. Len(logins) : logins'[l] = logins[l]
  /\ Len(codes) <= Len(codes')
  /\ \A c \in 1 .. Len(codes) :
       /\ codes'[c].login = codes[c].login
       /\ codes'[c].admin = codes[c].admin
       /\ codes'[c].real = codes[c].real
  /\ Len(sessions) <= Len(sessions')
  /\ \A s \in 1 .. Len(sessions) : sessions'[s] = sessions[s]

\* How many there are is a number.
LEMMA Lengths ==
  ASSUME RestTypeOK
  PROVE  /\ Len(logins) \in Nat /\ Len(codes) \in Nat /\ Len(sessions) \in Nat
         /\ \A l \in 1 .. Len(logins) : logins[l] \in LoginState
         /\ \A c \in 1 .. Len(codes) : codes[c] \in Code
         /\ \A s \in 1 .. Len(sessions) : sessions[s] \in SessionState
BY LenProperties, ElementOfSeq DEF RestTypeOK

\* What is true of a code stays true as they grow.
LEMMA CodesKeep ==
  ASSUME SessInv, RestTypeOK', Grows, NEW c \in 1 .. Len(codes)
  PROVE  CodeOK(codes[c])'
<1>1. /\ Len(logins) \in Nat /\ Len(codes) \in Nat
      /\ Len(logins') \in Nat /\ Len(codes') \in Nat
      /\ \A d \in 1 .. Len(codes') : codes'[d] \in Code
  BY Lengths DEF SessInv, RestTypeOK
<1>2. codes'[c] \in Code
  BY <1>1 DEF Grows
<1>3. codes[c].login \in 1 .. Len(logins)
  BY DEF SessInv, CodeOK
<1>4. codes'[c].login \in 1 .. Len(logins')
  BY <1>1, <1>3 DEF Grows
<1> QED
  BY <1>2, <1>4 DEF CodeOK

\* What is true of a session stays true as they grow.
LEMMA SessionsKeep ==
  ASSUME SessInv, RestTypeOK', Grows, NEW s \in 1 .. Len(sessions)
  PROVE  SessionOK(sessions[s])'
<1> DEFINE x == sessions[s]
<1>1. /\ Len(logins) \in Nat /\ Len(codes) \in Nat
      /\ Len(logins') \in Nat /\ Len(codes') \in Nat
      /\ now \in Nat
  BY Lengths DEF SessInv, RestTypeOK
<1>2. SessionOK(x) /\ sessions'[s] = x
  BY DEF SessInv, Grows
<1> HIDE DEF x
<1>3. /\ x \in SessionState
      /\ x.code \in 1 .. Len(codes) /\ x.login \in 1 .. Len(logins)
      /\ x.code \in 1 .. Len(codes') /\ x.login \in 1 .. Len(logins')
      /\ logins'[x.login] = logins[x.login]
      /\ codes'[x.code].admin = codes[x.code].admin
      /\ codes'[x.code].real = codes[x.code].real
  <2>1. /\ x \in SessionState
        /\ x.code \in 1 .. Len(codes) /\ x.login \in 1 .. Len(logins)
    BY <1>2 DEF SessionOK
  <2>2. x.code \in 1 .. Len(codes') /\ x.login \in 1 .. Len(logins')
    BY <1>1, <2>1 DEF Grows
  <2> QED
    BY <2>1, <2>2 DEF Grows
<1>4. x.auth_time = IF idp' = None THEN None ELSE codes'[x.code].real + idp'
  BY <1>2, <1>3 DEF SessionOK, Claim, Grows
<1>5. logins[x.login].reauth => x.auth_time <= now' + CLOCK_SKEW_SECS
  <2>1. SUFFICES ASSUME logins[x.login].reauth
                 PROVE  x.auth_time <= now' + CLOCK_SKEW_SECS
    OBVIOUS
  <2>2. x.auth_time # None /\ x.auth_time <= now + CLOCK_SKEW_SECS
    BY <1>2, <2>1 DEF SessionOK
  <2>3. x.auth_time \in Int /\ now' \in Nat /\ now <= now'
    BY <1>3, <2>2 DEF SessionState, Grows
  <2> QED
    BY <1>1, <2>2, <2>3, SessionTimes
<1> QED
  BY <1>2, <1>3, <1>4, <1>5 DEF SessionOK, Claim

\* What is true of a request under way stays true as they grow.
LEMMA TabsKeep ==
  ASSUME SessInv, RestTypeOK', Grows, NEW t \in Tabs, tab'[t] = tab[t]
  PROVE  TabOK(tab[t])'
<1> DEFINE x == tab[t]
<1>1. /\ Len(logins) \in Nat /\ Len(codes) \in Nat /\ Len(sessions) \in Nat
      /\ Len(logins') \in Nat /\ Len(codes') \in Nat /\ Len(sessions') \in Nat
      /\ now \in Nat
  BY Lengths DEF SessInv, RestTypeOK
<1>2. TabOK(x) /\ tab'[t] = x
  BY DEF SessInv
<1> HIDE DEF x
<1>3. /\ x \in Tab
      /\ x.login \in 0 .. Len(logins') /\ x.code \in 0 .. Len(codes')
      /\ x.session \in 0 .. Len(sessions') /\ x.shown \in 0 .. Len(sessions')
  <2>1. /\ x \in Tab
        /\ x.login \in 0 .. Len(logins) /\ x.code \in 0 .. Len(codes)
        /\ x.session \in 0 .. Len(sessions) /\ x.shown \in 0 .. Len(sessions)
    BY <1>2 DEF TabOK
  <2>2. /\ Len(logins) <= Len(logins') /\ Len(codes) <= Len(codes')
        /\ Len(sessions) <= Len(sessions')
    BY DEF Grows
  <2> QED
    BY <1>1, <2>1, <2>2
<1>4. x.login # 0 => logins'[x.login] = logins[x.login]
  BY <1>1, <1>2 DEF TabOK, Grows
<1>5. x.session # 0 => sessions'[x.session] = sessions[x.session]
  BY <1>1, <1>2 DEF TabOK, Grows
<1>6. x.at <= now => x.at <= now'
  BY <1>1, <1>3 DEF Grows, Tab
<1>7. x.pc = "record" /\ STEP_UP # None =>
        /\ sessions'[x.session].auth_time # None
        /\ x.at - sessions'[x.session].auth_time <= STEP_UP + CLOCK_SKEW_SECS
  BY <1>2, <1>5 DEF TabOK, Fresh
<1>8. x.pc = "exchange" =>
        /\ x.login # 0 /\ x.code # 0 /\ x.at <= now'
        /\ x.at <= logins'[x.login].started + LOGIN_TTL_SECS
  BY <1>2, <1>4, <1>6 DEF TabOK
<1>9. /\ x.pc = "idp" => x.login # 0
      /\ x.pc = "answer" => x.session # 0
      /\ x.pc = "body" =>
           /\ x.session # 0 /\ sessions'[x.session].admin
           /\ x.at < sessions'[x.session].exp
      /\ x.pc \in {"record", "rotate"} => x.session # 0 /\ x.session = x.shown
  BY <1>2, <1>5 DEF TabOK
<1> QED
  BY <1>2, <1>3, <1>7, <1>8, <1>9 DEF TabOK, Fresh

\* A step keeps the invariant if what it adds, and the tabs it moves, are as they
\* should be.
LEMMA StepKeepsInv ==
  ASSUME SessInv, RestTypeOK', JarOK', Grows,
         \A c \in 1 .. Len(codes') : c \in 1 .. Len(codes) \/ CodeOK(codes[c])',
         \A s \in 1 .. Len(sessions') :
           s \in 1 .. Len(sessions) \/ SessionOK(sessions[s])',
         \A t \in Tabs : tab'[t] = tab[t] \/ TabOK(tab[t])'
  PROVE  SessInv'
<1>1. ASSUME NEW c \in 1 .. Len(codes') PROVE CodeOK(codes[c])'
  BY CodesKeep
<1>2. ASSUME NEW s \in 1 .. Len(sessions') PROVE SessionOK(sessions[s])'
  BY SessionsKeep
<1>3. ASSUME NEW t \in Tabs PROVE TabOK(tab[t])'
  BY TabsKeep
<1> QED
  BY <1>1, <1>2, <1>3 DEF SessInv

-----------------------------------------------------------------------------
\* The exchange marks a code as used and changes nothing else of it.
UsesUpACode ==
  codes' = codes \/ \E k \in 1 .. Len(codes) : codes' = [codes EXCEPT ![k].used = TRUE]

\* It makes codes no fewer, and they say what they said.
LEMMA UsedCodes ==
  ASSUME SessInv, UsesUpACode
  PROVE  /\ codes' \in Seq(Code) /\ Len(codes') = Len(codes)
         /\ \A c \in 1 .. Len(codes) :
              /\ codes'[c].login = codes[c].login
              /\ codes'[c].admin = codes[c].admin
              /\ codes'[c].real = codes[c].real
<1>1. codes \in Seq(Code) /\ \A c \in 1 .. Len(codes) : codes[c] \in Code
  BY Lengths DEF SessInv, RestTypeOK
<1>2. CASE codes' = codes
  BY <1>1, <1>2
<1>3. ASSUME NEW k \in 1 .. Len(codes), codes' = [codes EXCEPT ![k].used = TRUE]
      PROVE  /\ codes' \in Seq(Code) /\ Len(codes') = Len(codes)
             /\ \A c \in 1 .. Len(codes) :
                  /\ codes'[c].login = codes[c].login
                  /\ codes'[c].admin = codes[c].admin
                  /\ codes'[c].real = codes[c].real
  <2> DEFINE used == [codes[k] EXCEPT !.used = TRUE]
  <2>1. /\ used \in Code /\ used.login = codes[k].login
        /\ used.admin = codes[k].admin /\ used.real = codes[k].real
    BY <1>1 DEF Code
  <2>2. codes' = [codes EXCEPT ![k] = used]
    BY <1>3
  <2> HIDE DEF used
  <2>3. /\ codes' \in Seq(Code) /\ Len(codes') = Len(codes)
        /\ \A c \in 1 .. Len(codes) : codes'[c] = IF c = k THEN used ELSE codes[c]
    BY <1>1, <2>1, <2>2, ExceptSeq
  <2> QED
    BY <2>1, <2>3
<1> QED
  BY <1>2, <1>3 DEF UsesUpACode

\* One tab moves on.
LEMMA TabStepInv ==
  ASSUME SessInv, NEW t \in Tabs, NEW r, TabOK(r), tab' = [tab EXCEPT ![t] = r],
         UNCHANGED <<idp, now, key, logins, sso, sessions>>, UsesUpACode, JarOK'
  PROVE  SessInv'
<1>1. /\ codes' \in Seq(Code) /\ Len(codes') = Len(codes)
      /\ \A c \in 1 .. Len(codes) :
           /\ codes'[c].login = codes[c].login
           /\ codes'[c].admin = codes[c].admin
           /\ codes'[c].real = codes[c].real
  BY UsedCodes
<1>2. RestTypeOK'
  BY <1>1 DEF SessInv, RestTypeOK
<1>3. Grows
  BY <1>1, Lengths DEF SessInv, RestTypeOK, Grows
<1>4. ASSUME NEW u \in Tabs, tab'[u] # tab[u] PROVE TabOK(tab[u])'
  <2>1. tab'[u] = r
    BY <1>4 DEF SessInv, RestTypeOK
  <2> QED
    BY <1>1, <2>1 DEF TabOK, Fresh
<1> QED
  BY <1>1, <1>2, <1>3, <1>4, StepKeepsInv

\* A request that ends leaves what the tab shows and the address it is at.
LEMMA IdleOK ==
  ASSUME SessInv, NEW t \in Tabs
  PROVE  /\ TabOK(Idle(tab[t]))
         /\ Idle(tab[t]).pc = "page" /\ Idle(tab[t]).shown = tab[t].shown
<1> DEFINE x == tab[t]
<1>1. TabOK(x)
  BY DEF SessInv
<1> HIDE DEF x
<1>2. /\ Idle(x).pc = "page" /\ Idle(x).login = 0 /\ Idle(x).session = 0
      /\ Idle(x).code = x.code /\ Idle(x).shown = x.shown
      /\ Idle(x) \in Tab
  BY <1>1 DEF Idle, NewTab, TabOK, Tab
<1>3. Len(logins) \in Nat /\ Len(codes) \in Nat /\ Len(sessions) \in Nat
  BY Lengths DEF SessInv
<1>4. TabOK(Idle(x))
  BY <1>1, <1>2, <1>3 DEF TabOK
<1> QED
  BY <1>2, <1>4 DEF x

\* The same as a step.
LEMMA FinishInv ==
  ASSUME SessInv, NEW t \in Tabs, Finish(t),
         UNCHANGED <<idp, now, key, logins, sso, sessions, jar>>, UsesUpACode
  PROVE  SessInv'
<1>1. tab' = [tab EXCEPT ![t] = Idle(tab[t])]
  BY DEF Finish
<1>2. JarOK'
  BY DEF SessInv, JarOK
<1> QED
  BY <1>1, <1>2, IdleOK, TabStepInv

-----------------------------------------------------------------------------
\* Nothing has happened.
LEMMA SessInitInv == ASSUME Init PROVE SessInv
<1>1. RestTypeOK
  BY SessionTimes, EmptySeq DEF Init, RestTypeOK
<1>2. /\ Len(logins) = 0 /\ Len(codes) = 0 /\ Len(sessions) = 0
  BY EmptySeq DEF Init
<1>3. JarOK
  BY <1>2 DEF Init, JarOK
<1>4. TabOK(NewTab)
  BY <1>2 DEF NewTab, TabOK, Tab
<1>5. \A t \in Tabs : TabOK(tab[t])
  BY <1>4 DEF Init
<1> QED
  BY <1>1, <1>2, <1>3, <1>5 DEF SessInv

\* A login more, and a tab that waits for its code.
LEMMA LoginInv ==
  ASSUME SessInv, NEW t \in Tabs, NEW reauth \in BOOLEAN, Login(t, reauth)
  PROVE  SessInv'
<1> DEFINE new == [started |-> now, reauth |-> reauth, key |-> key]
<1>1. /\ logins \in Seq(LoginState) /\ new \in LoginState
      /\ logins' = Append(logins, new)
  BY DEF SessInv, RestTypeOK, Login, LoginState
<1>2. /\ logins' \in Seq(LoginState) /\ Len(logins') = Len(logins) + 1
      /\ \A l \in 1 .. Len(logins) : logins'[l] = logins[l]
  BY <1>1, AppendProperties
<1>3. Len(logins) \in Nat /\ Len(codes) \in Nat /\ Len(sessions) \in Nat
  BY Lengths DEF SessInv
<1>4. RestTypeOK'
  BY <1>2 DEF SessInv, RestTypeOK, Login
<1>5. Grows
  BY <1>2, <1>3 DEF SessInv, RestTypeOK, Login, Grows
<1>6. JarOK'
  BY <1>2, <1>3 DEF SessInv, JarOK, Login
<1>7. TabOK(tab[t])'
  <2> DEFINE x == tab[t]
             y == [x EXCEPT !.pc = "idp", !.code = 0, !.login = Len(logins) + 1]
  <2>1. TabOK(x)
    BY DEF SessInv
  <2>2. tab'[t] = y
    BY DEF Login, SessInv, RestTypeOK
  <2> HIDE DEF x
  <2>3. x \in Tab /\ Len(logins) + 1 \in Nat
    BY <1>3, <2>1 DEF TabOK
  <2>4. /\ y \in Tab
        /\ y.pc = "idp" /\ y.code = 0 /\ y.login = Len(logins) + 1
        /\ y.session = x.session /\ y.shown = x.shown
    BY <2>3 DEF Tab
  <2> HIDE DEF y
  <2>5. UNCHANGED <<codes, sessions>>
    BY DEF Login
  <2> QED
    BY <1>2, <1>3, <2>1, <2>2, <2>4, <2>5 DEF TabOK
<1>8. \A u \in Tabs : u # t => tab'[u] = tab[u]
  BY DEF Login, SessInv, RestTypeOK
<1> QED
  BY <1>4, <1>5, <1>6, <1>7, <1>8, StepKeepsInv DEF Login

\* A code more, for the login the tab went to the provider with.
LEMMA AuthenticateInv ==
  ASSUME SessInv, NEW t \in Tabs, NEW u \in Users, Authenticate(t, u)
  PROVE  SessInv'
<1> DEFINE x == tab[t]
<1>1. PICK real \in {now} \cup (IF sso # None /\ sso.user = u THEN {sso.at} ELSE {}),
           admin \in BOOLEAN :
        /\ codes' = Append(codes, [login |-> tab[t].login, user |-> u, admin |-> admin,
                                   real |-> real, used |-> FALSE])
        /\ sso' = [user |-> u, at |-> real]
  BY DEF Authenticate
<1> DEFINE new == [login |-> x.login, user |-> u, admin |-> admin,
                   real |-> real, used |-> FALSE]
<1>2. /\ TabOK(x) /\ x.pc = "idp"
      /\ UNCHANGED <<idp, now, key, logins, sessions, jar>>
  BY DEF SessInv, Authenticate
<1>3. Len(logins) \in Nat /\ Len(codes) \in Nat /\ Len(sessions) \in Nat
  BY Lengths DEF SessInv
<1>4. real \in Int
  BY SessionNone DEF SessInv, RestTypeOK
<1>5. new \in Code /\ new.login \in 1 .. Len(logins)
  BY <1>2, <1>3, <1>4 DEF Code, TabOK, Tab
<1> HIDE DEF new
<1>6. codes' = Append(codes, new) /\ codes \in Seq(Code)
  BY <1>1 DEF SessInv, RestTypeOK, new
<1>7. /\ codes' \in Seq(Code) /\ Len(codes') = Len(codes) + 1
      /\ codes'[Len(codes) + 1] = new
      /\ \A c \in 1 .. Len(codes) : codes'[c] = codes[c]
  BY <1>5, <1>6, AppendProperties
<1>8. RestTypeOK'
  <2>1. sso' \in [user : Users, at : Int] \cup {None}
    BY <1>1, <1>4
  <2>2. DOMAIN tab' = Tabs /\ tab' = [v \in Tabs |-> tab'[v]]
    BY DEF SessInv, RestTypeOK, Authenticate
  <2> QED
    BY <1>2, <1>7, <2>1, <2>2 DEF SessInv, RestTypeOK
<1>9. Grows
  BY <1>2, <1>3, <1>7 DEF SessInv, RestTypeOK, Grows
<1>10. JarOK'
  BY <1>2 DEF SessInv, JarOK
<1>11. \A c \in 1 .. Len(codes') : c \in 1 .. Len(codes) \/ CodeOK(codes[c])'
  <2>1. ASSUME NEW c \in 1 .. Len(codes'), c \notin 1 .. Len(codes)
        PROVE  CodeOK(codes[c])'
    <3>1. c = Len(codes) + 1
      BY <1>3, <1>7, <2>1
    <3>2. codes'[c] = new
      BY <1>7, <3>1
    <3> QED
      BY <1>2, <1>5, <3>2 DEF CodeOK
  <2> QED
    BY <2>1
<1>12. TabOK(tab[t])'
  <2> DEFINE y == [x EXCEPT !.pc = "page", !.login = 0, !.code = Len(codes) + 1]
  <2>1. tab'[t] = y
    BY DEF Authenticate, SessInv, RestTypeOK
  <2> HIDE DEF x
  <2>2. x \in Tab /\ Len(codes) + 1 \in Nat
    BY <1>2, <1>3 DEF TabOK
  <2>3. /\ y \in Tab
        /\ y.pc = "page" /\ y.code = Len(codes) + 1 /\ y.login = 0
        /\ y.session = x.session /\ y.shown = x.shown
    BY <2>2 DEF Tab
  <2> HIDE DEF y
  <2> QED
    BY <1>2, <1>3, <1>7, <2>1, <2>3 DEF TabOK
<1>13. \A v \in Tabs : v # t => tab'[v] = tab[v]
  BY DEF Authenticate, SessInv, RestTypeOK
<1> QED
  BY <1>2, <1>8, <1>9, <1>10, <1>11, <1>12, <1>13, StepKeepsInv

\* A session more, made of a login that lives and of the code issued for it.
LEMMA ExchangeInv ==
  ASSUME SessInv, NEW t \in Tabs, Exchange(t)
  PROVE  SessInv'
<1> DEFINE x == tab[t]
           c == codes[x.code]
           claim == IF idp = None THEN None ELSE c.real + idp
           accepted == ~c.used /\ c.login = x.login
                         /\ AuthTimeIsAccepted(claim, x.login, x.at)
           new == [code |-> x.code, login |-> x.login, admin |-> c.admin,
                   auth_time |-> claim, exp |-> Expiry(x.at), key |-> key]
           moved == [Idle(x) EXCEPT !.pc = "answer", !.session = Len(sessions) + 1]
<1>1. /\ x.pc = "exchange"
      /\ codes' = [codes EXCEPT ![x.code].used = TRUE]
      /\ UNCHANGED <<idp, now, key, logins, sso, jar>>
      /\ IF accepted
           THEN /\ sessions' = Append(sessions, new)
                /\ tab' = [tab EXCEPT ![t] = moved]
           ELSE Finish(t) /\ UNCHANGED sessions
  BY DEF Exchange
<1>2. TabOK(x) /\ SessInv
  BY DEF SessInv
<1>3. /\ Len(logins) \in Nat /\ Len(codes) \in Nat /\ Len(sessions) \in Nat
      /\ \A l \in 1 .. Len(logins) : logins[l] \in LoginState
      /\ \A d \in 1 .. Len(codes) : codes[d] \in Code
  BY Lengths DEF SessInv
<1>4. /\ x \in Tab /\ x.code \in 1 .. Len(codes) /\ x.login \in 1 .. Len(logins)
      /\ x.at \in Nat /\ x.at <= now
      /\ x.at <= logins[x.login].started + LOGIN_TTL_SECS
      /\ x.shown \in 0 .. Len(sessions)
  BY <1>1, <1>2, <1>3 DEF TabOK, Tab
<1>5. UsesUpACode
  BY <1>1, <1>4 DEF UsesUpACode
<1>6. CASE ~accepted
  <2>1. Finish(t) /\ UNCHANGED <<idp, now, key, logins, sso, sessions, jar>>
    BY <1>1, <1>6
  <2> QED
    BY <1>5, <2>1, FinishInv
<1>7. CASE accepted
  <2> HIDE DEF x
  <2>1. /\ c \in Code /\ logins[x.login] \in LoginState
        /\ idp \in Int \cup {None} /\ now \in Nat /\ CLOCK_SKEW_SECS \in Nat
        /\ LOGIN_TTL_SECS \in Nat /\ SESSION_TTL \in Nat
    BY <1>3, <1>4, SessionTimes DEF SessInv, RestTypeOK
  <2>2. claim \in Int \cup {None}
    BY <2>1 DEF Code
  <2>3. new \in SessionState /\ new.exp = x.at + SESSION_TTL
    <3> HIDE DEF c
    <3>1. c.admin \in BOOLEAN /\ key \in Nat
      BY <2>1 DEF Code, SessInv, RestTypeOK
    <3>2. x.code \in Nat /\ x.login \in Nat
      BY <1>4 DEF Tab
    <3>3. x.at + SESSION_TTL \in Nat
      BY <1>4, <2>1
    <3> HIDE DEF c, claim
    <3> QED
      BY <2>2, <3>1, <3>2, <3>3 DEF SessionState, Expiry
  <2>4. /\ new.code = x.code /\ new.login = x.login /\ new.admin = c.admin
        /\ new.auth_time = claim
    OBVIOUS
  <2>5. logins[x.login].reauth =>
          /\ claim # None
          /\ claim >= logins[x.login].started - CLOCK_SKEW_SECS
          /\ claim <= now + CLOCK_SKEW_SECS
    <3> SUFFICES ASSUME logins[x.login].reauth
                 PROVE  /\ claim # None
                        /\ claim >= logins[x.login].started - CLOCK_SKEW_SECS
                        /\ claim <= now + CLOCK_SKEW_SECS
      OBVIOUS
    <3>1. /\ claim # None
          /\ claim >= logins[x.login].started - CLOCK_SKEW_SECS
          /\ claim <= x.at + CLOCK_SKEW_SECS
      BY <1>7 DEF AuthTimeIsAccepted
    <3> HIDE DEF claim
    <3>2. claim \in Int
      BY <2>2, <3>1
    <3> QED
      BY <1>4, <2>1, <3>1, <3>2
  <2>6. new.exp <= logins[x.login].started + LOGIN_TTL_SECS + SESSION_TTL
    <3> DEFINE started == logins[x.login].started
               at == x.at
    <3>1. /\ started \in Nat /\ at \in Nat /\ at <= started + LOGIN_TTL_SECS
          /\ LOGIN_TTL_SECS \in Nat /\ SESSION_TTL \in Nat
      BY <1>4, <2>1 DEF LoginState
    <3>2. new.exp = at + SESSION_TTL
      BY <2>3
    <3> HIDE DEF new, started, at
    <3>3. at + SESSION_TTL <= started + LOGIN_TTL_SECS + SESSION_TTL
      BY <3>1
    <3> QED
      BY <3>2, <3>3 DEF started
  <2>7. /\ codes' \in Seq(Code) /\ Len(codes') = Len(codes)
        /\ \A d \in 1 .. Len(codes) :
             /\ codes'[d].login = codes[d].login
             /\ codes'[d].admin = codes[d].admin
             /\ codes'[d].real = codes[d].real
    BY <1>5, UsedCodes
  <2>8. /\ claim = IF idp' = None THEN None ELSE codes'[x.code].real + idp'
        /\ codes'[x.code].admin = c.admin
    <3>1. idp' = idp /\ codes'[x.code].real = c.real /\ codes'[x.code].admin = c.admin
      BY <1>1, <1>4, <2>7
    <3> QED
      BY <3>1
  <2>9. sessions' = Append(sessions, new) /\ tab' = [tab EXCEPT ![t] = moved]
    BY <1>1, <1>7
  <2>10. /\ sessions' \in Seq(SessionState) /\ Len(sessions') = Len(sessions) + 1
         /\ sessions'[Len(sessions) + 1] = new
         /\ \A s \in 1 .. Len(sessions) : sessions'[s] = sessions[s]
    <3> HIDE DEF new
    <3>1. sessions \in Seq(SessionState)
      BY DEF SessInv, RestTypeOK
    <3> QED
      BY <2>3, <2>9, <3>1, AppendProperties
  <2> HIDE DEF c, claim, new, moved, accepted
  <2>11. RestTypeOK'
    <3>1. DOMAIN tab' = Tabs /\ tab' = [v \in Tabs |-> tab'[v]]
      BY <2>9 DEF SessInv, RestTypeOK
    <3> QED
      BY <1>1, <2>7, <2>10, <3>1 DEF SessInv, RestTypeOK
  <2>12. Grows
    BY <1>1, <1>3, <2>1, <2>7, <2>10 DEF Grows
  <2>13. JarOK'
    <3>1. 0 .. Len(sessions) \subseteq 0 .. Len(sessions')
      BY <1>3, <2>10
    <3> QED
      BY <1>1, <3>1 DEF SessInv, JarOK
  <2>14. ASSUME NEW s \in 1 .. Len(sessions'), s \notin 1 .. Len(sessions)
         PROVE  SessionOK(sessions[s])'
    <3>1. s = Len(sessions) + 1
      BY <1>3, <2>10, <2>14
    <3>2. sessions'[s] = new
      BY <2>10, <3>1
    <3>3. /\ new.code \in 1 .. Len(codes') /\ new.login \in 1 .. Len(logins')
          /\ logins'[new.login] = logins[x.login]
      BY <1>1, <1>4, <2>4, <2>7
    <3>4. /\ new.admin = codes'[new.code].admin
          /\ new.auth_time = IF idp' = None THEN None ELSE codes'[new.code].real + idp'
      BY <2>4, <2>8
    <3> QED
      BY <1>1, <2>3, <2>4, <2>5, <2>6, <3>2, <3>3, <3>4 DEF SessionOK, Claim
  <2>15. TabOK(tab[t])'
    <3>1. /\ TabOK(Idle(x)) /\ Idle(x).pc = "page" /\ Idle(x).shown = x.shown
      BY IdleOK DEF x
    <3>2. Idle(x) \in Tab /\ Len(sessions) + 1 \in Nat
      BY <1>3, <3>1 DEF TabOK
    <3>3. /\ moved \in Tab /\ moved.pc = "answer"
          /\ moved.session = Len(sessions) + 1
          /\ moved.login = Idle(x).login /\ moved.code = Idle(x).code
          /\ moved.shown = Idle(x).shown
      BY <3>2 DEF Tab, moved
    <3>4. tab'[t] = moved
      BY <2>9 DEF SessInv, RestTypeOK
    <3>5. /\ moved.login \in 0 .. Len(logins') /\ moved.code \in 0 .. Len(codes')
          /\ moved.session \in 0 .. Len(sessions') /\ moved.shown \in 0 .. Len(sessions')
      <4>1. /\ Idle(x).login \in 0 .. Len(logins) /\ Idle(x).code \in 0 .. Len(codes)
            /\ Idle(x).shown \in 0 .. Len(sessions)
        BY <3>1 DEF TabOK
      <4> QED
        BY <1>1, <1>3, <2>7, <2>10, <3>3, <4>1
    <3> QED
      BY <3>3, <3>4, <3>5 DEF TabOK
  <2>16. \A v \in Tabs : v # t => tab'[v] = tab[v]
    BY <2>9 DEF SessInv, RestTypeOK
  <2> QED
    BY <2>7, <2>11, <2>12, <2>13, <2>14, <2>15, <2>16, StepKeepsInv
<1> QED
  BY <1>6, <1>7

\* The token request fails.
LEMMA ExchangeFailsInv ==
  ASSUME SessInv, NEW t \in Tabs, ExchangeFails(t)
  PROVE  SessInv'
<1>1. tab[t].code \in 1 .. Len(codes)
  <2>1. TabOK(tab[t]) /\ tab[t].pc = "exchange" /\ Len(codes) \in Nat
    BY Lengths DEF SessInv, ExchangeFails
  <2> QED
    BY <2>1 DEF TabOK
<1>2. UsesUpACode
  BY <1>1 DEF ExchangeFails, UsesUpACode
<1> QED
  BY <1>2, FinishInv DEF ExchangeFails

-----------------------------------------------------------------------------
\* The callback goes on only with the login it has a cookie of, while that lives.
LEMMA CallbackInv ==
  ASSUME SessInv, NEW t \in Tabs, Callback(t)
  PROVE  SessInv'
<1> DEFINE x == tab[t]
           y == [x EXCEPT !.pc = "exchange", !.login = jar.login, !.at = now]
           goesOn == /\ jar.login # 0
                     /\ LoginIsLive(jar.login)
                     /\ codes[tab[t].code].login = jar.login
<1>1. /\ x.code # 0 /\ UNCHANGED <<idp, now, key, logins, codes, sso, sessions, jar>>
      /\ TabOK(x) /\ JarOK /\ JarOK' /\ now \in Nat
  BY DEF Callback, SessInv, JarOK, RestTypeOK
<1>2. UsesUpACode
  BY <1>1 DEF UsesUpACode
<1>3. CASE goesOn
  <2>1. tab' = [tab EXCEPT ![t] = y]
    BY <1>3 DEF Callback, StateMatches
  <2>2. /\ jar.login \in 1 .. Len(logins)
        /\ now <= logins[jar.login].started + LOGIN_TTL_SECS
    BY <1>1, <1>3, Lengths DEF JarOK, LoginIsLive, SessInv
  <2> HIDE DEF x, goesOn
  <2>3. x \in Tab /\ jar.login \in Nat
    BY <1>1, <2>2 DEF TabOK
  <2>4. /\ y \in Tab /\ y.pc = "exchange" /\ y.login = jar.login /\ y.at = now
        /\ y.code = x.code /\ y.session = x.session /\ y.shown = x.shown
    BY <1>1, <2>3 DEF Tab
  <2> HIDE DEF y
  <2>5. TabOK(y)
    BY <1>1, <2>2, <2>4, Lengths DEF TabOK, SessInv
  <2> QED
    BY <1>1, <1>2, <2>1, <2>5, TabStepInv
<1>4. CASE ~goesOn
  <2>1. Finish(t)
    BY <1>4 DEF Callback, StateMatches
  <2> QED
    BY <1>1, <1>2, <2>1, FinishInv
<1> QED
  BY <1>3, <1>4

\* The session cookie arrives.
LEMMA ArriveInv ==
  ASSUME SessInv, NEW t \in Tabs, Arrive(t)
  PROVE  SessInv'
<1> DEFINE x == tab[t]
           y == [NewTab EXCEPT !.shown = x.shown]
<1>1. /\ TabOK(x) /\ tab' = [tab EXCEPT ![t] = y]
      /\ jar' = [login |-> 0, session |-> x.session]
      /\ UNCHANGED <<idp, now, key, logins, codes, sso, sessions>>
      /\ x.pc = "answer"
  BY DEF SessInv, Arrive
<1>2. Len(logins) \in Nat /\ Len(codes) \in Nat /\ Len(sessions) \in Nat
  BY Lengths DEF SessInv
<1> HIDE DEF x
<1>3. JarOK'
  <2>1. x.session \in 1 .. Len(sessions)
    BY <1>1, <1>2 DEF TabOK
  <2>2. sessions # <<>>
    BY <2>1
  <2> QED
    BY <1>1, <1>2, <2>1, <2>2 DEF JarOK
<1>4. x.shown \in Nat /\ x.shown \in 0 .. Len(sessions)
  BY <1>1, <1>2 DEF TabOK
<1>5. y \in Tab /\ y.pc = "page" /\ y.login = 0 /\ y.code = 0 /\ y.session = 0
      /\ y.shown = x.shown
  BY <1>4 DEF NewTab, Tab
<1> HIDE DEF y
<1>6. TabOK(y)
  BY <1>2, <1>4, <1>5 DEF TabOK
<1> QED
  BY <1>1, <1>3, <1>6, TabStepInv DEF UsesUpACode

\* A page of the session there is.
LEMMA OpenInv ==
  ASSUME SessInv, NEW t \in Tabs, Open(t)
  PROVE  SessInv'
<1> DEFINE x == tab[t]
           y == [x EXCEPT !.shown = jar.session]
<1>1. /\ TabOK(x) /\ x.pc = "page" /\ tab' = [tab EXCEPT ![t] = y] /\ JarOK /\ JarOK'
      /\ UNCHANGED <<idp, now, key, logins, codes, sso, sessions>>
  BY DEF SessInv, Open, JarOK
<1>2. jar.session \in 0 .. Len(sessions) /\ Len(sessions) \in Nat
  BY <1>1, Lengths DEF SessInv, JarOK
<1> HIDE DEF x
<1>3. x \in Tab /\ jar.session \in Nat
  BY <1>1, <1>2 DEF TabOK
<1>4. y \in Tab /\ y.pc = "page" /\ y.login = x.login /\ y.code = x.code
      /\ y.session = x.session /\ y.shown = jar.session
  BY <1>1, <1>3 DEF Tab
<1> HIDE DEF y
<1>5. TabOK(y)
  BY <1>1, <1>2, <1>4 DEF TabOK
<1> QED
  BY <1>1, <1>5, TabStepInv DEF UsesUpACode

\* A request is admitted with a session that is an admin's and has not expired.
LEMMA SubmitInv ==
  ASSUME SessInv, NEW t \in Tabs, Submit(t)
  PROVE  SessInv'
<1> DEFINE x == tab[t]
           y == [x EXCEPT !.pc = "body", !.session = jar.session, !.at = now]
<1>1. /\ TabOK(x) /\ tab' = [tab EXCEPT ![t] = y] /\ JarOK /\ JarOK' /\ now \in Nat
      /\ jar.session # 0 /\ now < sessions[jar.session].exp
      /\ sessions[jar.session].admin
      /\ UNCHANGED <<idp, now, key, logins, codes, sso, sessions>>
  BY DEF SessInv, Submit, JarOK, RestTypeOK, IsUser
<1>2. jar.session \in 0 .. Len(sessions) /\ Len(sessions) \in Nat
  BY <1>1, Lengths DEF SessInv, JarOK
<1> HIDE DEF x
<1>3. x \in Tab /\ jar.session \in Nat
  BY <1>1, <1>2 DEF TabOK
<1>4. y \in Tab /\ y.pc = "body" /\ y.login = x.login /\ y.code = x.code
      /\ y.session = jar.session /\ y.shown = x.shown /\ y.at = now
  BY <1>1, <1>3 DEF Tab
<1> HIDE DEF y
<1>5. TabOK(y)
  BY <1>1, <1>2, <1>4 DEF TabOK
<1> QED
  BY <1>1, <1>5, TabStepInv DEF UsesUpACode

\* A handler goes on, with the session of the page, and to record only with a recent
\* login.
LEMMA AcceptInv ==
  ASSUME SessInv, NEW t \in Tabs, Record(t) \/ Rotate(t)
  PROVE  SessInv'
<1>1. PICK op \in {"record", "rotate"} :
        Handles(t) /\ Accept(t, op) /\ (op = "record" => FreshEnough(tab[t].session))
  BY DEF Record, Rotate
<1> DEFINE x == tab[t]
           y == [x EXCEPT !.pc = op, !.at = now]
<1>2. /\ TabOK(x) /\ tab' = [tab EXCEPT ![t] = y] /\ JarOK' /\ now \in Nat
      /\ x.pc = "body" /\ x.session = x.shown
      /\ op = "record" => FreshEnough(x.session)
      /\ UNCHANGED <<idp, now, key, logins, codes, sso, sessions>>
  BY <1>1 DEF SessInv, Accept, Handles, TokenMatches, JarOK, RestTypeOK
<1> HIDE DEF x
<1>3. x \in Tab /\ x.session # 0
  BY <1>2 DEF TabOK
<1>4. y \in Tab /\ y.pc = op /\ y.login = x.login /\ y.code = x.code
      /\ y.session = x.session /\ y.shown = x.shown /\ y.at = now
  BY <1>2, <1>3 DEF Tab
<1> HIDE DEF y
<1>5. op = "record" => Fresh(y)
  BY <1>2, <1>4 DEF FreshEnough, Fresh
<1>6. TabOK(y)
  BY <1>2, <1>3, <1>4, <1>5 DEF TabOK
<1> QED
  BY <1>2, <1>6, TabStepInv DEF UsesUpACode

\* What ends a request.
LEMMA EndsInv ==
  ASSUME SessInv, NEW t \in Tabs,
         Refuse(t) \/ Lost(t) \/ WrongToken(t) \/ SendBack(t) \/ Done(t)
  PROVE  SessInv'
<1>1. Finish(t) /\ UNCHANGED <<idp, now, key, logins, codes, sso, sessions, jar>>
  BY DEF Refuse, Lost, WrongToken, SendBack, Done, Answered
<1> QED
  BY <1>1, FinishInv DEF UsesUpACode

\* What concerns no request, or all of them.
LEMMA OthersInv ==
  ASSUME SessInv, (\E t \in Tabs : Logout(t)) \/ Restart \/ Tick
  PROVE  SessInv'
<1>1. /\ UNCHANGED <<idp, logins, codes, sso, sessions>>
      /\ now' \in {now, now + 1} /\ now' \in Nat /\ key' \in Nat /\ now \in Nat
  BY DEF SessInv, RestTypeOK, Logout, Restart, Tick
<1>2. Len(logins) \in Nat /\ Len(codes) \in Nat /\ Len(sessions) \in Nat
  BY Lengths DEF SessInv
<1>3. Grows
  BY <1>1, <1>2 DEF Grows
<1>4. JarOK'
  BY <1>1, <1>2 DEF SessInv, JarOK, Logout, Restart, Tick
<1>5. DOMAIN tab' = Tabs /\ tab' = [t \in Tabs |-> tab'[t]]
  BY DEF SessInv, RestTypeOK, Logout, Restart, Tick
<1>6. RestTypeOK'
  BY <1>1, <1>5 DEF SessInv, RestTypeOK
<1>7. ASSUME NEW t \in Tabs, tab'[t] # tab[t] PROVE TabOK(tab[t])'
  <2>1. tab'[t] = Idle(tab[t]) /\ UNCHANGED <<now, logins, codes, sessions>>
    BY <1>7 DEF Logout, Restart, Tick
  <2>2. TabOK(Idle(tab[t]))
    BY IdleOK
  <2> QED
    BY <2>1, <2>2 DEF TabOK, Fresh
<1> QED
  BY <1>1, <1>3, <1>4, <1>6, <1>7, StepKeepsInv

-----------------------------------------------------------------------------
\* Every step keeps the invariant.
LEMMA SessNextInv ==
  ASSUME SessInv, [Next]_vars
  PROVE  SessInv'
<1>1. ASSUME NEW t \in Tabs, NEW reauth \in BOOLEAN, Login(t, reauth) PROVE SessInv'
  BY <1>1, LoginInv
<1>2. ASSUME NEW t \in Tabs, NEW u \in Users, Authenticate(t, u) PROVE SessInv'
  BY <1>2, AuthenticateInv
<1>3. ASSUME NEW t \in Tabs, Exchange(t) PROVE SessInv'
  BY <1>3, ExchangeInv
<1>4. ASSUME NEW t \in Tabs, ExchangeFails(t) PROVE SessInv'
  BY <1>4, ExchangeFailsInv
<1>5. ASSUME NEW t \in Tabs, Callback(t) PROVE SessInv'
  BY <1>5, CallbackInv
<1>6. ASSUME NEW t \in Tabs, Arrive(t) PROVE SessInv'
  BY <1>6, ArriveInv
<1>7. ASSUME NEW t \in Tabs, Open(t) PROVE SessInv'
  BY <1>7, OpenInv
<1>8. ASSUME NEW t \in Tabs, Submit(t) PROVE SessInv'
  BY <1>8, SubmitInv
<1>9. ASSUME NEW t \in Tabs, Record(t) \/ Rotate(t) PROVE SessInv'
  BY <1>9, AcceptInv
<1>10. ASSUME NEW t \in Tabs,
              Refuse(t) \/ Lost(t) \/ WrongToken(t) \/ SendBack(t) \/ Done(t)
       PROVE  SessInv'
  BY <1>10, EndsInv
<1>11. ASSUME (\E t \in Tabs : Logout(t)) \/ Restart \/ Tick PROVE SessInv'
  BY <1>11, OthersInv
<1>12. CASE UNCHANGED vars
  BY <1>12
     DEF vars, SessInv, RestTypeOK, JarOK, CodeOK, SessionOK, Claim, TabOK, Fresh
<1> QED
  BY <1>1, <1>2, <1>3, <1>4, <1>5, <1>6, <1>7, <1>8, <1>9, <1>10, <1>11, <1>12 DEF Next

\* Every session, and every request under way, is what its login and its code allow.
THEOREM SessInvariant == Spec => []SessInv
<1>1. Init => SessInv
  BY SessInitInv
<1>2. SessInv /\ [Next]_vars => SessInv'
  BY SessNextInv
<1> QED
  BY <1>1, <1>2, PTL DEF Spec

\* The cookies and the requests stand on logins, codes and sessions that there are.
THEOREM SessionTypes == Spec => []SessTypeOK
<1>1. SessInv => SessTypeOK
  BY DEF SessInv, RestTypeOK, JarOK, TabOK, SessTypeOK
<1> QED
  BY <1>1, SessInvariant, PTL

-----------------------------------------------------------------------------
\* What a session says of its login, with the numbers it is made of.
LEMMA SessionFacts ==
  ASSUME SessInv, NEW s \in 1 .. Len(sessions)
  PROVE  /\ SessionOK(sessions[s])
         /\ CodeOf(s) \in Code /\ sessions[s].admin = CodeOf(s).admin
         /\ logins[sessions[s].login].started \in Nat
         /\ sessions[s].exp \in Nat /\ now \in Nat
         /\ sessions[s].auth_time # None =>
              /\ idp \in -CLOCK_SKEW_SECS .. CLOCK_SKEW_SECS
              /\ sessions[s].auth_time = CodeOf(s).real + idp
<1>1. SessionOK(sessions[s])
  BY DEF SessInv
<1>2. CodeOf(s) \in Code /\ logins[sessions[s].login] \in LoginState
  BY <1>1, Lengths DEF SessInv, SessionOK, CodeOf
<1>3. sessions[s].exp \in Nat /\ now \in Nat /\ logins[sessions[s].login].started \in Nat
  BY <1>1, <1>2 DEF SessInv, RestTypeOK, SessionOK, SessionState, LoginState
<1>4. ASSUME sessions[s].auth_time # None
      PROVE  /\ idp \in -CLOCK_SKEW_SECS .. CLOCK_SKEW_SECS
             /\ sessions[s].auth_time = CodeOf(s).real + idp
  <2>1. idp # None /\ sessions[s].auth_time = CodeOf(s).real + idp
    BY <1>1, <1>4 DEF SessionOK, Claim, CodeOf
  <2>2. idp \in Offsets \cup {None}
    BY DEF SessInv, RestTypeOK
  <2> QED
    BY <2>1, <2>2, SessionTimes
<1> QED
  BY <1>1, <1>2, <1>3, <1>4 DEF SessionOK, CodeOf

\* A forced re-login is one, however codes, cookies and repeated callbacks mix.
THEOREM ReauthIsALogin == Spec => []ReauthMeansLogin
<1>1. ASSUME SessInv PROVE ReauthMeansLogin
  <2>1. SUFFICES ASSUME NEW s \in DOMAIN sessions, logins[sessions[s].login].reauth
                 PROVE  CodeOf(s).real
                          >= logins[sessions[s].login].started - 2 * CLOCK_SKEW_SECS
    BY DEF ReauthMeansLogin
  <2>2. s \in 1 .. Len(sessions)
    BY <1>1, <2>1, LenProperties DEF SessInv, RestTypeOK
  <2> DEFINE started == logins[sessions[s].login].started
             real == CodeOf(s).real
             auth == sessions[s].auth_time
  <2>3. auth # None /\ auth >= started - CLOCK_SKEW_SECS
    BY <1>1, <2>1, <2>2, SessionFacts DEF SessionOK
  <2>4. /\ started \in Nat /\ real \in Int /\ CLOCK_SKEW_SECS \in Nat
        /\ idp \in -CLOCK_SKEW_SECS .. CLOCK_SKEW_SECS /\ auth = real + idp
    BY <1>1, <2>2, <2>3, SessionFacts, SessionTimes DEF Code
  <2> HIDE DEF started, real, auth
  <2>5. real >= started - 2 * CLOCK_SKEW_SECS
    BY <2>3, <2>4
  <2> QED
    BY <2>5 DEF started, real
<1> QED
  BY <1>1, SessInvariant, PTL

\* Nobody is admitted to record or rotate on rights older than a session and a login.
THEOREM RightsRunOut == Spec => []RightsAreRecent
<1>1. ASSUME SessInv PROVE RightsAreRecent
  <2>1. SUFFICES ASSUME NEW t \in Tabs, tab[t].pc = "body"
                 PROVE  /\ CodeOf(tab[t].session).admin
                        /\ tab[t].at - logins[sessions[tab[t].session].login].started
                             < SESSION_TTL + LOGIN_TTL_SECS
    BY DEF RightsAreRecent
  <2> DEFINE s == tab[t].session
             at == tab[t].at
             started == logins[sessions[s].login].started
             exp == sessions[s].exp
  <2>2. /\ s \in 1 .. Len(sessions) /\ sessions[s].admin /\ at < exp /\ at \in Nat
    <3>1. TabOK(tab[t]) /\ Len(sessions) \in Nat
      BY <1>1, Lengths DEF SessInv
    <3> QED
      BY <2>1, <3>1 DEF TabOK, Tab
  <2>3. /\ CodeOf(s).admin /\ started \in Nat /\ exp \in Nat
        /\ exp <= started + LOGIN_TTL_SECS + SESSION_TTL
    BY <1>1, <2>2, SessionFacts DEF SessionOK
  <2> HIDE DEF s, at, started, exp
  <2>4. at - started < SESSION_TTL + LOGIN_TTL_SECS
    BY <2>2, <2>3, SessionTimes
  <2> QED
    BY <2>3, <2>4 DEF s, at, started
<1> QED
  BY <1>1, SessInvariant, PTL

\* What is done is done in the name of whoever was shown the page.
THEOREM ActorWasShown == Spec => []ActorIsWhoThePageShowed
<1>1. SessInv => ActorIsWhoThePageShowed
  BY DEF SessInv, TabOK, ActorIsWhoThePageShowed
<1> QED
  BY <1>1, SessInvariant, PTL

\* With step-up nothing is recorded without a recent login, for any clock offset
\* within the allowance.
THEOREM RecordingIsFresh == Spec => []RecordIsFresh
<1>1. ASSUME SessInv PROVE RecordIsFresh
  <2>1. SUFFICES ASSUME NEW t \in Tabs, tab[t].pc = "record", STEP_UP # None
                 PROVE  tab[t].at - CodeOf(tab[t].session).real
                          <= STEP_UP + 2 * CLOCK_SKEW_SECS
    BY DEF RecordIsFresh, LoggedInRecently
  <2> DEFINE s == tab[t].session
             at == tab[t].at
             real == CodeOf(s).real
             auth == sessions[s].auth_time
  <2>2. /\ s \in 1 .. Len(sessions) /\ at \in Nat
        /\ auth # None /\ at - auth <= STEP_UP + CLOCK_SKEW_SECS
    <3>1. TabOK(tab[t]) /\ Len(sessions) \in Nat
      BY <1>1, Lengths DEF SessInv
    <3> QED
      BY <2>1, <3>1 DEF TabOK, Tab, Fresh
  <2>3. /\ real \in Int /\ CLOCK_SKEW_SECS \in Nat /\ STEP_UP \in Nat
        /\ idp \in -CLOCK_SKEW_SECS .. CLOCK_SKEW_SECS /\ auth = real + idp
    BY <1>1, <2>1, <2>2, SessionFacts, SessionTimes DEF Code
  <2> HIDE DEF s, at, real, auth
  <2>4. at - real <= STEP_UP + 2 * CLOCK_SKEW_SECS
    BY <2>2, <2>3
  <2> QED
    BY <2>4 DEF s, at, real
<1> QED
  BY <1>1, SessInvariant, PTL

\* The newest login's callback is heard, however the tabs' cookies and callbacks mix.
THEOREM NewestLoginIsHeard == Spec => []CallbackIsHeard
<1>1. ASSUME SessInv PROVE CallbackIsHeard
  <2>1. SUFFICES ASSUME NEW t \in Tabs, tab[t].code # 0, Awaited(codes[tab[t].code].login)
                 PROVE  StateMatches(t)
    BY DEF CallbackIsHeard
  <2>2. /\ tab[t].code \in 1 .. Len(codes) /\ Len(logins) \in Nat
        /\ jar.login = Len(logins)
    BY <1>1, <2>1, Lengths DEF SessInv, TabOK, JarOK, Awaited
  <2>3. codes[tab[t].code].login \in 1 .. Len(logins)
    BY <1>1, <2>2 DEF SessInv, CodeOK
  <2> QED
    BY <2>1, <2>2, <2>3 DEF Awaited, StateMatches
<1> QED
  BY <1>1, SessInvariant, PTL

\* A re-login is enough: whoever began one within STEP_UP is not sent back for another.
THEOREM ReloginSuffices == Spec => NoStepUpLoop
<1> DEFINE Enough == \A t \in Tabs : SendBack(t) =>
                       LET l == logins[sessions[tab[t].session].login]
                       IN ~(l.reauth /\ now - l.started <= STEP_UP)
<1>1. ASSUME SessInv PROVE Enough
  <2>1. SUFFICES ASSUME NEW t \in Tabs, SendBack(t),
                        logins[sessions[tab[t].session].login].reauth,
                        now - logins[sessions[tab[t].session].login].started <= STEP_UP
                 PROVE  FALSE
    OBVIOUS
  <2> DEFINE s == tab[t].session
             started == logins[sessions[s].login].started
             auth == sessions[s].auth_time
  <2>2. s \in 1 .. Len(sessions) /\ ~FreshEnough(s)
    <3>1. TabOK(tab[t]) /\ Len(sessions) \in Nat /\ tab[t].pc = "body"
      BY <1>1, <2>1, Lengths DEF SessInv, SendBack, Handles
    <3> QED
      BY <2>1, <3>1 DEF TabOK, Tab, SendBack
  <2>3. STEP_UP \in Nat /\ CLOCK_SKEW_SECS \in Nat
    BY <2>2, SessionTimes DEF FreshEnough
  <2>4. /\ auth # None
        /\ auth >= started - CLOCK_SKEW_SECS /\ auth <= now + CLOCK_SKEW_SECS
    BY <1>1, <2>1, <2>2, SessionFacts DEF SessionOK
  <2>5. auth \in Int /\ started \in Nat /\ now \in Nat
    <3>1. SessionOK(sessions[s]) /\ started \in Nat /\ now \in Nat
      BY <1>1, <2>2, SessionFacts
    <3> QED
      BY <2>4, <3>1 DEF SessionOK, SessionState
  <2>6. now - started <= STEP_UP
    BY <2>1
  <2> HIDE DEF s, started, auth
  <2>7. now - auth <= STEP_UP + CLOCK_SKEW_SECS
    BY <2>3, <2>4, <2>5, <2>6
  <2> QED
    BY <2>2, <2>4, <2>7 DEF FreshEnough, auth
<1>2. SessInv => [Enough]_vars
  BY <1>1
<1> QED
  BY <1>2, SessInvariant, PTL DEF NoStepUpLoop
=============================================================================
