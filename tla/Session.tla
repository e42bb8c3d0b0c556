------------------------------- MODULE Session -------------------------------
(***************************************************************************)
(* Logging in and being admitted (web/auth.rs, the guards of web/pages.rs):*)
(* one browser with several tabs and one cookie jar, the service, which    *)
(* keeps nothing but the key its cookies are encrypted with, and an OIDC   *)
(* provider.  A login, a code and a session are numbered in the order they *)
(* come into being; the number stands for the random values drawn for it   *)
(* (state, nonce and PKCE verifier of a login, the CSRF token of a         *)
(* session).  AuthMode::InsecureDev is left out: there everybody is admin. *)
(*                                                                         *)
(* The provider is external: it issues codes that can be exchanged once,   *)
(* may answer from an earlier login although it was asked for a new one,   *)
(* may leave auth_time out, and its clock differs by one of Offsets.       *)
(***************************************************************************)
EXTENDS Integers, Sequences

CONSTANTS Tabs, Users,
          SESSION_TTL,      \* cfg.auth.session_ttl
          STEP_UP,          \* cfg.auth.step_up_max_age, None if unset
          LOGIN_TTL_SECS, CLOCK_SKEW_SECS,
          KeyFile,          \* TRUE if there is a --cookie-key-file
          Offsets,          \* by which the provider's clock may be ahead
          Earlier,          \* times of a login at the provider before this begins
          MaxTime, MaxLogins, MaxCodes, MaxKeys,   \* bounds
          None

ASSUME SessionTimes ==
  /\ SESSION_TTL \in Nat /\ LOGIN_TTL_SECS \in Nat /\ CLOCK_SKEW_SECS \in Nat
  /\ STEP_UP \in Nat \cup {None}
  /\ Offsets \subseteq -CLOCK_SKEW_SECS .. CLOCK_SKEW_SECS
  /\ Earlier \subseteq Int /\ \A e \in Earlier : e <= 0
ASSUME SessionBounds ==
  /\ MaxTime \in Nat /\ MaxLogins \in Nat /\ MaxCodes \in Nat /\ MaxKeys \in Nat
  /\ KeyFile \in BOOLEAN
ASSUME SessionNone == None \notin Int /\ None \notin Users

VARIABLES idp,       \* provider: by how much its clock is ahead, None if it does
                     \* not report auth_time
          now,       \* the service's clock
          key,       \* which cookie key is in use
          logins,    \* LoginState of every login started
          codes,     \* provider: the codes it issued
          sso,       \* provider: who logged in with this browser last, and when
          sessions,  \* Session of every callback that succeeded
          jar,       \* the browser's two cookies
          tab        \* what each tab is doing

vars == <<idp, now, key, logins, codes, sso, sessions, jar, tab>>

LoginState == [started : Nat, reauth : BOOLEAN, key : Nat]
\* real is when the user logged in.
Code == [login : Nat, user : Users, admin : BOOLEAN, real : Int, used : BOOLEAN]
SessionState == [code : Nat, login : Nat, admin : BOOLEAN,
                 auth_time : Int \cup {None}, exp : Nat, key : Nat]
\* shown: the session whose CSRF token is in the page; code: the one in the address,
\* at the callback.  The others belong to the request under way.
Tab == [pc : {"page", "idp", "exchange", "answer", "body", "record", "rotate"},
        login : Nat, code : Nat, session : Nat, shown : Nat,
        at : Nat]

\* 0 is no login, no code, no session.
SessTypeOK ==
  /\ idp \in Offsets \cup {None}
  /\ now \in Nat /\ key \in Nat
  /\ logins \in Seq(LoginState) /\ codes \in Seq(Code) /\ sessions \in Seq(SessionState)
  /\ sso \in [user : Users, at : Int] \cup {None}
  /\ jar \in [login : 0 .. Len(logins), session : 0 .. Len(sessions)]
  /\ tab \in [Tabs -> Tab]
  /\ \A t \in Tabs : /\ tab[t].login \in 0 .. Len(logins)
                     /\ tab[t].code \in 0 .. Len(codes)
                     /\ {tab[t].session, tab[t].shown} \subseteq 0 .. Len(sessions)

NewTab == [pc |-> "page", login |-> 0, code |-> 0, session |-> 0, shown |-> 0, at |-> 0]

Init == /\ idp \in Offsets \cup {None}
        /\ now = 0 /\ key = 0 /\ logins = <<>> /\ codes = <<>> /\ sessions = <<>>
        /\ sso \in [user : Users, at : Earlier] \cup {None}
        /\ jar = [login |-> 0, session |-> 0]
        /\ tab = [t \in Tabs |-> NewTab]

\* The request under way ends and leaves what the tab shows.
Idle(r) == [NewTab EXCEPT !.code = r.code, !.shown = r.shown]
Finish(t) == tab' = [tab EXCEPT ![t] = Idle(@)]

-----------------------------------------------------------------------------
(* Login *)

\* login: the redirect to the provider, with the login cookie.  A tab comes here by
\* itself, from a page it may not see, or (reauth) from a record that is not fresh.
\* Discovery may fail (AppError::Upstream): then nothing has happened.
Login(t, reauth) ==
  /\ tab[t].pc = "page"
  /\ Len(logins) < MaxLogins
  /\ logins' = Append(logins, [started |-> now, reauth |-> reauth, key |-> key])
  /\ jar' = [jar EXCEPT !.login = Len(logins) + 1]
  /\ tab' = [tab EXCEPT ![t].pc = "idp", ![t].code = 0,
                        ![t].login = Len(logins) + 1]
  /\ UNCHANGED <<idp, now, key, codes, sso, sessions>>

\* The provider sends the browser back with a code: after a login, or at once because
\* it knows the user.
Authenticate(t, u) ==
  /\ tab[t].pc = "idp"
  /\ Len(codes) < MaxCodes
  /\ \E real \in {now} \cup (IF sso # None /\ sso.user = u THEN {sso.at} ELSE {}),
        admin \in BOOLEAN :
       /\ codes' = Append(codes, [login |-> tab[t].login, user |-> u, admin |-> admin,
                                  real |-> real, used |-> FALSE])
       /\ sso' = [user |-> u, at |-> real]
  /\ tab' = [tab EXCEPT ![t].pc = "page", ![t].login = 0, ![t].code = Len(codes) + 1]
  /\ UNCHANGED <<idp, now, key, logins, sessions, jar>>

\* The provider refuses (the callback gets ?error=) or the user turns back.
Refuse(t) ==
  /\ tab[t].pc = "idp"
  /\ Finish(t)
  /\ UNCHANGED <<idp, now, key, logins, codes, sso, sessions, jar>>

\* Faulty variant: an expired login is accepted.
LoginLivesOn(l) == logins[l].key = key

\* The login cookie decrypts and has not expired.
LoginIsLive(l) ==
  /\ logins[l].key = key
  /\ now <= logins[l].started + LOGIN_TTL_SECS

\* The login cookie is that of the login the code was issued for.
StateMatches(t) == /\ jar.login # 0
                   /\ LoginIsLive(jar.login)
                   /\ codes[tab[t].code].login = jar.login

\* Faulty variant: the login cookie is used up whatever the answer is.
CallbackUsesUp(t) ==
  /\ tab[t].pc = "page"
  /\ tab[t].code # 0
  /\ IF StateMatches(t)
       THEN tab' = [tab EXCEPT ![t].pc = "exchange", ![t].login = jar.login, ![t].at = now]
       ELSE Finish(t)
  /\ jar' = [jar EXCEPT !.login = 0]
  /\ UNCHANGED <<idp, now, key, logins, codes, sso, sessions>>

\* callback up to the exchange, when the browser gets there and whenever the user
\* reloads that address.  The answer removes the login cookie only if it is a
\* success, so a refused callback leaves the jar as it is.
Callback(t) ==
  /\ tab[t].pc = "page"
  /\ tab[t].code # 0
  /\ IF StateMatches(t)
       THEN tab' = [tab EXCEPT ![t].pc = "exchange", ![t].login = jar.login, ![t].at = now]
       ELSE Finish(t)
  /\ UNCHANGED <<idp, now, key, logins, codes, sso, sessions, jar>>

\* Faulty variant: a re-login need not be a new login.
AnyLoginProves(claim, login, at) == TRUE

\* login_auth_time: what a forced re-login must prove.
AuthTimeIsAccepted(claim, login, at) ==
  logins[login].reauth =>
    /\ claim # None
    /\ claim >= logins[login].started - CLOCK_SKEW_SECS
    /\ claim <= at + CLOCK_SKEW_SECS

\* Faulty variant: the session's life counts from the end of the exchange.
ExpiresAfterExchange(at) == now + SESSION_TTL

\* Faulty variant: the cookie's max-age is the only limit.
NoExpiry(at) == None

\* exp counts from the moment the callback arrived.
Expiry(at) == at + SESSION_TTL

\* callback from the exchange on: the provider honours a code once, and the verifier
\* and the nonce of this login, which the code was issued for.
Exchange(t) ==
  LET r == tab[t]
      c == codes[r.code]
      claim == IF idp = None THEN None ELSE c.real + idp   \* auth_time of the token
  IN /\ r.pc = "exchange"
     /\ codes' = [codes EXCEPT ![r.code].used = TRUE]
     /\ IF ~c.used /\ c.login = r.login /\ AuthTimeIsAccepted(claim, r.login, r.at)
          THEN /\ sessions' = Append(sessions,
                    [code |-> r.code, login |-> r.login, admin |-> c.admin,
                     auth_time |-> claim, exp |-> Expiry(r.at), key |-> key])
               /\ tab' = [tab EXCEPT ![t] = [Idle(r) EXCEPT !.pc = "answer",
                                                !.session = Len(sessions) + 1]]
          ELSE /\ Finish(t)
               /\ UNCHANGED sessions
     /\ UNCHANGED <<idp, now, key, logins, sso, jar>>

\* The token request fails, before or after the provider spent the code.
ExchangeFails(t) ==
  /\ tab[t].pc = "exchange"
  /\ codes' \in {codes, [codes EXCEPT ![tab[t].code].used = TRUE]}
  /\ Finish(t)
  /\ UNCHANGED <<idp, now, key, logins, sso, sessions, jar>>

\* The answer of a callback sets the session cookie and removes the login cookie,
\* which by now may be that of another tab.
Arrive(t) ==
  /\ tab[t].pc = "answer"
  /\ jar' = [login |-> 0, session |-> tab[t].session]
  /\ tab' = [tab EXCEPT ![t] = [NewTab EXCEPT !.shown = tab[t].shown]]
  /\ UNCHANGED <<idp, now, key, logins, codes, sso, sessions>>

Lost(t) ==
  /\ tab[t].pc = "answer"
  /\ Finish(t)
  /\ UNCHANGED <<idp, now, key, logins, codes, sso, sessions, jar>>

-----------------------------------------------------------------------------
(* Requests of somebody logged in *)

\* Faulty variant: the expiry is left to the browser.
CookieDecrypts(s) == s # 0 /\ sessions[s].key = key

\* The User extractor admits: the cookie decrypts and is_expired is false.
IsUser(s) == /\ s # 0
             /\ sessions[s].key = key
             /\ now < sessions[s].exp

\* index and detail: the page carries the session's CSRF token.  Without a session
\* the tab is sent to Login.
Open(t) ==
  /\ tab[t].pc = "page"
  /\ IsUser(jar.session)
  /\ tab' = [tab EXCEPT ![t].shown = jar.session]
  /\ UNCHANGED <<idp, now, key, logins, codes, sso, sessions, jar>>

\* The Admin extractor of record and rotate admits a request; the form is still to
\* be read.  Anybody else gets a 403 or is sent to Login.
Submit(t) ==
  /\ tab[t].pc = "page"
  /\ tab[t].shown # 0
  /\ IsUser(jar.session)
  /\ sessions[jar.session].admin
  /\ tab' = [tab EXCEPT ![t].pc = "body", ![t].session = jar.session, ![t].at = now]
  /\ UNCHANGED <<idp, now, key, logins, codes, sso, sessions, jar>>

\* Faulty variant: any CSRF token will do.
AnyToken(s, shown) == shown # 0

\* check_csrf
TokenMatches(s, shown) == s = shown

\* Faulty variant: a login of unknown time counts as recent.
UnknownIsFresh(s) ==
  STEP_UP # None /\ sessions[s].auth_time # None =>
    now - sessions[s].auth_time <= STEP_UP + CLOCK_SKEW_SECS

\* Faulty variant: no allowance for the provider's clock.
FreshWithoutSkew(s) ==
  STEP_UP # None =>
    /\ sessions[s].auth_time # None
    /\ sessions[s].auth_time <= now
    /\ now - sessions[s].auth_time <= STEP_UP

\* fresh_enough
FreshEnough(s) ==
  STEP_UP # None =>
    /\ sessions[s].auth_time # None
    /\ sessions[s].auth_time <= now + CLOCK_SKEW_SECS
    /\ now - sessions[s].auth_time <= STEP_UP + CLOCK_SKEW_SECS

\* The handler has the form and the right token.
Handles(t) == /\ tab[t].pc = "body"
              /\ TokenMatches(tab[t].session, tab[t].shown)

\* op goes on to rotation::record or Rotator::rotate (Rotation).
Accept(t, op) ==
  /\ tab' = [tab EXCEPT ![t].pc = op, ![t].at = now]
  /\ UNCHANGED <<idp, now, key, logins, codes, sso, sessions, jar>>

Answered(t) == /\ Finish(t)
               /\ UNCHANGED <<idp, now, key, logins, codes, sso, sessions, jar>>

Record(t) == Handles(t) /\ FreshEnough(tab[t].session) /\ Accept(t, "record")
Rotate(t) == Handles(t) /\ Accept(t, "rotate")

\* record asks for a re-login: the tab is sent to Login with reauth.
SendBack(t) == Handles(t) /\ ~FreshEnough(tab[t].session) /\ Answered(t)

WrongToken(t) == tab[t].pc = "body" /\ ~Handles(t) /\ Answered(t)

Done(t) == tab[t].pc \in {"record", "rotate"} /\ Answered(t)

Logout(t) ==
  /\ tab[t].pc = "page"
  /\ IsUser(jar.session)
  /\ TokenMatches(jar.session, tab[t].shown)
  /\ jar' = [jar EXCEPT !.session = 0]
  /\ UNCHANGED <<idp, now, key, logins, codes, sso, sessions, tab>>

-----------------------------------------------------------------------------
\* load_cookie_key at start: without a file every start draws a new key.  Requests
\* under way are cut.
Restart ==
  /\ IF KeyFile THEN UNCHANGED key ELSE key < MaxKeys /\ key' = key + 1
  /\ tab' = [t \in Tabs |-> IF tab[t].pc \in {"exchange", "body", "record", "rotate"}
                              THEN Idle(tab[t]) ELSE tab[t]]
  /\ UNCHANGED <<idp, now, logins, codes, sso, sessions, jar>>

Tick ==
  /\ now < MaxTime
  /\ now' = now + 1
  /\ UNCHANGED <<idp, key, logins, codes, sso, sessions, jar, tab>>

Next ==
  \/ \E t \in Tabs :
       \/ \E reauth \in BOOLEAN : Login(t, reauth)
       \/ \E u \in Users : Authenticate(t, u)
       \/ Refuse(t) \/ Callback(t) \/ Exchange(t) \/ ExchangeFails(t)
       \/ Arrive(t) \/ Lost(t) \/ Open(t)
       \/ Submit(t) \/ WrongToken(t) \/ Record(t) \/ SendBack(t) \/ Rotate(t) \/ Done(t)
       \/ Logout(t)
  \/ Restart
  \/ Tick

Spec == Init /\ [][Next]_vars

-----------------------------------------------------------------------------
CodeOf(s) == codes[sessions[s].code]

\* A session that came out of a forced re-login stands on a login the user really
\* made after it was asked for, up to the two clock allowances, however old codes,
\* other tabs' cookies and repeated callbacks mix, and although the provider may
\* ignore prompt=login (login_auth_time).
ReauthMeansLogin ==
  \A s \in DOMAIN sessions :
    logins[sessions[s].login].reauth =>
      CodeOf(s).real >= logins[sessions[s].login].started - 2 * CLOCK_SKEW_SECS

\* Whoever is admitted to record or rotate was called an admin by the provider in a
\* login that began less than SESSION_TTL + LOGIN_TTL_SECS ago: rights taken away
\* end within that time, although a session is never checked against the provider
\* again (callback, is_expired).
RightsAreRecent ==
  \A t \in Tabs : tab[t].pc = "body" =>
    /\ CodeOf(tab[t].session).admin
    /\ tab[t].at - logins[sessions[tab[t].session].login].started < SESSION_TTL + LOGIN_TTL_SECS

\* What is recorded or rotated under a user's name was asked for on a page shown to
\* that user, although another tab can log somebody else in between the page and the
\* request (check_csrf, Session::actor).
ActorIsWhoThePageShowed ==
  \A t \in Tabs : tab[t].pc \in {"record", "rotate"} =>
    CodeOf(tab[t].session).user = CodeOf(tab[t].shown).user

\* The operation that tab t has under way was judged within STEP_UP of a real login,
\* up to the allowances for the two clocks.
LoggedInRecently(t) ==
  tab[t].at - CodeOf(tab[t].session).real <= STEP_UP + 2 * CLOCK_SKEW_SECS

\* With step-up, recording needs a recent login, whatever the provider reports: a
\* login of unknown time never counts (fresh_enough).
RecordIsFresh ==
  \A t \in Tabs : tab[t].pc = "record" /\ STEP_UP # None => LoggedInRecently(t)

\* Logging in again helps: a session from a re-login that began within STEP_UP is
\* never sent back for another one, whichever way the clocks differ (the bounds of
\* login_auth_time against those of fresh_enough).
NoStepUpLoop ==
  [][\A t \in Tabs : SendBack(t) =>
       LET l == logins[sessions[tab[t].session].login]
       IN ~(l.reauth /\ now - l.started <= STEP_UP)]_vars

\* The newest login, while it is live and no callback has succeeded yet.
Awaited(l) == l = Len(logins) /\ LoginIsLive(l) /\ sessions = <<>>

\* The tabs share one login cookie, and still the callback of the newest login is never
\* refused, whatever stale, repeated or refused callbacks came before it (when callback
\* answers with an error it drops the jar from which it removed the cookie, so the
\* browser keeps the cookie).
CallbackIsHeard ==
  \A t \in Tabs : (/\ tab[t].pc = "page" /\ tab[t].code # 0
                   /\ Awaited(codes[tab[t].code].login)) => StateMatches(t)

\* What config.rs says of step_up_max_age: recording or rotating a key requires a
\* login no older than that, up to the clock allowances.  rotate does not ask.
RotatingNeedsRecentLogin ==
  \A t \in Tabs : tab[t].pc \in {"record", "rotate"} /\ STEP_UP # None =>
    LoggedInRecently(t)
=============================================================================
