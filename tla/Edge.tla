-------------------------------- MODULE Edge --------------------------------
(***************************************************************************)
(* A browser, the gateway in front of it and the user-service behind: who  *)
(* a request acts for, and what becomes of the cookies.                    *)
(*                                                                         *)
(* The tabs of one browser share a cookie jar.  A request passes the       *)
(* gateway's chain (the verdict on the access token, the identity headers, *)
(* the key of the rate limiter) without an await, waits for the limiter,   *)
(* is forwarded, and is answered with Set-Cookie headers that arrive late, *)
(* out of order, or never.                                                 *)
(*                                                                         *)
(* The service sets the access token as auth_token; the gateway reads      *)
(* access_token.  A browser alone is therefore anonymous to the gateway;   *)
(* Send also knows a client (or a front end that renames the cookie) that  *)
(* passes the token on under the gateway's name.                           *)
(*                                                                         *)
(* A handler of the service is one step: Sessions and Registration have    *)
(* its Redis commands.  A session's record outlives its tokens (30d, 7d).  *)
(***************************************************************************)
EXTENDS Integers

CONSTANTS
  Users,       \* user ids; an email address belongs to one user
  Sids,        \* the ids randomUUID gives to sessions and registrations
  Requests,    \* slots for requests in flight
  Null,
  AccessTTL,   \* life of an access token and of its cookie (15m)
  RefreshTTL,  \* life of a refresh token and of its cookie (7d)
  OtpTTL,      \* life of the otp_session cookie (5m)
  MaxTime      \* bound of the model's clock

ASSUME EdgeAssumption ==
  /\ AccessTTL \in Nat \ {0} /\ RefreshTTL \in Nat /\ AccessTTL <= RefreshTTL
  /\ OtpTTL \in Nat \ {0} /\ MaxTime \in Nat
  /\ Null \notin Users \cup Sids

VARIABLES
  now,      \* the clock
  jar,      \* the unexpired cookies, by name
  stored,   \* stored[s]: the claims of the refresh token in session s's record
  pending,  \* pending[s]: the user who registers under the OTP session s
  accounts, \* the users with an account
  life,     \* history: what the id s was given to
  current,  \* history: sessions whose last answer to arrive has the stored token
  req       \* req[r]: the request in slot r

vars == <<now, jar, stored, pending, accounts, life, current, req>>

\* The claims of a token; the access and the refresh token of an answer have
\* the same.
Claims == [user: Users, sid: Sids, iat: 0..MaxTime]

ASSUME NullAssumption == Null \notin Claims /\ Null \notin [user: Users, iat: 0..MaxTime]

Fresh == {s \in Sids : life[s] = "unused"}

-----------------------------------------------------------------------------
(* Cookies                                                                 *)

MaxAge == [auth_token |-> AccessTTL, refresh_token |-> RefreshTTL, otp_session |-> OtpTTL]

Jar(cookies) == [n \in DOMAIN cookies |-> [value |-> cookies[n], expires |-> now + MaxAge[n]]]

NoCookies == [n \in {} |-> Null]

CookieOf(cookies, n) == IF n \in DOMAIN cookies THEN cookies[n] ELSE Null

\* Slip: one setCookie is missing.
AccessOnly(t) == [n \in {"auth_token"} |-> t]

\* login, verifyOtp and refresh each set both tokens.
LoginCookies(t) == [n \in {"auth_token", "refresh_token"} |-> t]
VerifyCookies(t) == [n \in {"auth_token", "refresh_token"} |-> t]
RefreshCookies(t) == [n \in {"auth_token", "refresh_token"} |-> t]

\* What logout and logoutAll clear.
TokenCookies == {"auth_token", "refresh_token"}

\* The Set-Cookie headers of an answer.
Answer(set, clear) == [set |-> set, clear |-> clear]

NoChange == Answer(NoCookies, {})

-----------------------------------------------------------------------------
(* The gateway                                                             *)

\* The prefix /api/v1/auth has auth "optional", /api/v1/users "required".  GET
\* sessions is let through like logout and reads like me.
Routes == {"login", "sendOtp", "verifyOtp", "refresh",
           "logout", "logoutAll", "revoke", "me"}
Required == {"me"}

\* requireUser and sessionMiddleware are before these.
Guarded == {"logout", "logoutAll", "revoke", "me"}

\* The cookies a handler reads.
Reads(route) ==
  CASE route \in {"refresh", "logout", "logoutAll"} -> {"refresh_token"}
    [] route = "verifyOtp" -> {"otp_session"}
    [] OTHER -> {}

\* The identity headers: x-user-id, x-user-email, x-session-id.
NoIdentity == [id |-> Null, email |-> Null, session |-> Null]
Identity(t) == [id |-> t.user, email |-> t.user, session |-> t.sid]

\* Slip: the prefix in another case; Node has lower-case header names.
ScrubMissing(h) == h

\* Both middlewares delete what starts with x-user-: not x-session-id.
Scrub(h) == [h EXCEPT !.id = Null, !.email = Null]

\* verifyAccessToken
AccessValid(t) == now < t.iat + AccessTTL
RefreshValid(t) == now < t.iat + RefreshTTL

\* proxyHeadersMiddleware: the verified user's headers, or none of the prefix.
ProxyHeaders(h, t) == IF t # Null THEN Identity(t) ELSE Scrub(h)

\* keyFn: the verified user, else the address.
Key(t) == IF t # Null THEN t.user ELSE "ip"

Idle == [pc |-> "idle", route |-> "me", cookies |-> NoCookies, headers |-> NoIdentity,
         verified |-> Null, key |-> Null, newest |-> Null, as |-> Null, answer |-> NoChange]

Answered(as, answer) == [Idle EXCEPT !.pc = "answered", !.as = as, !.answer = answer]

\* Both auth middlewares: no token on a required route, or one that does not
\* verify on any, is a 401; no token on an optional route passes as anonymous.
Unauthorized(t, route) == IF t = Null THEN route \in Required ELSE ~ AccessValid(t)

\* A tab sends a request: the jar's cookies go with it (those that are read are
\* kept here), the access token also under the gateway's name if `named`, and
\* perhaps identity headers that the client has set.  The gateway runs its
\* chain up to the limiter's Redis call.
Send(r, route, named, h) ==
  /\ req[r].pc = "idle"
  /\ LET cookies == [n \in DOMAIN jar \cap Reads(route) |-> jar[n].value]
         t == IF named /\ "auth_token" \in DOMAIN jar THEN jar["auth_token"].value ELSE Null
         old == CookieOf(cookies, "refresh_token") IN
     req' = [req EXCEPT ![r] =
       IF Unauthorized(t, route)
       THEN Answered(Null, NoChange)
       ELSE [Idle EXCEPT !.pc = "admitted", !.route = route, !.cookies = cookies,
               !.verified = t, !.headers = ProxyHeaders(Scrub(h), t), !.key = Key(t),
               !.newest = IF old # Null /\ old.sid \in current THEN stored[old.sid] ELSE Null]]
  /\ UNCHANGED <<now, jar, stored, pending, accounts, life, current>>

-----------------------------------------------------------------------------
(* The user-service                                                        *)

Respond(r, as, answer) == req' = [req EXCEPT ![r] = Answered(as, answer)]

Serving(r, route) == req[r].pc = "admitted" /\ req[r].route = route

EndSessions(S) ==
  /\ stored' = [s \in Sids |-> IF s \in S THEN Null ELSE stored[s]]
  /\ life' = [s \in Sids |-> IF s \in S THEN "ended" ELSE life[s]]

\* Slip: the keys of every session, as if the index had no user in its name.
EverySession(u) == {s \in Sids : stored[s] # Null}

SessionsOf(u) == {s \in Sids : stored[s] # Null /\ stored[s].user = u}

\* readUserFromHeaders: all three, or nobody.
Named(h) == h.id # Null /\ h.email # Null /\ h.session # Null

\* Slip: the record is not looked up.
KnownUnseen(s) == TRUE

Known(s) == stored[s] # Null

\* requireUser and sessionMiddleware let the request through.
Through(h) == Named(h) /\ Known(h.session)

\* Any request may be refused without an effect: by the limiter, by the breaker,
\* by requireUser or the session middleware, or for its body.
Refuse(r) ==
  /\ req[r].pc = "admitted"
  /\ Respond(r, Null, NoChange)
  /\ UNCHANGED <<now, jar, stored, pending, accounts, life, current>>

Login(r) ==
  /\ Serving(r, "login")
  /\ \E u \in accounts, s \in Fresh :
       LET t == [user |-> u, sid |-> s, iat |-> now] IN
       /\ stored' = [stored EXCEPT ![s] = t]
       /\ life' = [life EXCEPT ![s] = "login"]
       /\ Respond(r, Null, Answer(LoginCookies(t), {}))
  /\ UNCHANGED <<now, jar, pending, accounts, current>>

SendOtp(r) ==
  /\ Serving(r, "sendOtp")
  /\ \E u \in Users \ accounts, s \in Fresh :
       /\ pending' = [pending EXCEPT ![s] = u]
       /\ life' = [life EXCEPT ![s] = "otp"]
       /\ Respond(r, Null, Answer([n \in {"otp_session"} |-> s], {}))
  /\ UNCHANGED <<now, jar, stored, accounts, current>>

\* The OTP matched: the account is created, and tokens are signed for the id of
\* the OTP session, which has no record.
VerifyOtp(r) ==
  /\ Serving(r, "verifyOtp")
  /\ LET s == CookieOf(req[r].cookies, "otp_session") IN
       /\ s # Null /\ pending[s] # Null /\ pending[s] \notin accounts
       /\ accounts' = accounts \cup {pending[s]}
       /\ pending' = [pending EXCEPT ![s] = Null]
       /\ LET t == [user |-> pending[s], sid |-> s, iat |-> now] IN
            Respond(r, Null, Answer(VerifyCookies(t), {"otp_session"}))
  /\ UNCHANGED <<now, jar, stored, life, current>>

\* The refresh cookie's session: another device ends it, a token that is not
\* the stored one ends all of the user's, else the token is rotated.
Refresh(r) ==
  /\ Serving(r, "refresh")
  /\ LET t == CookieOf(req[r].cookies, "refresh_token") IN
       /\ t # Null /\ RefreshValid(t) /\ stored[t.sid] # Null
       /\ \/ /\ EndSessions({t.sid})
             /\ Respond(r, Null, NoChange)
             /\ UNCHANGED current
          \/ /\ stored[t.sid] # t
             /\ EndSessions(SessionsOf(t.user))
             /\ Respond(r, Null, NoChange)
             /\ UNCHANGED current
          \/ /\ stored[t.sid] = t
             /\ stored' = [stored EXCEPT ![t.sid] = [t EXCEPT !.iat = now]]
             /\ current' = current \ {t.sid}
             /\ Respond(r, Null, Answer(RefreshCookies([t EXCEPT !.iat = now]), {}))
             /\ UNCHANGED life
  /\ UNCHANGED <<now, jar, pending, accounts>>

\* logout ends the session of the refresh cookie, logoutAll those of its user.
LogoutOf(r, S) ==
  /\ Through(req[r].headers)
  /\ EndSessions(S)
  /\ Respond(r, req[r].headers, Answer(NoCookies, TokenCookies))
  /\ UNCHANGED <<now, jar, pending, accounts, current>>

Logout(r) ==
  /\ Serving(r, "logout")
  /\ LET t == CookieOf(req[r].cookies, "refresh_token") IN
       t # Null /\ RefreshValid(t) /\ LogoutOf(r, {t.sid})

LogoutAll(r) ==
  /\ Serving(r, "logoutAll")
  /\ LET t == CookieOf(req[r].cookies, "refresh_token") IN
       t # Null /\ RefreshValid(t) /\ LogoutOf(r, SessionsOf(t.user))

\* Of a session of one's own, or one that is gone.
Revoke(r) ==
  /\ Serving(r, "revoke") /\ Through(req[r].headers)
  /\ \E s \in Sids :
       /\ stored[s] # Null => stored[s].user = req[r].headers.id
       /\ IF stored[s] # Null THEN EndSessions({s}) ELSE UNCHANGED <<stored, life>>
  /\ Respond(r, req[r].headers, NoChange)
  /\ UNCHANGED <<now, jar, pending, accounts, current>>

\* getSessions and me.
Read(r) ==
  /\ Serving(r, "me")
  /\ Through(req[r].headers)
  /\ Respond(r, req[r].headers, NoChange)
  /\ UNCHANGED <<now, jar, stored, pending, accounts, life, current>>

-----------------------------------------------------------------------------
(* The answer                                                              *)

\* The cookies are in the jar from when the answer arrives.
Receive(r) ==
  /\ req[r].pc = "answered"
  /\ LET a == req[r].answer
         t == CookieOf(a.set, "auth_token")
         kept == DOMAIN jar \ a.clear
         new == Jar(a.set) IN
       /\ jar' = [n \in kept \cup DOMAIN new |-> IF n \in DOMAIN new THEN new[n] ELSE jar[n]]
       /\ current' = IF t = Null THEN current
                     ELSE IF stored[t.sid] = t THEN current \cup {t.sid}
                     ELSE current \ {t.sid}
  /\ req' = [req EXCEPT ![r] = Idle]
  /\ UNCHANGED <<now, stored, pending, accounts, life>>

Lose(r) ==
  /\ req[r].pc = "answered"
  /\ req' = [req EXCEPT ![r] = Idle]
  /\ UNCHANGED <<now, jar, stored, pending, accounts, life, current>>

\* The browser drops the cookies that have expired.
Tick ==
  /\ now < MaxTime
  /\ now' = now + 1
  /\ jar' = [n \in {m \in DOMAIN jar : now' < jar[m].expires} |-> jar[n]]
  /\ UNCHANGED <<stored, pending, accounts, life, current, req>>

-----------------------------------------------------------------------------
Init ==
  /\ now = 0
  /\ jar = NoCookies
  /\ stored = [s \in Sids |-> Null]
  /\ pending = [s \in Sids |-> Null]
  /\ accounts \in SUBSET Users
  /\ life = [s \in Sids |-> "unused"]
  /\ current = {}
  /\ req = [r \in Requests |-> Idle]

\* The identity headers a request may come with: none, or all of somebody's
\* (where they are read).
Inbound(route) ==
  {NoIdentity} \cup {[id |-> u, email |-> u, session |-> s] : u \in Users,
                      s \in IF route \in Guarded THEN Sids ELSE {}}

Next ==
  \/ \E r \in Requests :
       \/ \E route \in Routes, named \in BOOLEAN :
            \E h \in Inbound(route) : Send(r, route, named, h)
       \/ Refuse(r) \/ Login(r) \/ SendOtp(r) \/ VerifyOtp(r)
       \/ Refresh(r) \/ Logout(r) \/ LogoutAll(r) \/ Revoke(r) \/ Read(r)
       \/ Receive(r) \/ Lose(r)
  \/ Tick

Spec == Init /\ [][Next]_vars

-----------------------------------------------------------------------------
(* Properties                                                              *)

\* The cookies, by what they carry.
Typed(cookies) ==
  /\ DOMAIN cookies \subseteq DOMAIN MaxAge
  /\ \A n \in DOMAIN cookies :
       cookies[n] \in IF n = "otp_session" THEN Sids ELSE Claims

Headers == [id: Users \cup {Null}, email: Users \cup {Null}, session: Sids \cup {Null}]

Shaped(q) ==
  /\ q.pc \in {"idle", "admitted", "answered"} /\ q.route \in Routes
  /\ Typed(q.cookies) /\ q.headers \in Headers
  /\ q.verified \in Claims \cup {Null} /\ q.newest \in Claims \cup {Null}
  /\ q.as \in Headers \cup {Null} /\ Typed(q.answer.set)

\* The jar, the records and the requests have the shapes the handlers use.
TypeOK ==
  /\ now \in 0..MaxTime
  /\ Typed([n \in DOMAIN jar |-> jar[n].value])
  /\ \A n \in DOMAIN jar : jar[n].expires \in Nat
  /\ stored \in [Sids -> Claims \cup {Null}] /\ pending \in [Sids -> Users \cup {Null}]
  /\ accounts \subseteq Users /\ current \subseteq Sids
  /\ life \in [Sids -> {"unused", "login", "otp", "ended"}]
  /\ DOMAIN req = Requests /\ \A r \in Requests : Shaped(req[r])

\* Headers that come from outside never name anybody: a handler acts for the
\* user and the session of the token the gateway verified for this request, and
\* it was this user's bucket that paid for it.
ActsForVerified ==
  [][\A r \in Requests : req[r].as = Null /\ req'[r].as # Null =>
       /\ req[r].verified # Null
       /\ req'[r].as = Identity(req[r].verified)
       /\ req[r].key = req[r].verified.user]_vars

\* A signature is not enough: a handler behind the session middleware acts in a
\* session a login made and nothing has ended, whatever tokens the jar still
\* holds.  The tokens of verifyOtp open nothing.
ActsInLogin ==
  [][\A r \in Requests : req[r].as = Null /\ req'[r].as # Null =>
       life[req'[r].as.session] = "login"]_vars

\* logout and logoutAll end the session of the access token the request was
\* admitted with, though they take theirs from the refresh cookie: the two
\* cookies of a jar are of one session.
LogoutEndsOwn ==
  [][\A r \in Requests :
       req[r].as = Null /\ req'[r].as # Null /\ req[r].route \in {"logout", "logoutAll"} =>
         stored'[req'[r].as.session] = Null]_vars

\* A browser is only taken for a thief after an answer went astray: when reuse
\* is detected, the last answer of the session to arrive before the request was
\* sent did not have the token that is stored.
ReuseExplained ==
  [][\A r \in Requests :
       Serving(r, "refresh") /\ req'[r].pc = "answered" =>
         LET t == CookieOf(req[r].cookies, "refresh_token") IN
         t # Null /\ stored[t.sid] \notin {t, Null} => req[r].newest # stored[t.sid]]_vars

View(t) == IF t = Null THEN Null ELSE [user |-> t.user, iat |-> t.iat]

Store == INSTANCE SessionStore WITH
  clock <- now, live <- [s \in Sids |-> View(stored[s])],
  listed <- {s \in Sids : stored[s] # Null}, used <- Sids \ Fresh

\* What the handlers of this module do to the sessions is what SessionStore
\* allows, which the commands of Sessions amount to when requests do not overlap.
KeepsStore == Store!StoreSpec

\* What plan.md and the service's README expect: a browser whose access token
\* is valid is let through on the routes that require it.
LoggedInIsServed ==
  [][\A r \in Requests : "auth_token" \in DOMAIN jar /\ AccessValid(jar["auth_token"].value)
       /\ req[r].pc = "idle" => req'[r].pc # "answered"]_vars
=============================================================================
