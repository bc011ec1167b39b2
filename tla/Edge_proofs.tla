----------------------------- MODULE Edge_proofs -----------------------------
(***************************************************************************)
(* Who a handler acts for, and what late and lost answers do to the        *)
(* cookies, for any users, ids, requests in flight and any TTLs.           *)
(*                                                                         *)
(* The inductive invariant follows a token from the answer that carries it *)
(* to the jar, to a request's cookies and to what the gateway verifies:    *)
(* the id it names has been given out and, while the session lives, belongs*)
(* to its user (Minted).  The two token cookies travel together, so that   *)
(* a jar, and a request sent from it, never mixes two sessions.            *)
(***************************************************************************)
EXTENDS Edge, TLAPS

\* A token that somebody signed, of the user of its session (lives is life,
\* records is stored, before or after a step).
Minted(t, lives, records) ==
  /\ t \in Claims
  /\ lives[t.sid] # "unused"
  /\ records[t.sid] # Null => records[t.sid].user = t.user

\* What the jar's tokens say of each other and of the sessions: where there is
\* an access token there is the refresh token it came with.
JarOK ==
  /\ "auth_token" \in DOMAIN jar =>
       /\ "refresh_token" \in DOMAIN jar
       /\ jar["refresh_token"].value = jar["auth_token"].value
       /\ jar["auth_token"].expires <= jar["refresh_token"].expires
  /\ "refresh_token" \in DOMAIN jar =>
       /\ Minted(jar["refresh_token"].value, life, stored)
       /\ jar["refresh_token"].value.sid \in current =>
            stored[jar["refresh_token"].value.sid] \in {jar["refresh_token"].value, Null}

\* A record is that of a login; the id of a pending registration has none.
SessionsOK ==
  \A s \in Sids :
    /\ stored[s] # Null => life[s] = "login" /\ stored[s].sid = s
    /\ pending[s] # Null => life[s] # "unused" /\ stored[s] = Null

\* What the gateway has let through.
AdmittedOK(q, lives, records) ==
  /\ "refresh_token" \in DOMAIN q.cookies => Minted(q.cookies["refresh_token"], lives, records)
  /\ q.verified = Null => q.headers.id = Null
  /\ q.verified # Null =>
       /\ Minted(q.verified, lives, records)
       /\ q.headers = Identity(q.verified) /\ q.key = q.verified.user
       /\ "refresh_token" \in DOMAIN q.cookies => q.cookies["refresh_token"] = q.verified
  /\ q.newest # Null =>
       "refresh_token" \in DOMAIN q.cookies /\ q.newest = q.cookies["refresh_token"]

\* What is on its way back.
AnswerOK(a, lives, records) ==
  /\ "auth_token" \in DOMAIN a.set <=> "refresh_token" \in DOMAIN a.set
  /\ "refresh_token" \in DOMAIN a.set =>
       /\ Minted(a.set["refresh_token"], lives, records)
       /\ a.set["auth_token"] = a.set["refresh_token"]
  /\ "refresh_token" \in a.clear => "auth_token" \in a.clear

RequestOK(q, lives, records) ==
  /\ q.pc = "admitted" => AdmittedOK(q, lives, records)
  /\ q.pc = "answered" => AnswerOK(q.answer, lives, records)

RequestsOK == \A r \in Requests : RequestOK(req[r], life, stored)

IInv == TypeOK /\ JarOK /\ SessionsOK /\ RequestsOK

-----------------------------------------------------------------------------
(* Lemmas                                                                  *)

\* A step that gives out no id twice and changes no session's user.
Later ==
  \A s \in Sids : life[s] # "unused" =>
    /\ life'[s] # "unused"
    /\ stored'[s] # Null => stored[s] # Null /\ stored'[s].user = stored[s].user

\* A signed token stays one.
LEMMA MintedStays ==
  ASSUME Later, NEW t, Minted(t, life, stored)
  PROVE  Minted(t, life', stored')
BY DEF Later, Minted, Claims

\* A request that is on its way stays as the gateway, or the handler, left it.
LEMMA RequestStays ==
  ASSUME Later, NEW q, RequestOK(q, life, stored)
  PROVE  RequestOK(q, life', stored')
BY MintedStays DEF RequestOK, AdmittedOK, AnswerOK

\* A slot without a request.
LEMMA IdleOK ==
  /\ Shaped(Idle) /\ Idle.pc = "idle" /\ Idle.as = Null
  /\ \A lives, records : RequestOK(Idle, lives, records)
BY DEF Idle, Shaped, Typed, NoCookies, NoIdentity, NoChange, Answer, Headers, Routes, RequestOK

\* One request changes and the new one is right: the others stay right.
LEMMA OneRequest ==
  ASSUME IInv, Later, NEW r \in Requests, NEW q, Shaped(q), RequestOK(q, life', stored'),
         req' = [req EXCEPT ![r] = q]
  PROVE  /\ DOMAIN req' = Requests /\ \A x \in Requests : Shaped(req'[x])
         /\ RequestsOK'
<1>1. DOMAIN req' = Requests /\ \A x \in Requests : req'[x] = IF x = r THEN q ELSE req[x]
  BY DEF IInv, TypeOK
<1>2. \A x \in Requests : RequestOK(req'[x], life', stored')
  BY <1>1, RequestStays DEF IInv, RequestsOK
<1>3. QED
  BY <1>1, <1>2 DEF IInv, TypeOK, RequestsOK

\* The jar stays right if only sessions whose token it need not know change.
LEMMA JarStays ==
  ASSUME IInv, Later, jar' = jar, current' \subseteq current,
         \A s \in current' : life[s] # "unused" => stored'[s] \in {stored[s], Null}
  PROVE  JarOK'
<1>1. CASE "refresh_token" \in DOMAIN jar
  <2>1. Minted(jar["refresh_token"].value, life, stored)
    BY <1>1 DEF IInv, JarOK
  <2>2. Minted(jar'["refresh_token"].value, life', stored')
    BY <2>1, MintedStays
  <2>3. jar["refresh_token"].value.sid \in current' =>
          stored'[jar["refresh_token"].value.sid] \in {jar["refresh_token"].value, Null}
    BY <1>1, <2>1 DEF IInv, JarOK, Minted, Claims
  <2>4. QED
    BY <2>2, <2>3 DEF IInv, JarOK
<1>2. CASE "refresh_token" \notin DOMAIN jar
  BY <1>2 DEF IInv, JarOK
<1>3. QED
  BY <1>1, <1>2

\* Nothing but requests changes.
LEMMA RequestOnly ==
  ASSUME IInv, NEW r \in Requests, NEW q, Shaped(q), RequestOK(q, life, stored),
         req' = [req EXCEPT ![r] = q],
         UNCHANGED <<now, jar, stored, pending, accounts, life, current>>
  PROVE  IInv'
<1>1. Later
  BY DEF Later
<1>2. DOMAIN req' = Requests /\ (\A x \in Requests : Shaped(req'[x])) /\ RequestsOK'
  BY <1>1, OneRequest
<1>3. JarOK' /\ SessionsOK'
  BY DEF IInv, JarOK, SessionsOK
<1>4. QED
  BY <1>2, <1>3 DEF IInv, TypeOK

\* An answer with the two cookies of a token, or with none.
LEMMA AnswerFits ==
  ASSUME NEW as \in Headers \cup {Null}, NEW a, Typed(a.set)
  PROVE  /\ Shaped(Answered(as, a))
         /\ \A lives, records : AnswerOK(a, lives, records)
                                  => RequestOK(Answered(as, a), lives, records)
BY IdleOK DEF Answered, Shaped, RequestOK, Idle

-----------------------------------------------------------------------------
(* Each action preserves the invariant                                     *)

LEMMA SendOK ==
  ASSUME IInv, NEW r \in Requests, NEW route \in Routes, NEW named \in BOOLEAN,
         NEW h \in Headers, Send(r, route, named, h)
  PROVE  IInv'
<1> USE DEF IInv
<1> DEFINE cookies == [n \in DOMAIN jar \cap Reads(route) |-> jar[n].value]
           t == IF named /\ "auth_token" \in DOMAIN jar THEN jar["auth_token"].value ELSE Null
           old == CookieOf(cookies, "refresh_token")
           newest == IF old # Null /\ old.sid \in current THEN stored[old.sid] ELSE Null
           q == [Idle EXCEPT !.pc = "admitted", !.route = route, !.cookies = cookies,
                   !.verified = t, !.headers = ProxyHeaders(Scrub(h), t), !.key = Key(t),
                   !.newest = newest]
<1>1. /\ req' = [req EXCEPT ![r] = IF Unauthorized(t, route) THEN Answered(Null, NoChange) ELSE q]
      /\ UNCHANGED <<now, jar, stored, pending, accounts, life, current>>
  BY DEF Send
<1>2. /\ Typed(cookies)
      /\ "refresh_token" \in DOMAIN cookies =>
           "refresh_token" \in DOMAIN jar /\ cookies["refresh_token"] = jar["refresh_token"].value
  BY DEF TypeOK, Typed
<1>3. t # Null => /\ "auth_token" \in DOMAIN jar /\ t = jar["auth_token"].value
                  /\ "refresh_token" \in DOMAIN jar /\ t = jar["refresh_token"].value
                  /\ Minted(t, life, stored)
  BY DEF JarOK
<1>4. t \in Claims \cup {Null}
  BY <1>3 DEF Minted
<1>5. newest # Null => /\ "refresh_token" \in DOMAIN cookies
                       /\ newest = cookies["refresh_token"]
  BY <1>2 DEF JarOK, CookieOf
<1>6. newest \in Claims \cup {Null}
  BY <1>2, <1>5 DEF JarOK, Minted
<1>7. "refresh_token" \in DOMAIN cookies => Minted(cookies["refresh_token"], life, stored)
  BY <1>2 DEF JarOK
<1>8. "refresh_token" \in DOMAIN cookies /\ t # Null => cookies["refresh_token"] = t
  BY <1>2, <1>3
<1>9. /\ q.pc = "admitted" /\ q.route = route /\ q.cookies = cookies /\ q.verified = t
      /\ q.headers = ProxyHeaders(Scrub(h), t) /\ q.key = Key(t) /\ q.newest = newest
      /\ q.as = Null /\ q.answer = NoChange
  BY DEF Idle
<1> HIDE DEF cookies, t, old, newest, q
<1>10. /\ ProxyHeaders(Scrub(h), t) \in Headers
       /\ t = Null => ProxyHeaders(Scrub(h), t).id = Null
       /\ t # Null => ProxyHeaders(Scrub(h), t) = Identity(t) /\ Key(t) = t.user
  BY <1>4 DEF ProxyHeaders, Scrub, Identity, Key, Headers, Claims
<1>11. Shaped(q) /\ RequestOK(q, life, stored)
  <2>1. Typed(NoChange.set)
    BY DEF NoChange, Answer, NoCookies, Typed
  <2>2. Shaped(q)
    BY <1>2, <1>4, <1>6, <1>9, <1>10, <2>1 DEF Shaped
  <2>3. AdmittedOK(q, life, stored)
    BY <1>3, <1>5, <1>7, <1>8, <1>9, <1>10 DEF AdmittedOK
  <2>4. QED
    BY <1>9, <2>2, <2>3 DEF RequestOK
<1>12. /\ Shaped(Answered(Null, NoChange))
       /\ RequestOK(Answered(Null, NoChange), life, stored)
  <2>1. Typed(NoChange.set) /\ AnswerOK(NoChange, life, stored)
    BY DEF NoChange, Answer, NoCookies, Typed, AnswerOK
  <2>2. QED
    BY <2>1, AnswerFits
<1>13. QED
  BY <1>1, <1>11, <1>12, RequestOnly

\* An answer that changes no cookie keeps the invariant.
LEMMA QuietOK ==
  ASSUME IInv, NEW r \in Requests, NEW as \in Headers \cup {Null}, Respond(r, as, NoChange),
         UNCHANGED <<now, jar, stored, pending, accounts, life, current>>
  PROVE  IInv'
<1>1. Typed(NoChange.set) /\ AnswerOK(NoChange, life, stored)
  BY DEF NoChange, Answer, NoCookies, Typed, AnswerOK
<1>2. QED
  BY <1>1, AnswerFits, RequestOnly DEF Respond

LEMMA RefuseOK == ASSUME IInv, NEW r \in Requests, Refuse(r) PROVE IInv'
BY QuietOK DEF Refuse

LEMMA ReadOK == ASSUME IInv, NEW r \in Requests, Read(r) PROVE IInv'
<1>1. req[r].headers \in Headers
  BY DEF IInv, TypeOK, Shaped
<1>2. QED
  BY <1>1, QuietOK DEF Read

\* The answer to a request that made or rotated a session, or created an
\* account, carries both cookies of the token it signed.
LEMMA TokenAnswer ==
  ASSUME NEW t \in Claims, NEW clear, "refresh_token" \notin clear
  PROVE  /\ Typed(LoginCookies(t))
         /\ \A lives, records : Minted(t, lives, records)
              => AnswerOK(Answer(LoginCookies(t), clear), lives, records)
BY DEF LoginCookies, Typed, MaxAge, Answer, AnswerOK

LEMMA LoginOK == ASSUME IInv, NEW r \in Requests, Login(r) PROVE IInv'
<1> USE DEF IInv
<1>1. PICK u \in accounts, s \in Fresh :
        /\ stored' = [stored EXCEPT ![s] = [user |-> u, sid |-> s, iat |-> now]]
        /\ life' = [life EXCEPT ![s] = "login"]
        /\ Respond(r, Null, Answer(LoginCookies([user |-> u, sid |-> s, iat |-> now]), {}))
  BY DEF Login
<1> DEFINE t == [user |-> u, sid |-> s, iat |-> now]
<1>2. /\ t \in Claims /\ t.user = u /\ t.sid = s /\ s \in Sids /\ life[s] = "unused"
      /\ stored' = [stored EXCEPT ![s] = t]
      /\ req' = [req EXCEPT ![r] = Answered(Null, Answer(LoginCookies(t), {}))]
  BY <1>1 DEF TypeOK, Claims, Fresh, Respond
<1>3. UNCHANGED <<now, jar, pending, accounts, current>>
  BY DEF Login
<1> HIDE DEF t
<1>4. /\ stored' \in [Sids -> Claims \cup {Null}] /\ stored'[s] = t
      /\ life' \in [Sids -> {"unused", "login", "otp", "ended"}] /\ life'[s] = "login"
      /\ \A x \in Sids \ {s} : stored'[x] = stored[x] /\ life'[x] = life[x]
  BY <1>1, <1>2 DEF TypeOK
<1>5. Later
  BY <1>2, <1>4 DEF Later
<1>6. SessionsOK'
  BY <1>2, <1>3, <1>4 DEF SessionsOK
<1>7. JarOK'
  <2>1. \A x \in current' : life[x] # "unused" => stored'[x] \in {stored[x], Null}
    BY <1>2, <1>3, <1>4 DEF TypeOK
  <2>2. QED
    BY <1>3, <1>5, <2>1, JarStays
<1>8. Minted(t, life', stored')
  BY <1>2, <1>4 DEF Minted
<1>9. DOMAIN req' = Requests /\ (\A x \in Requests : Shaped(req'[x])) /\ RequestsOK'
  <2> DEFINE a == Answer(LoginCookies(t), {})
  <2>1. Typed(a.set) /\ AnswerOK(a, life', stored')
    BY <1>2, <1>8, TokenAnswer DEF Answer
  <2>2. Shaped(Answered(Null, a)) /\ RequestOK(Answered(Null, a), life', stored')
    <3> HIDE DEF a
    <3>1. QED
      BY <2>1, AnswerFits
  <2>3. QED
    BY <1>2, <1>5, <2>2, OneRequest
<1>10. QED
  BY <1>3, <1>4, <1>6, <1>7, <1>9 DEF TypeOK

LEMMA SendOtpOK == ASSUME IInv, NEW r \in Requests, SendOtp(r) PROVE IInv'
<1> USE DEF IInv
<1>1. PICK u \in Users \ accounts, s \in Fresh :
        /\ pending' = [pending EXCEPT ![s] = u]
        /\ life' = [life EXCEPT ![s] = "otp"]
        /\ Respond(r, Null, Answer([n \in {"otp_session"} |-> s], {}))
  BY DEF SendOtp
<1>2. UNCHANGED <<now, jar, stored, accounts, current>>
  BY DEF SendOtp
<1>3. s \in Sids /\ life[s] = "unused" /\ stored[s] = Null
  BY DEF Fresh, SessionsOK
<1>4. /\ pending' \in [Sids -> Users \cup {Null}]
      /\ life' \in [Sids -> {"unused", "login", "otp", "ended"}] /\ life'[s] = "otp"
      /\ \A x \in Sids \ {s} : pending'[x] = pending[x] /\ life'[x] = life[x]
  BY <1>1, <1>3 DEF TypeOK
<1>5. Later
  BY <1>2, <1>3, <1>4 DEF Later
<1>6. SessionsOK'
  BY <1>2, <1>3, <1>4 DEF SessionsOK
<1>7. JarOK'
  BY <1>2, <1>5, JarStays
<1>8. DOMAIN req' = Requests /\ (\A x \in Requests : Shaped(req'[x])) /\ RequestsOK'
  <2> DEFINE a == Answer([n \in {"otp_session"} |-> s], {})
  <2>1. Typed(a.set) /\ AnswerOK(a, life', stored')
    BY <1>3 DEF Answer, Typed, MaxAge, AnswerOK
  <2>2. Shaped(Answered(Null, a)) /\ RequestOK(Answered(Null, a), life', stored')
    <3> HIDE DEF a
    <3>1. QED
      BY <2>1, AnswerFits
  <2>3. QED
    BY <1>1, <1>5, <2>2, OneRequest DEF Respond
<1>9. QED
  BY <1>2, <1>4, <1>6, <1>7, <1>8 DEF TypeOK

LEMMA VerifyOtpOK == ASSUME IInv, NEW r \in Requests, VerifyOtp(r) PROVE IInv'
<1> USE DEF IInv
<1> DEFINE s == CookieOf(req[r].cookies, "otp_session")
           t == [user |-> pending[s], sid |-> s, iat |-> now]
<1>1. /\ s # Null /\ pending[s] # Null
      /\ accounts' = accounts \cup {pending[s]} /\ pending' = [pending EXCEPT ![s] = Null]
      /\ Respond(r, Null, Answer(VerifyCookies(t), {"otp_session"}))
      /\ UNCHANGED <<now, jar, stored, life, current>>
  BY DEF VerifyOtp
<1>2. s \in Sids /\ pending[s] \in Users
  <2>1. s \in Sids
    BY <1>1 DEF TypeOK, Shaped, Typed, CookieOf
  <2>2. QED
    BY <1>1, <2>1 DEF TypeOK
<1>3. t \in Claims /\ t.user = pending[s] /\ t.sid = s
  BY <1>2 DEF TypeOK, Claims
<1>4. req' = [req EXCEPT ![r] = Answered(Null, Answer(LoginCookies(t), {"otp_session"}))]
  BY <1>1 DEF Respond, VerifyCookies, LoginCookies
<1> HIDE DEF t, s
<1>5. Later /\ SessionsOK'
  BY <1>1, <1>2 DEF Later, SessionsOK, TypeOK
<1>6. JarOK'
  BY <1>1, <1>5, JarStays
<1>7. Minted(t, life', stored')
  BY <1>1, <1>2, <1>3 DEF Minted, SessionsOK
<1>8. DOMAIN req' = Requests /\ (\A x \in Requests : Shaped(req'[x])) /\ RequestsOK'
  <2> DEFINE a == Answer(LoginCookies(t), {"otp_session"})
  <2>1. Typed(a.set) /\ AnswerOK(a, life', stored')
    BY <1>3, <1>7, TokenAnswer DEF Answer
  <2>2. Shaped(Answered(Null, a)) /\ RequestOK(Answered(Null, a), life', stored')
    <3> HIDE DEF a
    <3>1. QED
      BY <2>1, AnswerFits
  <2>3. QED
    BY <1>4, <1>5, <2>2, OneRequest
<1>9. QED
  BY <1>1, <1>2, <1>5, <1>6, <1>8 DEF TypeOK

\* Ending sessions, with an answer that sets no token, keeps the invariant.
LEMMA EndOK ==
  ASSUME IInv, NEW r \in Requests, NEW S \in SUBSET Sids, EndSessions(S),
         NEW as \in Headers \cup {Null}, NEW clear,
         "refresh_token" \in clear => "auth_token" \in clear,
         Respond(r, as, Answer(NoCookies, clear)),
         UNCHANGED <<now, jar, pending, accounts, current>>
  PROVE  IInv'
<1> USE DEF IInv
<1>1. /\ stored' \in [Sids -> Claims \cup {Null}]
      /\ life' \in [Sids -> {"unused", "login", "otp", "ended"}]
      /\ \A s \in Sids : \/ stored'[s] = Null /\ life'[s] = "ended"
                         \/ stored'[s] = stored[s] /\ life'[s] = life[s]
  BY DEF EndSessions, TypeOK
<1>2. Later /\ SessionsOK'
  BY <1>1 DEF Later, SessionsOK, TypeOK
<1>3. JarOK'
  BY <1>1, <1>2, JarStays DEF TypeOK
<1>4. DOMAIN req' = Requests /\ (\A x \in Requests : Shaped(req'[x])) /\ RequestsOK'
  <2> DEFINE a == Answer(NoCookies, clear)
  <2>1. Typed(a.set) /\ AnswerOK(a, life', stored')
    BY DEF Answer, NoCookies, Typed, AnswerOK
  <2>2. Shaped(Answered(as, a)) /\ RequestOK(Answered(as, a), life', stored')
    <3> HIDE DEF a
    <3>1. QED
      BY <2>1, AnswerFits
  <2>3. QED
    BY <1>2, <2>2, OneRequest DEF Respond
<1>5. QED
  BY <1>1, <1>2, <1>3, <1>4 DEF TypeOK

\* A refresh cookie that a handler reads was signed.
LEMMA CookieMinted ==
  ASSUME IInv, NEW r \in Requests, req[r].pc = "admitted",
         CookieOf(req[r].cookies, "refresh_token") # Null
  PROVE  /\ "refresh_token" \in DOMAIN req[r].cookies
         /\ Minted(CookieOf(req[r].cookies, "refresh_token"), life, stored)
         /\ CookieOf(req[r].cookies, "refresh_token").sid \in Sids
BY DEF IInv, RequestsOK, RequestOK, AdmittedOK, CookieOf, Minted, Claims

LEMMA RefreshOK == ASSUME IInv, NEW r \in Requests, Refresh(r) PROVE IInv'
<1> USE DEF IInv
<1> DEFINE t == CookieOf(req[r].cookies, "refresh_token")
           new == [t EXCEPT !.iat = now]
<1>1. /\ t # Null /\ req[r].pc = "admitted" /\ stored[t.sid] # Null
      /\ UNCHANGED <<now, jar, pending, accounts>>
      /\ \/ EndSessions({t.sid}) /\ Respond(r, Null, NoChange) /\ UNCHANGED current
         \/ EndSessions(SessionsOf(t.user)) /\ Respond(r, Null, NoChange) /\ UNCHANGED current
         \/ /\ stored[t.sid] = t /\ stored' = [stored EXCEPT ![t.sid] = new]
            /\ current' = current \ {t.sid}
            /\ Respond(r, Null, Answer(RefreshCookies(new), {}))
            /\ UNCHANGED life
  BY DEF Refresh, Serving
<1>2. Minted(t, life, stored) /\ t \in Claims /\ t.sid \in Sids
  BY <1>1, CookieMinted DEF Minted
<1> HIDE DEF t
<1>3. CASE \E S \in SUBSET Sids : EndSessions(S) /\ Respond(r, Null, NoChange) /\ UNCHANGED current
  BY <1>1, <1>3, EndOK DEF NoChange
<1>4. CASE /\ stored[t.sid] = t /\ stored' = [stored EXCEPT ![t.sid] = new]
           /\ current' = current \ {t.sid}
           /\ Respond(r, Null, Answer(RefreshCookies(new), {}))
           /\ UNCHANGED life
  <2>1. new \in Claims /\ new.user = t.user /\ new.sid = t.sid
    BY <1>2 DEF Claims, TypeOK
  <2> HIDE DEF new
  <2>2. /\ stored' \in [Sids -> Claims \cup {Null}] /\ stored'[t.sid] = new
        /\ \A s \in Sids \ {t.sid} : stored'[s] = stored[s]
    BY <1>2, <1>4, <2>1 DEF TypeOK
  <2>3. Later /\ SessionsOK'
    BY <1>1, <1>2, <1>4, <2>1, <2>2 DEF Later, SessionsOK, TypeOK
  <2>4. JarOK'
    <3>1. \A s \in current' : stored'[s] \in {stored[s], Null}
      BY <1>4, <2>2 DEF TypeOK
    <3>2. QED
      BY <1>1, <1>4, <2>3, <3>1, JarStays
  <2>5. Minted(new, life', stored')
    BY <1>2, <1>4, <2>1, <2>2 DEF Minted
  <2>6. DOMAIN req' = Requests /\ (\A x \in Requests : Shaped(req'[x])) /\ RequestsOK'
    <3> DEFINE a == Answer(LoginCookies(new), {})
    <3>1. Typed(a.set) /\ AnswerOK(a, life', stored')
      BY <2>1, <2>5, TokenAnswer DEF Answer
    <3>2. req' = [req EXCEPT ![r] = Answered(Null, a)]
      BY <1>4 DEF Respond, RefreshCookies, LoginCookies
    <3>3. Shaped(Answered(Null, a)) /\ RequestOK(Answered(Null, a), life', stored')
      <4> HIDE DEF a
      <4>1. QED
        BY <3>1, AnswerFits
    <3>4. QED
      BY <2>3, <3>2, <3>3, OneRequest
  <2>7. QED
    BY <1>1, <1>4, <2>2, <2>3, <2>4, <2>6 DEF TypeOK
<1>5. {t.sid} \in SUBSET Sids /\ SessionsOf(t.user) \in SUBSET Sids
  BY <1>2 DEF SessionsOf
<1>6. QED
  BY <1>1, <1>3, <1>4, <1>5

LEMMA LogoutOfOK ==
  ASSUME IInv, NEW r \in Requests, NEW S \in SUBSET Sids, LogoutOf(r, S)
  PROVE  IInv'
<1>1. req[r].headers \in Headers
  BY DEF IInv, TypeOK, Shaped
<1>2. "auth_token" \in TokenCookies
  BY DEF TokenCookies
<1>3. QED
  BY <1>1, <1>2, EndOK DEF LogoutOf

LEMMA LogoutOK == ASSUME IInv, NEW r \in Requests, Logout(r) PROVE IInv'
<1> DEFINE t == CookieOf(req[r].cookies, "refresh_token")
<1>1. t # Null /\ req[r].pc = "admitted" /\ LogoutOf(r, {t.sid})
  BY DEF Logout, Serving
<1>2. {t.sid} \in SUBSET Sids
  BY <1>1, CookieMinted
<1> HIDE DEF t
<1>3. QED
  BY <1>1, <1>2, LogoutOfOK

LEMMA LogoutAllOK == ASSUME IInv, NEW r \in Requests, LogoutAll(r) PROVE IInv'
BY LogoutOfOK DEF LogoutAll, SessionsOf

LEMMA RevokeOK == ASSUME IInv, NEW r \in Requests, Revoke(r) PROVE IInv'
<1>1. req[r].headers \in Headers
  BY DEF IInv, TypeOK, Shaped
<1>2. PICK s \in Sids : IF stored[s] # Null THEN EndSessions({s}) ELSE UNCHANGED <<stored, life>>
  BY DEF Revoke
<1>3. Respond(r, req[r].headers, NoChange) /\ UNCHANGED <<now, jar, pending, accounts, current>>
  BY DEF Revoke
<1>4. CASE stored[s] # Null
  BY <1>1, <1>2, <1>3, <1>4, EndOK DEF NoChange
<1>5. CASE stored[s] = Null
  BY <1>1, <1>2, <1>3, <1>5, QuietOK
<1>6. QED
  BY <1>4, <1>5

LEMMA LoseOK == ASSUME IInv, NEW r \in Requests, Lose(r) PROVE IInv'
BY IdleOK, RequestOnly DEF Lose

\* The cookies of an answer replace those of the jar, both token cookies or
\* neither, and decide whether the jar has the token of its session's record.
LEMMA ReceiveOK == ASSUME IInv, NEW r \in Requests, Receive(r) PROVE IInv'
<1> USE DEF IInv
<1> DEFINE a == req[r].answer
           t == CookieOf(a.set, "auth_token")
           new == Jar(a.set)
           names == (DOMAIN jar \ a.clear) \cup DOMAIN new
<1>1. /\ req[r].pc = "answered"
      /\ jar' = [n \in names |-> IF n \in DOMAIN new THEN new[n] ELSE jar[n]]
      /\ current' = IF t = Null THEN current
                    ELSE IF stored[t.sid] = t THEN current \cup {t.sid} ELSE current \ {t.sid}
      /\ req' = [req EXCEPT ![r] = Idle]
      /\ UNCHANGED <<now, stored, pending, accounts, life>>
  BY DEF Receive
<1>2. Typed(a.set) /\ AnswerOK(a, life, stored)
  BY <1>1 DEF TypeOK, Shaped, RequestsOK, RequestOK
<1>3. /\ DOMAIN new = DOMAIN a.set
      /\ \A n \in DOMAIN a.set : /\ new[n].value = a.set[n]
                                 /\ new[n].expires = now + MaxAge[n]
  BY DEF Jar
<1>4. /\ DOMAIN a.set \subseteq {"auth_token", "refresh_token", "otp_session"}
      /\ \A n \in DOMAIN a.set : MaxAge[n] \in Nat
      /\ MaxAge["auth_token"] <= MaxAge["refresh_token"]
  BY <1>2, EdgeAssumption DEF Typed, MaxAge
<1>5. /\ DOMAIN jar' = names
      /\ \A n \in names : jar'[n] = IF n \in DOMAIN new THEN new[n] ELSE jar[n]
  BY <1>1
<1>6. Later
  BY <1>1 DEF Later
<1>7. DOMAIN req' = Requests /\ (\A x \in Requests : Shaped(req'[x])) /\ RequestsOK'
  BY <1>1, <1>6, IdleOK, OneRequest
<1>8. /\ \A n \in names : n \in DOMAIN MaxAge /\ jar'[n].expires \in Nat
                       /\ jar'[n].value \in IF n = "otp_session" THEN Sids ELSE Claims
  <2>1. \A n \in DOMAIN jar : n \in DOMAIN MaxAge /\ jar[n].expires \in Nat
                       /\ jar[n].value \in IF n = "otp_session" THEN Sids ELSE Claims
    BY DEF TypeOK, Typed
  <2>2. \A n \in DOMAIN new : n \in DOMAIN MaxAge /\ new[n].expires \in Nat
                       /\ new[n].value \in IF n = "otp_session" THEN Sids ELSE Claims
    BY <1>2, <1>3, <1>4 DEF Typed, TypeOK
  <2> HIDE DEF new, a
  <2>3. QED
    BY <1>5, <2>1, <2>2
<1>9. Typed([n \in DOMAIN jar' |-> jar'[n].value])
  BY <1>5, <1>8 DEF Typed
<1> HIDE DEF new, names
<1>10. CASE "auth_token" \in DOMAIN a.set
  <2>1. /\ "refresh_token" \in DOMAIN a.set /\ a.set["auth_token"] = a.set["refresh_token"]
        /\ t = a.set["auth_token"] /\ Minted(t, life, stored) /\ t # Null
    BY <1>2, <1>10, NullAssumption DEF AnswerOK, CookieOf, Minted
  <2>2. /\ {"auth_token", "refresh_token"} \subseteq DOMAIN jar'
        /\ jar'["auth_token"].value = t /\ jar'["refresh_token"].value = t
        /\ jar'["auth_token"].expires <= jar'["refresh_token"].expires
    <3>1. "auth_token" \in names /\ "refresh_token" \in names
      BY <1>3, <1>10, <2>1 DEF names
    <3>2. /\ jar'["auth_token"] = new["auth_token"] /\ jar'["refresh_token"] = new["refresh_token"]
          /\ new["auth_token"].expires <= new["refresh_token"].expires
      BY <1>3, <1>4, <1>5, <1>10, <2>1, <3>1 DEF TypeOK
    <3>3. QED
      BY <1>3, <1>5, <1>10, <2>1, <3>1, <3>2
  <2>3. t.sid \in current' => stored[t.sid] = t
    BY <1>1, <2>1
  <2>4. JarOK'
    BY <1>1, <2>1, <2>2, <2>3 DEF JarOK
  <2>5. current' \subseteq Sids
    BY <1>1, <2>1 DEF TypeOK, Minted, Claims
  <2>6. QED
    BY <1>1, <1>5, <1>7, <1>8, <1>9, <2>4, <2>5 DEF TypeOK, SessionsOK
<1>11. CASE "auth_token" \notin DOMAIN a.set
  <2>1. "refresh_token" \notin DOMAIN a.set /\ current' = current
    BY <1>1, <1>2, <1>11 DEF AnswerOK, CookieOf
  <2>2. \A n \in {"auth_token", "refresh_token"} :
          /\ n \in DOMAIN jar' <=> n \in DOMAIN jar \ a.clear
          /\ n \in DOMAIN jar' => jar'[n] = jar[n]
    BY <1>3, <1>5, <1>11, <2>1 DEF names
  <2>3. "refresh_token" \in a.clear => "auth_token" \in a.clear
    BY <1>2 DEF AnswerOK
  <2>4. JarOK'
    BY <1>1, <2>1, <2>2, <2>3 DEF JarOK
  <2>5. QED
    BY <1>1, <1>5, <1>7, <1>8, <1>9, <2>1, <2>4 DEF TypeOK, SessionsOK
<1>12. QED
  BY <1>10, <1>11

\* The access cookie expires no later than the refresh cookie.
LEMMA TickOK == ASSUME IInv, Tick PROVE IInv'
<1> USE DEF IInv
<1>1. /\ now' \in 0..MaxTime /\ DOMAIN jar' = {n \in DOMAIN jar : now' < jar[n].expires}
      /\ \A n \in DOMAIN jar' : jar'[n] = jar[n]
      /\ UNCHANGED <<stored, pending, accounts, life, current, req>>
  BY EdgeAssumption DEF Tick, TypeOK
<1>2. Typed([n \in DOMAIN jar' |-> jar'[n].value]) /\ \A n \in DOMAIN jar' : jar'[n].expires \in Nat
  BY <1>1 DEF TypeOK, Typed
<1>3. JarOK'
  BY <1>1 DEF JarOK, TypeOK
<1>4. QED
  BY <1>1, <1>2, <1>3 DEF TypeOK, SessionsOK, RequestsOK

LEMMA InitOK == Init => IInv
<1> SUFFICES ASSUME Init PROVE IInv
  OBVIOUS
<1>1. TypeOK
  BY IdleOK, EdgeAssumption DEF Init, TypeOK, Typed, NoCookies, MaxAge
<1>2. JarOK /\ SessionsOK
  BY DEF Init, JarOK, SessionsOK, NoCookies
<1>3. RequestsOK
  BY IdleOK DEF Init, RequestsOK
<1>4. QED
  BY <1>1, <1>2, <1>3 DEF IInv

\* What a request may come with is headers.
LEMMA InboundHeaders == \A route \in Routes : Inbound(route) \subseteq Headers
BY DEF Inbound, Headers, NoIdentity

LEMMA NextOK == IInv /\ [Next]_vars => IInv'
<1> SUFFICES ASSUME IInv, [Next]_vars PROVE IInv'
  OBVIOUS
<1>1. CASE UNCHANGED vars
  BY <1>1 DEF vars, IInv, TypeOK, JarOK, SessionsOK, RequestsOK
<1>2. CASE Tick
  BY <1>2, TickOK
<1>3. ASSUME NEW r \in Requests, NEW route \in Routes, NEW named \in BOOLEAN,
             NEW h \in Inbound(route), Send(r, route, named, h)
      PROVE  IInv'
  BY <1>3, InboundHeaders, SendOK
<1>4. QED
  BY <1>1, <1>2, <1>3, RefuseOK, LoginOK, SendOtpOK, VerifyOtpOK, RefreshOK, LogoutOK, LogoutAllOK,
     RevokeOK, ReadOK, ReceiveOK, LoseOK DEF Next

-----------------------------------------------------------------------------
(* Theorems                                                                *)

\* The invariant holds in every reachable state: no jar, request or answer
\* mixes two sessions, and every token around is of its session's user.
THEOREM CookiesInvariant == Spec => []IInv
BY InitOK, NextOK, PTL DEF Spec

\* The middlewares and the handlers keep the shapes of cookies, headers,
\* records and requests.
THEOREM TypeCorrect == Spec => []TypeOK
BY CookiesInvariant, PTL DEF IInv

\* Whoever starts to act for somebody is one of the four handlers behind
\* requireUser and sessionMiddleware, and acts as its headers say.
LEMMA OnlyGuardedAct ==
  ASSUME IInv, Next, NEW r \in Requests, req[r].as = Null, req'[r].as # Null
  PROVE  /\ Logout(r) \/ LogoutAll(r) \/ Revoke(r) \/ Read(r)
         /\ req[r].pc = "admitted" /\ Through(req[r].headers)
         /\ req'[r].as = req[r].headers
<1> USE DEF IInv
<1>1. ASSUME NEW x \in Requests, NEW q, req' = [req EXCEPT ![x] = q], q.as = Null
      PROVE  FALSE
  BY <1>1 DEF TypeOK
<1>2. \A as, a : Answered(as, a).as = as
  BY DEF Answered, Idle
<1>3. ~ Tick
  BY DEF Tick
<1>4. ASSUME NEW x \in Requests, NEW route \in Routes, NEW named \in BOOLEAN,
             NEW h \in Inbound(route), Send(x, route, named, h)
      PROVE  FALSE
  <2>1. PICK q : q.as = Null /\ req' = [req EXCEPT ![x] = q]
    BY <1>2, <1>4, IdleOK DEF Send, Idle
  <2>2. QED
    BY <1>1, <2>1
<1>5. ASSUME NEW x \in Requests, NEW a, Respond(x, Null, a) PROVE FALSE
  BY <1>1, <1>2, <1>5 DEF Respond
<1>6. ASSUME NEW x \in Requests, Refuse(x) \/ Login(x) \/ SendOtp(x) \/ VerifyOtp(x) \/ Refresh(x)
      PROVE  FALSE
  BY <1>5, <1>6 DEF Refuse, Login, SendOtp, VerifyOtp, Refresh
<1>7. ASSUME NEW x \in Requests, Receive(x) \/ Lose(x) PROVE FALSE
  BY <1>1, <1>7, IdleOK DEF Receive, Lose
<1>8. PICK x \in Requests : Logout(x) \/ LogoutAll(x) \/ Revoke(x) \/ Read(x)
  BY <1>3, <1>4, <1>6, <1>7 DEF Next
<1>9. /\ req[x].pc = "admitted" /\ Through(req[x].headers)
      /\ \E a : Respond(x, req[x].headers, a)
  BY <1>8 DEF Logout, LogoutAll, LogoutOf, Revoke, Read, Serving
<1>10. PICK a : req' = [req EXCEPT ![x] = Answered(req[x].headers, a)]
  BY <1>9 DEF Respond
<1>11. x = r
  BY <1>10 DEF TypeOK
<1>12. QED
  BY <1>2, <1>8, <1>9, <1>10, <1>11 DEF TypeOK

\* Who acts is named by the token the gateway has verified, in its session,
\* which has a record.
LEMMA ActsAsVerified ==
  ASSUME IInv, Next, NEW r \in Requests, req[r].as = Null, req'[r].as # Null
  PROVE  /\ AdmittedOK(req[r], life, stored)
         /\ req[r].verified # Null /\ req'[r].as = Identity(req[r].verified)
         /\ req[r].key = req[r].verified.user
         /\ req'[r].as.session = req[r].verified.sid
         /\ req[r].verified.sid \in Sids /\ stored[req[r].verified.sid] # Null
<1>1. req[r].pc = "admitted" /\ Through(req[r].headers) /\ req'[r].as = req[r].headers
  BY OnlyGuardedAct
<1>2. AdmittedOK(req[r], life, stored)
  BY <1>1 DEF IInv, RequestsOK, RequestOK
<1>3. req[r].verified # Null
  BY <1>1, <1>2 DEF AdmittedOK, Through, Named
<1>4. Minted(req[r].verified, life, stored) /\ req[r].headers = Identity(req[r].verified)
      /\ req[r].key = req[r].verified.user
  BY <1>2, <1>3 DEF AdmittedOK
<1>5. req[r].headers.session = req[r].verified.sid
  BY <1>4 DEF Identity
<1>6. QED
  BY <1>1, <1>2, <1>3, <1>4, <1>5 DEF Minted, Claims, Through, Known

\* No headers from outside make a handler act for anybody: it acts for the
\* user of the token verified for this request, at that user's expense.
THEOREM ActsOnlyForVerified == Spec => ActsForVerified
<1> DEFINE P(r) == req[r].as = Null /\ req'[r].as # Null =>
                     /\ req[r].verified # Null
                     /\ req'[r].as = Identity(req[r].verified)
                     /\ req[r].key = req[r].verified.user
<1>1. IInv /\ [Next]_vars => [\A r \in Requests : P(r)]_vars
  BY ActsAsVerified
<1>2. QED
  BY <1>1, CookiesInvariant, PTL DEF Spec, ActsForVerified

\* A handler behind the session middleware acts in a session that a login made
\* and nothing has ended.
THEOREM ActsOnlyInLogin == Spec => ActsInLogin
<1> DEFINE P(r) == req[r].as = Null /\ req'[r].as # Null => life[req'[r].as.session] = "login"
<1>1. IInv /\ [Next]_vars => [\A r \in Requests : P(r)]_vars
  BY ActsAsVerified DEF IInv, SessionsOK
<1>2. QED
  BY <1>1, CookiesInvariant, PTL DEF Spec, ActsInLogin

\* The refresh cookie that logout reads is of the session the request was
\* admitted with, so that it is that session which ends.
LEMMA OwnEnds ==
  ASSUME IInv, Next, NEW r \in Requests, req[r].as = Null, req'[r].as # Null,
         req[r].route \in {"logout", "logoutAll"}
  PROVE  stored'[req'[r].as.session] = Null
<1> DEFINE t == CookieOf(req[r].cookies, "refresh_token")
           v == req[r].verified
<1>1. /\ AdmittedOK(req[r], life, stored) /\ v # Null /\ req'[r].as.session = v.sid
      /\ v.sid \in Sids /\ stored[v.sid] # Null
  BY ActsAsVerified
<1>2. Logout(r) \/ LogoutAll(r)
  BY OnlyGuardedAct DEF Revoke, Read, Serving
<1>3. t # Null /\ req[r].pc = "admitted"
  BY <1>2 DEF Logout, LogoutAll, Serving
<1>4. "refresh_token" \in DOMAIN req[r].cookies /\ t = req[r].cookies["refresh_token"]
  BY <1>3, CookieMinted DEF CookieOf
<1>5. t = v /\ Minted(v, life, stored)
  BY <1>1, <1>4 DEF AdmittedOK
<1>6. CASE Logout(r)
  <2>1. EndSessions({t.sid})
    BY <1>6 DEF Logout, LogoutOf
  <2>2. QED
    BY <1>1, <1>5, <2>1 DEF EndSessions
<1>7. CASE LogoutAll(r)
  <2>1. EndSessions(SessionsOf(t.user))
    BY <1>7 DEF LogoutAll, LogoutOf
  <2>2. v.sid \in SessionsOf(t.user)
    BY <1>1, <1>5 DEF Minted, SessionsOf
  <2>3. QED
    BY <1>1, <2>1, <2>2 DEF EndSessions
<1>8. QED
  BY <1>2, <1>6, <1>7

\* logout and logoutAll end the session of the access token they came with.
THEOREM LogoutEndsItsOwn == Spec => LogoutEndsOwn
<1> DEFINE P(r) == req[r].as = Null /\ req'[r].as # Null /\ req[r].route \in {"logout", "logoutAll"}
                     => stored'[req'[r].as.session] = Null
<1>1. IInv /\ [Next]_vars => [\A r \in Requests : P(r)]_vars
  BY OwnEnds
<1>2. QED
  BY <1>1, CookiesInvariant, PTL DEF Spec, LogoutEndsOwn

\* A token is only taken for a stolen one if the last answer of the session to
\* have arrived did not bring the token that is stored.
THEOREM ReuseIsExplained == Spec => ReuseExplained
<1> DEFINE P(r) == Serving(r, "refresh") /\ req'[r].pc = "answered" =>
                     LET t == CookieOf(req[r].cookies, "refresh_token") IN
                     t # Null /\ stored[t.sid] \notin {t, Null} => req[r].newest # stored[t.sid]
<1>1. ASSUME IInv, NEW r \in Requests, Serving(r, "refresh") PROVE P(r)
  BY <1>1, CookieMinted DEF IInv, RequestsOK, RequestOK, AdmittedOK, Serving, CookieOf
<1>2. IInv /\ [Next]_vars => [\A r \in Requests : P(r)]_vars
  BY <1>1
<1>3. QED
  BY <1>2, CookiesInvariant, PTL DEF Spec, ReuseExplained

-----------------------------------------------------------------------------
(* The sessions of the handlers are those of SessionStore                  *)

\* A record is seen as its user and the time its token was signed.
LEMMA ViewOf ==
  /\ View(Null) = Null
  /\ \A t \in Claims : /\ View(t) # Null /\ View(t) = [user |-> t.user, iat |-> t.iat]
                        /\ View(t).user = t.user
BY NullAssumption DEF View, Claims

\* Sessions whose ids were given out end, and nothing else happens to sessions.
LEMMA EndsInStore ==
  ASSUME IInv, NEW S \in SUBSET Sids, \A s \in S : life[s] # "unused",
         EndSessions(S), now' = now
  PROVE  Store!End(S)
<1>1. \A s \in Sids : stored'[s] = IF s \in S THEN Null ELSE stored[s]
  BY DEF EndSessions
<1>2. Fresh' = Fresh
  BY DEF EndSessions, Fresh
<1>3. [s \in Sids |-> View(stored'[s])] = Store!Without(S)
  BY <1>1, ViewOf DEF Store!Without
<1>4. {s \in Sids : stored'[s] # Null} = {s \in Sids : stored[s] # Null} \ S
  BY <1>1
<1>5. QED
  BY <1>2, <1>3, <1>4 DEF Store!End

\* All sessions of a user end.
LEMMA EndsAllInStore ==
  ASSUME IInv, NEW u, EndSessions(SessionsOf(u)), now' = now
  PROVE  Store!EndAll(u)
<1>1. Store!SessionsOf(u) = SessionsOf(u)
  BY ViewOf DEF IInv, TypeOK, Store!SessionsOf, SessionsOf
<1>2. SessionsOf(u) \in SUBSET Sids /\ \A s \in SessionsOf(u) : life[s] # "unused"
  BY DEF IInv, SessionsOK, SessionsOf
<1>3. QED
  BY <1>1, <1>2, EndsInStore DEF Store!EndAll

LEMMA LoginKept ==
  ASSUME IInv, NEW r \in Requests, Login(r)
  PROVE  \E s \in Sids, u \in Users : Store!Open(s, u)
<1> USE DEF IInv
<1>1. PICK u \in accounts, s \in Fresh :
        /\ stored' = [stored EXCEPT ![s] = [user |-> u, sid |-> s, iat |-> now]]
        /\ life' = [life EXCEPT ![s] = "login"]
  BY DEF Login
<1> DEFINE t == [user |-> u, sid |-> s, iat |-> now]
<1>2. /\ s \in Sids /\ u \in Users /\ now' = now
      /\ t \in Claims /\ t.user = u /\ t.iat = now
      /\ stored' = [stored EXCEPT ![s] = t]
  BY <1>1 DEF TypeOK, Claims, Fresh, Login
<1> HIDE DEF t
<1>3. stored'[s] = t /\ \A x \in Sids \ {s} : stored'[x] = stored[x]
  BY <1>2 DEF TypeOK
<1>4. [x \in Sids |-> View(stored'[x])]
        = [[x \in Sids |-> View(stored[x])] EXCEPT ![s] = [user |-> u, iat |-> now]]
  <2>1. View(t) = [user |-> u, iat |-> now]
    BY <1>2, ViewOf
  <2>2. \A x \in Sids : View(stored'[x]) = IF x = s THEN View(t) ELSE View(stored[x])
    BY <1>2, <1>3
  <2>3. QED
    BY <1>2, <2>1, <2>2
<1>5. {x \in Sids : stored'[x] # Null} = {x \in Sids : stored[x] # Null} \cup {s}
  BY <1>2, <1>3, NullAssumption
<1>6. Sids \ Fresh' = (Sids \ Fresh) \cup {s}
  BY <1>1, <1>2 DEF TypeOK, Fresh
<1>7. QED
  BY <1>1, <1>2, <1>4, <1>5, <1>6 DEF Store!Open

LEMMA SendOtpKept ==
  ASSUME IInv, NEW r \in Requests, SendOtp(r)
  PROVE  \E s \in Sids : Store!Spend(s)
<1>1. PICK s \in Fresh : life' = [life EXCEPT ![s] = "otp"]
  BY DEF SendOtp
<1>2. s \in Sids /\ now' = now /\ stored' = stored
  BY DEF SendOtp, Fresh
<1>3. Sids \ Fresh' = (Sids \ Fresh) \cup {s}
  BY <1>1, <1>2 DEF IInv, TypeOK, Fresh
<1>4. QED
  BY <1>1, <1>2, <1>3 DEF Store!Spend

LEMMA RefreshKept ==
  ASSUME IInv, NEW r \in Requests, Refresh(r)
  PROVE  \/ \E s \in Sids : Store!End({s}) \/ Store!Rotate(s)
         \/ \E u \in Users : Store!EndAll(u)
<1> DEFINE t == CookieOf(req[r].cookies, "refresh_token")
           new == [t EXCEPT !.iat = now]
<1>1. /\ t # Null /\ req[r].pc = "admitted" /\ now' = now
      /\ \/ EndSessions({t.sid})
         \/ EndSessions(SessionsOf(t.user))
         \/ /\ stored[t.sid] = t /\ stored' = [stored EXCEPT ![t.sid] = new]
            /\ life' = life
  BY DEF Refresh, Serving
<1>2. t \in Claims /\ t.sid \in Sids /\ t.user \in Users /\ life[t.sid] # "unused"
  BY <1>1, CookieMinted DEF Minted, Claims
<1> HIDE DEF t
<1>3. CASE EndSessions({t.sid})
  BY <1>1, <1>2, <1>3, EndsInStore
<1>4. CASE EndSessions(SessionsOf(t.user))
  BY <1>1, <1>2, <1>4, EndsAllInStore
<1>5. CASE /\ stored[t.sid] = t /\ stored' = [stored EXCEPT ![t.sid] = new]
           /\ life' = life
  <2>1. new \in Claims /\ new.user = t.user /\ new.iat = now
    BY <1>2 DEF Claims, IInv, TypeOK
  <2> HIDE DEF new
  <2>2. stored'[t.sid] = new /\ \A x \in Sids \ {t.sid} : stored'[x] = stored[x]
    BY <1>2, <1>5 DEF IInv, TypeOK
  <2>3. [x \in Sids |-> View(stored'[x])]
          = [[x \in Sids |-> View(stored[x])] EXCEPT ![t.sid].iat = now]
    <3>1. View(new) = [View(t) EXCEPT !.iat = now]
      BY <1>2, <2>1, ViewOf
    <3>2. QED
      BY <1>2, <1>5, <2>2, <3>1
  <2>4. {x \in Sids : stored'[x] # Null} = {x \in Sids : stored[x] # Null}
    BY <1>2, <1>5, <2>1, <2>2, NullAssumption
  <2>5. Store!Rotate(t.sid)
    BY <1>1, <1>2, <1>5, <2>3, <2>4, ViewOf DEF Store!Rotate, Fresh
  <2>6. QED
    BY <1>2, <2>5
<1>6. QED
  BY <1>1, <1>3, <1>4, <1>5

LEMMA LogoutKept ==
  ASSUME IInv, NEW r \in Requests, Logout(r) \/ LogoutAll(r)
  PROVE  \/ \E s \in Sids : Store!End({s})
         \/ \E u \in Users : Store!EndAll(u)
<1> DEFINE t == CookieOf(req[r].cookies, "refresh_token")
<1>1. /\ t # Null /\ req[r].pc = "admitted" /\ now' = now
      /\ EndSessions({t.sid}) \/ EndSessions(SessionsOf(t.user))
  BY DEF Logout, LogoutAll, LogoutOf, Serving
<1>2. t.sid \in Sids /\ t.user \in Users /\ life[t.sid] # "unused"
  BY <1>1, CookieMinted DEF Minted, Claims
<1> HIDE DEF t
<1>3. QED
  BY <1>1, <1>2, EndsInStore, EndsAllInStore

LEMMA RevokeKept ==
  ASSUME IInv, NEW r \in Requests, Revoke(r)
  PROVE  (\E s \in Sids : Store!End({s})) \/ UNCHANGED <<now, stored, life>>
<1>1. PICK s \in Sids : IF stored[s] # Null THEN EndSessions({s}) ELSE UNCHANGED <<stored, life>>
  BY DEF Revoke
<1>2. now' = now
  BY DEF Revoke
<1>3. stored[s] # Null => life[s] # "unused"
  BY DEF IInv, SessionsOK
<1>4. QED
  BY <1>1, <1>2, <1>3, EndsInStore

\* A session's record outlives the model's clock, so that time ends none.
LEMMA TickKept ==
  ASSUME IInv, Tick
  PROVE  Store!Tick
<1>1. now' = now + 1 /\ stored' = stored /\ life' = life
  BY DEF Tick
<1>2. [s \in Sids |-> View(stored'[s])] = Store!Without({})
  BY <1>1 DEF Store!Without
<1>3. QED
  BY <1>1, <1>2 DEF Store!Tick, Fresh

\* What the handlers do to the sessions, whatever tabs, late answers and lost
\* ones make of the cookies, is what SessionStore allows: a session is opened
\* once, only its user's requests end it, and it never comes back.
THEOREM ImplementsStore == Spec => KeepsStore
<1>1. Init => Store!SInit
  BY ViewOf DEF Init, Store!SInit, Fresh
<1>2. ASSUME IInv, UNCHANGED <<now, stored, life>>
      PROVE  UNCHANGED Store!svars
  BY <1>2 DEF Store!svars, Fresh
<1>3. IInv /\ [Next]_vars => [Store!SNext]_(Store!svars)
  <2> SUFFICES ASSUME IInv, [Next]_vars PROVE [Store!SNext]_(Store!svars)
    OBVIOUS
  <2>1. CASE UNCHANGED vars
    BY <1>2, <2>1 DEF vars
  <2>2. CASE Tick
    BY <2>2, TickKept DEF Store!SNext
  <2>3. ASSUME NEW r \in Requests, Login(r) \/ SendOtp(r) \/ Refresh(r) \/ Logout(r) \/ LogoutAll(r)
        PROVE  Store!SNext
    BY <2>3, LoginKept, SendOtpKept, RefreshKept, LogoutKept DEF Store!SNext
  <2>4. ASSUME NEW r \in Requests, Revoke(r) PROVE [Store!SNext]_(Store!svars)
    BY <1>2, <2>4, RevokeKept DEF Store!SNext
  <2>5. ASSUME NEW r \in Requests, Refuse(r) \/ VerifyOtp(r) \/ Read(r) \/ Receive(r) \/ Lose(r)
        PROVE  UNCHANGED Store!svars
    BY <1>2, <2>5 DEF Refuse, VerifyOtp, Read, Receive, Lose
  <2>6. ASSUME NEW r \in Requests, NEW route \in Routes, NEW named \in BOOLEAN,
               NEW h \in Inbound(route), Send(r, route, named, h)
        PROVE  UNCHANGED Store!svars
    BY <1>2, <2>6 DEF Send
  <2>7. QED
    BY <2>1, <2>2, <2>3, <2>4, <2>5, <2>6 DEF Next
<1>4. QED
  BY <1>1, <1>3, CookiesInvariant, PTL DEF Spec, KeepsStore, Store!StoreSpec
=============================================================================
