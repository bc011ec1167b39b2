------------------------------ MODULE Sessions ------------------------------
(***************************************************************************)
(* The device sessions of user-service: login, refresh, logout,            *)
(* logout-all, revoke and the session middleware, as the requests of       *)
(* several clients interleave at their Redis commands.                     *)
(*                                                                         *)
(* Redis holds one record per session (auth:session:<sid>) and one set of  *)
(* session ids per user (the index), both with a TTL.  Redis runs one      *)
(* command at a time; between two commands of one request (two awaits) any *)
(* other request may run, so each command is one action.  What a handler   *)
(* computes between two commands is part of the later one.                 *)
(***************************************************************************)
EXTENDS Integers, FiniteSets

CONSTANTS
  Users,         \* user ids (rows of the user table)
  Sids,          \* the session ids randomUUID will give out
  Fingerprints,  \* device fingerprints
  Requests,      \* slots for requests in flight
  Null,          \* an absent key, or an unused field of a request
  SessionTTL,    \* life of a session record and of an index, in ticks (30d)
  RefreshTTL,    \* life of a refresh JWT (7d)
  AccessTTL,     \* life of an access JWT (15m)
  MaxTime        \* bound of the model's clock

ASSUME TtlAssumption ==
  /\ SessionTTL \in Nat \ {0} /\ RefreshTTL \in Nat \ {0}
  /\ AccessTTL \in Nat \ {0} /\ MaxTime \in Nat
  /\ AccessTTL <= RefreshTTL

\* A refresh token is its claims: a JWT signed twice over the same claims is
\* the same string, and iat counts whole seconds (one tick).  The access token
\* signed with it carries the same subject, session and iat.
Token == [sub: Users, sid: Sids, iat: 0..MaxTime]

\* The stored hash stands for the token it was computed from (SHA-256).
Record == [userId: Users, fingerprint: Fingerprints, token: Token, expires: Nat]

ASSUME NullAssumption ==
  /\ Null \notin Users /\ Null \notin Sids /\ Null \notin Nat
  /\ Null \notin Token /\ Null \notin Record
  /\ Null \notin [userId: Users, fingerprint: Fingerprints]

VARIABLES
  now,      \* the clock
  session,  \* session[s]: the record under auth:session:<s>, or Null
  index,    \* index[u]: the user's set of session ids and when it expires
  req,      \* req[r]: the request in slot r and the data it has read
  issued,   \* tokens some client has been sent in a cookie
  birth     \* history: the user and the device login created s for, or Null

vars == <<now, session, index, req, issued, birth>>

Ops == {"read", "revoke", "logout", "logoutAll"}

Idle == [pc |-> "idle", op |-> Null, user |-> Null, sid |-> Null, fp |-> Null,
         tok |-> Null, copy |-> Null, arg |-> Null, ids |-> {}]

NoIndex == [ids |-> {}, expires |-> Null]

-----------------------------------------------------------------------------
(* Redis and JWT                                                           *)

\* SET key value EX SessionTTL
SetSession(s, rec) ==
  session' = [session EXCEPT ![s] = [rec EXCEPT !.expires = now + SessionTTL]]

\* Slip: SET where SADD is meant, the index remembers the last login only.
SAddReplacing(u, s) == index' = [index EXCEPT ![u].ids = {s}]

\* SADD keeps the TTL the set has, and starts a new set without one.
SAdd(u, s) == index' = [index EXCEPT ![u].ids = @ \cup {s}]

\* SREM removes the key with its last member.
SRem(u, s) ==
  index' = [index EXCEPT ![u] =
              IF index[u].ids \subseteq {s} THEN NoIndex
              ELSE [index[u] EXCEPT !.ids = index[u].ids \ {s}]]

\* EXPIRE does nothing to an absent key.
ExpireIndex(u) ==
  index' = [index EXCEPT ![u] =
              IF index[u].ids = {} THEN NoIndex
              ELSE [index[u] EXCEPT !.expires = now + SessionTTL]]

\* jwt.verify of a refresh token, and the gateway's of the access token.
RefreshValid(t) == now < t.iat + RefreshTTL
AccessValid(t) == now < t.iat + AccessTTL

-----------------------------------------------------------------------------
(* Requests                                                                *)

Finish(r) == req' = [req EXCEPT ![r] = Idle]

Goto(r, l) == req' = [req EXCEPT ![r].pc = l]

\* login: the password matched; sign for a fresh id and SET the record.
Login(r, u, f) ==
  /\ req[r].pc = "idle"
  /\ \E s \in {x \in Sids : birth[x] = Null} :
       LET t == [sub |-> u, sid |-> s, iat |-> now] IN
       /\ SetSession(s, [userId |-> u, fingerprint |-> f, token |-> t, expires |-> now])
       /\ birth' = [birth EXCEPT ![s] = [userId |-> u, fingerprint |-> f]]
       /\ req' = [req EXCEPT ![r] = [Idle EXCEPT !.pc = "loginSadd", !.user = u,
                                                 !.sid = s, !.tok = t]]
  /\ UNCHANGED <<now, index, issued>>

LoginSadd(r) ==
  /\ req[r].pc = "loginSadd"
  /\ SAdd(req[r].user, req[r].sid)
  /\ Goto(r, "loginExpire")
  /\ UNCHANGED <<now, session, issued, birth>>

\* EXPIRE the index and answer with the tokens.  The welcome event published
\* before the answer is best effort: a failure is caught and changes nothing.
LoginExpire(r) ==
  /\ req[r].pc = "loginExpire"
  /\ ExpireIndex(req[r].user)
  /\ issued' = issued \cup {req[r].tok}
  /\ Finish(r)
  /\ UNCHANGED <<now, session, birth>>

\* Slip: no fingerprint check.
AnyDevice(rec, f) == TRUE

SameDevice(rec, f) == rec.fingerprint = f

\* Slip: a session that is gone is rebuilt from the claims of the token.
RefreshRecreating(r, t, f) ==
  /\ req[r].pc = "idle" /\ t \in issued /\ RefreshValid(t)
  /\ req' = [req EXCEPT ![r] =
       [Idle EXCEPT !.pc = "rotate", !.user = t.sub, !.sid = t.sid, !.fp = f,
          !.copy = IF session[t.sid] # Null THEN session[t.sid]
                   ELSE [userId |-> t.sub, fingerprint |-> f, token |-> t, expires |-> now]]]
  /\ UNCHANGED <<now, session, index, issued, birth>>

\* refresh: verify the cookie, GET the session (absent: 401, nothing changes);
\* another device ends this session, a token that is not the stored one ends
\* every session of the user.
Refresh(r, t, f) ==
  /\ req[r].pc = "idle"
  /\ t \in issued
  /\ RefreshValid(t)
  /\ session[t.sid] # Null
  /\ LET rec == session[t.sid] IN
     req' = [req EXCEPT ![r] =
       [Idle EXCEPT
          !.pc = IF ~ SameDevice(rec, f) THEN "del"
                 ELSE IF rec.token # t THEN "smembers" ELSE "rotate",
          !.user = t.sub, !.sid = t.sid, !.fp = f,
          !.copy = IF SameDevice(rec, f) /\ rec.token = t THEN rec ELSE Null]]
  /\ UNCHANGED <<now, session, index, issued, birth>>

\* Slip: the new hash is computed and not stored.
NotRotated(rec, t) == rec

Rotated(rec, t) == [rec EXCEPT !.token = t]

\* ... the user is found, a new token is signed, the record read above is SET
\* back with the new hash, and the token goes out in an answer that may get lost.
RefreshRotate(r) ==
  /\ req[r].pc = "rotate"
  /\ LET t == [sub |-> req[r].user, sid |-> req[r].sid, iat |-> now] IN
       /\ SetSession(req[r].sid, Rotated(req[r].copy, t))
       /\ \E sent \in SUBSET {t} : issued' = issued \cup sent
  /\ Finish(r)
  /\ UNCHANGED <<now, index, birth>>

\* What the handler behind the middleware is asked for: revokeSession any
\* session id, logout and logoutAll a refresh cookie, which need not belong
\* to the access token of the same request.
Args(op) == CASE op = "revoke" -> Sids
              [] op = "read" -> {Null}
              [] OTHER -> issued

\* sessionMiddleware: GET the session of the access token (absent: 401).
Authenticate(r, t, op, arg) ==
  /\ req[r].pc = "idle"
  /\ t \in issued
  /\ AccessValid(t)
  /\ session[t.sid] # Null
  /\ req' = [req EXCEPT ![r] = [Idle EXCEPT !.pc = "touch", !.op = op, !.user = t.sub,
                                            !.sid = t.sid, !.arg = arg,
                                            !.copy = session[t.sid]]]
  /\ UNCHANGED <<now, session, index, issued, birth>>

\* SET the record back as it was read, with a new lastUsedAt and TTL.
Touch(r) ==
  /\ req[r].pc = "touch"
  /\ SetSession(req[r].sid, req[r].copy)
  /\ req' = [req EXCEPT ![r].pc = "touchIndex", ![r].copy = Null]
  /\ UNCHANGED <<now, index, issued, birth>>

\* EXPIRE the index, then next(): the handler starts.  logout and logoutAll
\* verify the refresh cookie and act for its subject and session.
TouchIndex(r) ==
  /\ req[r].pc = "touchIndex"
  /\ ExpireIndex(req[r].user)
  /\ LET q == req[r] IN
     req' = [req EXCEPT ![r] =
       CASE q.op = "revoke" ->
              [Idle EXCEPT !.pc = "revokeGet", !.user = q.user, !.sid = q.arg]
         [] q.op = "logout" /\ RefreshValid(q.arg) ->
              [Idle EXCEPT !.pc = "del", !.user = q.arg.sub, !.sid = q.arg.sid]
         [] q.op = "logoutAll" /\ RefreshValid(q.arg) ->
              [Idle EXCEPT !.pc = "smembers", !.user = q.arg.sub]
         [] OTHER -> Idle]
  /\ UNCHANGED <<now, session, issued, birth>>

\* Slip: no ownership check.
AnyoneMayRevoke(u, rec) == TRUE

MayRevoke(u, rec) == rec.userId = u

\* revokeSession: GET the target; absent: done, another user's: 403.
RevokeGet(r) ==
  /\ req[r].pc = "revokeGet"
  /\ LET rec == session[req[r].sid] IN
     IF rec # Null /\ MayRevoke(req[r].user, rec) THEN Goto(r, "del") ELSE Finish(r)
  /\ UNCHANGED <<now, session, index, issued, birth>>

\* The two commands that end revokeSession and are all of logout.
Del(r) ==
  /\ req[r].pc = "del"
  /\ session' = [session EXCEPT ![req[r].sid] = Null]
  /\ Goto(r, "srem")
  /\ UNCHANGED <<now, index, issued, birth>>

Srem(r) ==
  /\ req[r].pc = "srem"
  /\ SRem(req[r].user, req[r].sid)
  /\ Finish(r)
  /\ UNCHANGED <<now, session, issued, birth>>

\* Slip: the test for an empty index is off by one.
HasSeveral(ids) == Cardinality(ids) > 1

HasSessions(ids) == ids # {}

\* logoutAll: SMEMBERS, DEL the records it named (if any), DEL the index.
Smembers(r) ==
  /\ req[r].pc = "smembers"
  /\ LET u == req[r].user IN
     req' = [req EXCEPT ![r] =
       [Idle EXCEPT !.pc = IF HasSessions(index[u].ids) THEN "delAll" ELSE "delIndex",
                    !.user = u, !.ids = index[u].ids]]
  /\ UNCHANGED <<now, session, index, issued, birth>>

DelAll(r) ==
  /\ req[r].pc = "delAll"
  /\ session' = [s \in Sids |-> IF s \in req[r].ids THEN Null ELSE session[s]]
  /\ Goto(r, "delIndex")
  /\ UNCHANGED <<now, index, issued, birth>>

DelIndex(r) ==
  /\ req[r].pc = "delIndex"
  /\ index' = [index EXCEPT ![req[r].user] = NoIndex]
  /\ Finish(r)
  /\ UNCHANGED <<now, session, issued, birth>>

\* A Redis command fails or the process dies: the request stops where it is,
\* what it has written stays, and the client gets no token.
Abort(r) ==
  /\ req[r].pc # "idle"
  /\ Finish(r)
  /\ UNCHANGED <<now, session, index, issued, birth>>

\* Time passes and Redis drops the keys whose TTL has run out.
Tick ==
  /\ now < MaxTime
  /\ now' = now + 1
  /\ session' = [s \in Sids |-> IF session[s] # Null /\ session[s].expires <= now + 1
                                THEN Null ELSE session[s]]
  /\ index' = [u \in Users |-> IF index[u].expires # Null /\ index[u].expires <= now + 1
                               THEN NoIndex ELSE index[u]]
  /\ UNCHANGED <<req, issued, birth>>

-----------------------------------------------------------------------------
Init ==
  /\ now = 0
  /\ session = [s \in Sids |-> Null]
  /\ index = [u \in Users |-> NoIndex]
  /\ req = [r \in Requests |-> Idle]
  /\ issued = {}
  /\ birth = [s \in Sids |-> Null]

\* A request arrives.
Arrive(r) ==
  \/ \E u \in Users, f \in Fingerprints : Login(r, u, f)
  \/ \E t \in issued, f \in Fingerprints : Refresh(r, t, f)
  \/ \E t \in issued, op \in Ops : \E arg \in Args(op) : Authenticate(r, t, op, arg)

\* A request in flight runs its next Redis command.
Step(r) ==
  \/ LoginSadd(r) \/ LoginExpire(r) \/ RefreshRotate(r)
  \/ Touch(r) \/ TouchIndex(r) \/ RevokeGet(r)
  \/ Del(r) \/ Srem(r) \/ Smembers(r) \/ DelAll(r) \/ DelIndex(r)

Next ==
  \/ \E r \in Requests : Arrive(r) \/ Step(r) \/ Abort(r)
  \/ Tick

Spec == Init /\ [][Next]_vars

-----------------------------------------------------------------------------
(* Properties                                                              *)

Pcs == {"idle", "loginSadd", "loginExpire", "rotate", "touch", "touchIndex",
        "revokeGet", "del", "srem", "smembers", "delAll", "delIndex"}

Request == [pc: Pcs, op: Ops \cup {Null}, user: Users \cup {Null},
            sid: Sids \cup {Null}, fp: Fingerprints \cup {Null},
            tok: Token \cup {Null}, copy: Record \cup {Null},
            arg: Sids \cup Token \cup {Null}, ids: SUBSET Sids]

\* The clock, the keys of Redis, the requests and the cookies have the shapes
\* the handlers read and write.
TypeOK ==
  /\ now \in 0..MaxTime
  /\ session \in [Sids -> Record \cup {Null}]
  /\ index \in [Users -> [ids: SUBSET Sids, expires: Nat \cup {Null}]]
  /\ req \in [Requests -> Request]
  /\ issued \subseteq Token
  /\ birth \in [Sids -> [userId: Users, fingerprint: Fingerprints] \cup {Null}]

\* Some client has been sent a token of session s.
Held(s) == \E t \in issued : t.sid = s

Quiescent == \A r \in Requests : req[r].pc = "idle"

\* Nobody else's request ends a session: a record goes away only when its TTL
\* runs out, or by the DEL of a request acting for the user who logged in.
\* revokeSession checks the owner before its DEL; logoutAll checks nobody and
\* relies on the index it read.
OnlyOwnerRevokes ==
  [][\A s \in Sids : session[s] # Null /\ session'[s] = Null =>
       \/ now' # now
       \/ \E r \in Requests :
            /\ req[r].pc \in {"del", "delAll"} /\ req'[r].pc # req[r].pc
            /\ req[r].user = birth[s].userId]_vars

\* The record of s is gone and no request still carries a copy of it.
Gone(s) ==
  /\ birth[s] # Null
  /\ session[s] = Null
  /\ \A r \in Requests : req[r].sid = s => req[r].copy = Null

\* A revocation is final once the requests that had read the record are done:
\* sessionMiddleware and refresh can bring a deleted session back, but only by
\* writing back what they read while it was alive.
RevocationFinal == [][\A s \in Sids : Gone(s) => Gone(s)']_vars

\* refresh rotates a token only for the device the session was created on and
\* the user who logged in, however the record has been written back since.
RotationBoundToLogin ==
  \A r \in Requests : req[r].pc = "rotate" =>
    birth[req[r].sid] = [userId |-> req[r].user, fingerprint |-> req[r].fp]

\* When logoutAll is done (asked for, or after a reused token), none of the
\* user's sessions that a client holds is alive.
LogoutAllEndsEverySession ==
  [][\A r \in Requests : DelIndex(r) =>
       \A s \in Sids : session'[s] # Null /\ Held(s) =>
         session'[s].userId # req[r].user]_vars

\* Between requests, while one of a user's sessions is alive, so is the index
\* (README of user-service: its TTL is "refreshed on every authenticated
\* request to outlive any single session").
IndexOutlivesSessions ==
  Quiescent => \A s \in Sids :
    session[s] # Null /\ Held(s) => index[session[s].userId].ids # {}

\* Every successful refresh replaces the token it was given (README: it "issues
\* a new refresh token" and the old one "is implicitly invalid").
RefreshReplacesToken ==
  [][\A r \in Requests : RefreshRotate(r) =>
       session'[req[r].sid].token # req[r].copy.token]_vars
=============================================================================
