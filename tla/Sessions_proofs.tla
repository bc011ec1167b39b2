--------------------------- MODULE Sessions_proofs ---------------------------
(***************************************************************************)
(* The session properties that hold for any number of users, sessions,     *)
(* devices and requests in flight, and any TTLs.                           *)
(*                                                                         *)
(* The inductive invariant says who a session belongs to.  It follows the  *)
(* user and the device from the login that created the session (birth) to  *)
(* every place the code copies them to: the record, the index, the cookies *)
(* and the data that requests carry from one Redis command to the next.    *)
(***************************************************************************)
EXTENDS SequentialSessions, TLAPS

Birth == [userId: Users, fingerprint: Fingerprints]

\* The user of session s in b, if s was ever created.
OwnedBy(b, s, u) == b[s] # Null /\ b[s].userId = u

\* The identity a record carries is that of the login.
SameIdentity(b, s, rec) ==
  b[s] # Null /\ rec.userId = b[s].userId /\ rec.fingerprint = b[s].fingerprint

\* What a request knows at each of its steps.
ReqOK(q, b) ==
  /\ q.copy # Null => q.pc \in {"rotate", "touch"}
  /\ q.pc \in {"loginSadd", "loginExpire"} =>
       /\ q.tok \in Token /\ q.user = q.tok.sub /\ q.sid = q.tok.sid
       /\ OwnedBy(b, q.sid, q.user)
  /\ q.pc = "rotate" =>
       /\ q.user \in Users /\ q.sid \in Sids /\ q.fp \in Fingerprints /\ q.copy \in Record
       /\ SameIdentity(b, q.sid, q.copy)
       /\ b[q.sid].userId = q.user /\ b[q.sid].fingerprint = q.fp
  /\ q.pc = "touch" =>
       /\ q.copy \in Record /\ q.sid \in Sids
       /\ SameIdentity(b, q.sid, q.copy)
  /\ q.pc \in {"touch", "touchIndex"} =>
       /\ q.user \in Users
       /\ q.op = "revoke" => q.arg \in Sids
       /\ q.op \in {"logout", "logoutAll"} =>
            q.arg \in Token /\ OwnedBy(b, q.arg.sid, q.arg.sub)
  /\ q.pc = "revokeGet" => q.user \in Users /\ q.sid \in Sids
  /\ q.pc \in {"del", "srem"} =>
       q.user \in Users /\ q.sid \in Sids /\ OwnedBy(b, q.sid, q.user)
  /\ q.pc \in {"smembers", "delAll", "delIndex"} => q.user \in Users
  /\ q.pc \in {"delAll", "delIndex"} => \A s \in q.ids : OwnedBy(b, s, q.user)

RecordsOK == \A s \in Sids : session[s] # Null => SameIdentity(birth, s, session[s])
IndexOK == \A u \in Users : \A s \in index[u].ids : OwnedBy(birth, s, u)
CookiesOK == \A t \in issued : OwnedBy(birth, t.sid, t.sub)
RequestsOK == \A r \in Requests : ReqOK(req[r], birth)

IInv == TypeOK /\ RecordsOK /\ IndexOK /\ CookiesOK /\ RequestsOK

-----------------------------------------------------------------------------
(* Lemmas                                                                  *)

\* A finished request knows nothing.
LEMMA IdleOK == Idle \in Request /\ \A b : ReqOK(Idle, b)
BY DEF Idle, Request, ReqOK, Pcs

\* One request changes and what it knows is right: the other requests are as
\* they were.
LEMMA OneRequest ==
  ASSUME TypeOK, RequestsOK,
         NEW r \in Requests, NEW q \in Request, ReqOK(q, birth),
         req' = [req EXCEPT ![r] = q], birth' = birth
  PROVE  req' \in [Requests -> Request] /\ RequestsOK'
<1>1. req' \in [Requests -> Request]
  BY DEF TypeOK
<1>2. ASSUME NEW x \in Requests PROVE ReqOK(req'[x], birth)
  BY <1>2 DEF TypeOK, RequestsOK
<1>3. QED
  BY <1>1, <1>2 DEF RequestsOK

\* Creating a session takes nothing back from what was known of the others.
LEMMA OwnedStays ==
  ASSUME NEW b \in [Sids -> Birth \cup {Null}], NEW s \in Sids, b[s] = Null,
         NEW v \in Birth,
         NEW q \in Request, ReqOK(q, b)
  PROVE  ReqOK(q, [b EXCEPT ![s] = v])
<1> DEFINE c == [b EXCEPT ![s] = v]
<1>1. \A x \in Sids : b[x] # Null => c[x] = b[x]
  OBVIOUS
<1>2. \A x \in Sids : \A u : OwnedBy(b, x, u) => OwnedBy(c, x, u)
  BY <1>1 DEF OwnedBy
<1>3. \A x \in Sids : \A rec : SameIdentity(b, x, rec) => SameIdentity(c, x, rec) /\ c[x] = b[x]
  BY <1>1 DEF SameIdentity
<1>4. q.ids \subseteq Sids /\ (q.tok \in Token => q.tok.sid \in Sids)
      /\ (q.arg \in Token => q.arg.sid \in Sids)
  BY DEF Request, Token
<1> HIDE DEF c
<1>5. ReqOK(q, c)
  BY <1>2, <1>3, <1>4 DEF ReqOK
<1>6. QED
  BY <1>5 DEF c

\* A SET stores a record, of the identity it was given.
LEMMA SetStores ==
  ASSUME TypeOK, NEW s \in Sids, NEW rec \in Record, SetSession(s, rec)
  PROVE  /\ session' \in [Sids -> Record \cup {Null}]
         /\ session'[s] # Null
         /\ session'[s].userId = rec.userId /\ session'[s].fingerprint = rec.fingerprint
         /\ session'[s].token = rec.token
         /\ \A x \in Sids \ {s} : session'[x] = session[x]
<1> DEFINE new == [rec EXCEPT !.expires = now + SessionTTL]
<1>1. /\ new \in Record /\ new.userId = rec.userId /\ new.fingerprint = rec.fingerprint
      /\ new.token = rec.token
  BY TtlAssumption DEF TypeOK, Record
<1>2. new # Null
  BY <1>1, NullAssumption
<1>3. session' = [session EXCEPT ![s] = new]
  BY DEF SetSession
<1> HIDE DEF new
<1>4. QED
  BY <1>1, <1>2, <1>3 DEF TypeOK

\* SADD, SREM, EXPIRE and DEL leave an index of the user's own sessions.
LEMMA IndexStep ==
  ASSUME TypeOK, IndexOK, NEW u \in Users, NEW i \in [ids: SUBSET Sids, expires: Nat \cup {Null}],
         \A s \in i.ids : OwnedBy(birth, s, u),
         index' = [index EXCEPT ![u] = i], birth' = birth
  PROVE  index' \in [Users -> [ids: SUBSET Sids, expires: Nat \cup {Null}]] /\ IndexOK'
BY DEF TypeOK, IndexOK

LEMMA ExpireIndexStep ==
  ASSUME TypeOK, IndexOK, NEW u \in Users, ExpireIndex(u), birth' = birth
  PROVE  index' \in [Users -> [ids: SUBSET Sids, expires: Nat \cup {Null}]] /\ IndexOK'
<1> DEFINE old == index[u]
           later == now + SessionTTL
           i == IF old.ids = {} THEN NoIndex ELSE [old EXCEPT !.expires = later]
<1>0. old \in [ids: SUBSET Sids, expires: Nat \cup {Null}] /\ later \in Nat
  BY TtlAssumption DEF TypeOK
<1>1. i \in [ids: SUBSET Sids, expires: Nat \cup {Null}] /\ i.ids = old.ids
  <2> HIDE DEF later, old
  <2>1. CASE old.ids = {}
    BY <2>1 DEF NoIndex
  <2>2. CASE old.ids # {}
    BY <1>0, <2>2
  <2>3. QED
    BY <2>1, <2>2
<1>2. \A s \in i.ids : OwnedBy(birth, s, u)
  BY <1>1 DEF IndexOK
<1>3. index' = [index EXCEPT ![u] = i]
  BY DEF ExpireIndex
<1> HIDE DEF i
<1>4. QED
  BY <1>1, <1>2, <1>3, IndexStep

LEMMA SRemStep ==
  ASSUME TypeOK, IndexOK, NEW u \in Users, NEW s \in Sids, SRem(u, s), birth' = birth
  PROVE  index' \in [Users -> [ids: SUBSET Sids, expires: Nat \cup {Null}]] /\ IndexOK'
<1> DEFINE i == IF index[u].ids \subseteq {s} THEN NoIndex
                ELSE [index[u] EXCEPT !.ids = index[u].ids \ {s}]
<1>1. i \in [ids: SUBSET Sids, expires: Nat \cup {Null}] /\ i.ids \subseteq index[u].ids
  BY DEF TypeOK, NoIndex
<1>2. \A x \in i.ids : OwnedBy(birth, x, u)
  BY <1>1 DEF IndexOK
<1>3. index' = [index EXCEPT ![u] = i]
  BY DEF SRem
<1> HIDE DEF i
<1>4. QED
  BY <1>1, <1>2, <1>3, IndexStep

LEMMA RecordsStep ==
  ASSUME TypeOK, RecordsOK, NEW s \in Sids, NEW rec \in Record, SetSession(s, rec),
         SameIdentity(birth, s, rec), birth' = birth
  PROVE  session' \in [Sids -> Record \cup {Null}] /\ RecordsOK'
BY SetStores DEF RecordsOK, SameIdentity

LEMMA GotoStep ==
  ASSUME TypeOK, RequestsOK, NEW r \in Requests, NEW l \in Pcs, Goto(r, l),
         ReqOK([req[r] EXCEPT !.pc = l], birth), birth' = birth
  PROVE  req' \in [Requests -> Request] /\ RequestsOK'
<1> DEFINE q == [req[r] EXCEPT !.pc = l]
<1>1. q \in Request
  BY DEF TypeOK, Request
<1>2. req' = [req EXCEPT ![r] = q]
  BY DEF Goto
<1>3. ReqOK(q, birth)
  OBVIOUS
<1> HIDE DEF q
<1>4. QED
  BY <1>1, <1>2, <1>3, OneRequest

LEMMA FinishStep ==
  ASSUME TypeOK, RequestsOK, NEW r \in Requests, Finish(r), birth' = birth
  PROVE  req' \in [Requests -> Request] /\ RequestsOK'
BY IdleOK, OneRequest DEF Finish

-----------------------------------------------------------------------------
(* Each action preserves the invariant                                     *)

LEMMA LoginOK ==
  ASSUME IInv, NEW r \in Requests, NEW u \in Users, NEW f \in Fingerprints, Login(r, u, f)
  PROVE  IInv'
<1> USE DEF IInv
<1>1. PICK s \in Sids :
        /\ birth[s] = Null
        /\ SetSession(s, [userId |-> u, fingerprint |-> f,
                          token |-> [sub |-> u, sid |-> s, iat |-> now], expires |-> now])
        /\ birth' = [birth EXCEPT ![s] = [userId |-> u, fingerprint |-> f]]
        /\ req' = [req EXCEPT ![r] = [Idle EXCEPT !.pc = "loginSadd", !.user = u, !.sid = s,
                                        !.tok = [sub |-> u, sid |-> s, iat |-> now]]]
  BY DEF Login
<1>2. now' = now /\ index' = index /\ issued' = issued
  BY DEF Login
<1> DEFINE t == [sub |-> u, sid |-> s, iat |-> now]
           rec == [userId |-> u, fingerprint |-> f, token |-> t, expires |-> now]
           v == [userId |-> u, fingerprint |-> f]
           q == [Idle EXCEPT !.pc = "loginSadd", !.user = u, !.sid = s, !.tok = t]
<1>3. t \in Token /\ t.sub = u /\ t.sid = s
  BY DEF TypeOK, Token
<1>4. rec \in Record /\ rec.userId = u /\ rec.fingerprint = f
  BY <1>3 DEF TypeOK, Record
<1>5. v \in Birth /\ v.userId = u /\ v.fingerprint = f /\ v # Null
  BY NullAssumption DEF Birth
<1>6. q \in Request /\ q.pc = "loginSadd" /\ q.tok = t /\ q.user = u /\ q.sid = s
      /\ q.copy = Null
  BY <1>3 DEF Request, Idle, Pcs
<1>7. birth \in [Sids -> Birth \cup {Null}] /\ birth' = [birth EXCEPT ![s] = v]
  BY <1>1 DEF TypeOK, Birth
<1>8. SetSession(s, rec) /\ req' = [req EXCEPT ![r] = q]
  BY <1>1
<1> HIDE DEF t, rec, v, q
<1>9. /\ birth' \in [Sids -> Birth \cup {Null}] /\ birth'[s] = v
      /\ \A x \in Sids : birth[x] # Null => birth'[x] = birth[x]
  BY <1>1, <1>5, <1>7
<1>10. session' \in [Sids -> Record \cup {Null}] /\ RecordsOK'
  BY <1>4, <1>5, <1>8, <1>9, SetStores DEF RecordsOK, SameIdentity
<1>11. IndexOK' /\ CookiesOK'
  BY <1>2, <1>9 DEF TypeOK, IndexOK, CookiesOK, OwnedBy, Token
<1>12. ReqOK(q, birth')
  BY <1>3, <1>5, <1>6, <1>9 DEF ReqOK, OwnedBy
<1>13. ASSUME NEW x \in Requests PROVE ReqOK(req'[x], birth')
  <2>1. req[x] \in Request /\ ReqOK(req[x], birth)
    BY DEF TypeOK, RequestsOK
  <2>2. ReqOK(req[x], [birth EXCEPT ![s] = v])
    <3>1. birth[s] = Null /\ v \in Birth /\ birth \in [Sids -> Birth \cup {Null}]
      BY <1>1, <1>5, <1>7
    <3>2. QED
      BY ONLY <2>1, <3>1, OwnedStays, s \in Sids
  <2>3. QED
    BY <1>7, <1>8, <1>12, <2>2 DEF TypeOK
<1>14. TypeOK'
  BY <1>2, <1>6, <1>8, <1>9, <1>10 DEF TypeOK, Birth
<1>15. QED
  BY <1>10, <1>11, <1>13, <1>14 DEF RequestsOK

LEMMA LoginSaddOK ==
  ASSUME IInv, NEW r \in Requests, LoginSadd(r)
  PROVE  IInv'
<1> USE DEF IInv
<1>1. /\ req[r] \in Request /\ req[r].pc = "loginSadd" /\ Goto(r, "loginExpire")
      /\ SAdd(req[r].user, req[r].sid)
      /\ UNCHANGED <<now, session, issued, birth>> /\ ReqOK(req[r], birth)
  BY DEF LoginSadd, TypeOK, RequestsOK
<1> DEFINE u == req[r].user
           s == req[r].sid
           i == [index[u] EXCEPT !.ids = index[u].ids \cup {s}]
<1>2. u \in Users /\ s \in Sids /\ OwnedBy(birth, s, u)
  BY <1>1 DEF ReqOK, Token
<1>3. index' = [index EXCEPT ![u] = i]
  BY <1>1 DEF SAdd
<1>4. i \in [ids: SUBSET Sids, expires: Nat \cup {Null}]
      /\ \A x \in i.ids : OwnedBy(birth, x, u)
  BY <1>2 DEF TypeOK, IndexOK
<1>5. index' \in [Users -> [ids: SUBSET Sids, expires: Nat \cup {Null}]] /\ IndexOK'
  <2> HIDE DEF i, u
  <2>1. QED
    BY <1>1, <1>2, <1>3, <1>4, IndexStep
<1>6. ReqOK([req[r] EXCEPT !.pc = "loginExpire"], birth)
  BY <1>1 DEF ReqOK, Request
<1>7. req' \in [Requests -> Request] /\ RequestsOK'
  BY <1>1, <1>6, GotoStep DEF Pcs
<1>8. QED
  BY <1>1, <1>5, <1>7 DEF TypeOK, RecordsOK, CookiesOK

LEMMA LoginExpireOK ==
  ASSUME IInv, NEW r \in Requests, LoginExpire(r)
  PROVE  IInv'
<1> USE DEF IInv
<1>1. /\ req[r].pc = "loginExpire" /\ Finish(r) /\ ExpireIndex(req[r].user)
      /\ issued' = issued \cup {req[r].tok}
      /\ UNCHANGED <<now, session, birth>> /\ ReqOK(req[r], birth)
  BY DEF LoginExpire, RequestsOK
<1>2. req[r].tok \in Token /\ req[r].user \in Users
      /\ OwnedBy(birth, req[r].tok.sid, req[r].tok.sub)
  BY <1>1 DEF ReqOK, Token
<1>3. index' \in [Users -> [ids: SUBSET Sids, expires: Nat \cup {Null}]] /\ IndexOK'
  BY <1>1, <1>2, ExpireIndexStep
<1>4. req' \in [Requests -> Request] /\ RequestsOK'
  BY <1>1, FinishStep
<1>5. QED
  BY <1>1, <1>2, <1>3, <1>4 DEF TypeOK, RecordsOK, CookiesOK

LEMMA RefreshOK ==
  ASSUME IInv, NEW r \in Requests, NEW t \in issued, NEW f \in Fingerprints, Refresh(r, t, f)
  PROVE  IInv'
<1> USE DEF IInv
<1> DEFINE rec == session[t.sid]
           q == [Idle EXCEPT
                   !.pc = IF ~ SameDevice(rec, f) THEN "del"
                          ELSE IF rec.token # t THEN "smembers" ELSE "rotate",
                   !.user = t.sub, !.sid = t.sid, !.fp = f,
                   !.copy = IF SameDevice(rec, f) /\ rec.token = t THEN rec ELSE Null]
<1>1. /\ req' = [req EXCEPT ![r] = q] /\ rec # Null
      /\ UNCHANGED <<now, session, index, issued, birth>>
  BY DEF Refresh
<1>2. t \in Token /\ t.sub \in Users /\ t.sid \in Sids /\ OwnedBy(birth, t.sid, t.sub)
  BY DEF TypeOK, CookiesOK, Token
<1>3. rec \in Record /\ SameIdentity(birth, t.sid, rec)
  BY <1>1, <1>2 DEF TypeOK, RecordsOK
<1>4. q \in Request /\ ReqOK(q, birth)
  <2> HIDE DEF rec
  <2>1. CASE ~ SameDevice(rec, f)
    BY <1>2, <2>1 DEF Idle, Request, Pcs, ReqOK
  <2>2. CASE SameDevice(rec, f) /\ rec.token # t
    BY <1>2, <2>2 DEF Idle, Request, Pcs, ReqOK
  <2>3. CASE SameDevice(rec, f) /\ rec.token = t
    <3>1. q = [Idle EXCEPT !.pc = "rotate", !.user = t.sub, !.sid = t.sid, !.fp = f,
                           !.copy = rec]
      BY <2>3
    <3>2. rec.fingerprint = f
      BY <2>3 DEF SameDevice
    <3> HIDE DEF q
    <3>3. q \in Request
      BY <1>2, <1>3, <3>1 DEF Idle, Request, Pcs
    <3>4. /\ q.pc = "rotate" /\ q.user = t.sub /\ q.sid = t.sid /\ q.fp = f
          /\ q.copy = rec
      BY <3>1 DEF Idle
    <3>5. QED
      BY <1>2, <1>3, <3>2, <3>3, <3>4 DEF ReqOK, OwnedBy, SameIdentity
  <2>4. QED
    BY <2>1, <2>2, <2>3
<1> HIDE DEF q, rec
<1>5. req' \in [Requests -> Request] /\ RequestsOK'
  BY <1>1, <1>4, OneRequest
<1>6. QED
  BY <1>1, <1>5 DEF TypeOK, RecordsOK, IndexOK, CookiesOK

LEMMA RefreshRotateOK ==
  ASSUME IInv, NEW r \in Requests, RefreshRotate(r)
  PROVE  IInv'
<1> USE DEF IInv
<1> DEFINE s == req[r].sid
           t == [sub |-> req[r].user, sid |-> s, iat |-> now]
           rec == Rotated(req[r].copy, t)
<1>1. /\ req[r].pc = "rotate" /\ SetSession(s, rec) /\ Finish(r)
      /\ issued' \subseteq issued \cup {t}
      /\ UNCHANGED <<now, index, birth>> /\ ReqOK(req[r], birth)
  BY DEF RefreshRotate, RequestsOK
<1>2. /\ req[r].user \in Users /\ s \in Sids /\ req[r].copy \in Record
      /\ SameIdentity(birth, s, req[r].copy) /\ OwnedBy(birth, s, req[r].user)
  BY <1>1 DEF ReqOK, SameIdentity, OwnedBy
<1>3. t \in Token /\ t.sid = s /\ t.sub = req[r].user
  BY <1>2 DEF Token, TypeOK
<1> HIDE DEF t
<1>4. rec \in Record /\ SameIdentity(birth, s, rec)
  BY <1>2, <1>3 DEF Record, Rotated, SameIdentity
<1> HIDE DEF rec, s
<1>5. session' \in [Sids -> Record \cup {Null}] /\ RecordsOK'
  BY <1>1, <1>2, <1>4, RecordsStep
<1>6. req' \in [Requests -> Request] /\ RequestsOK'
  BY <1>1, FinishStep
<1>7. issued' \subseteq Token /\ CookiesOK'
  BY <1>1, <1>2, <1>3 DEF TypeOK, CookiesOK
<1>8. QED
  BY <1>1, <1>5, <1>6, <1>7 DEF TypeOK, IndexOK

LEMMA AuthenticateOK ==
  ASSUME IInv, NEW r \in Requests, NEW t \in issued, NEW op \in Ops, NEW arg \in Args(op),
         Authenticate(r, t, op, arg)
  PROVE  IInv'
<1> USE DEF IInv
<1> DEFINE rec == session[t.sid]
           q == [Idle EXCEPT !.pc = "touch", !.op = op, !.user = t.sub, !.sid = t.sid,
                             !.arg = arg, !.copy = rec]
<1>1. /\ req' = [req EXCEPT ![r] = q] /\ rec # Null
      /\ UNCHANGED <<now, session, index, issued, birth>>
  BY DEF Authenticate
<1>2. t \in Token /\ t.sub \in Users /\ t.sid \in Sids
  BY DEF TypeOK, Token
<1>3. rec \in Record /\ SameIdentity(birth, t.sid, rec)
  BY <1>1, <1>2 DEF TypeOK, RecordsOK
<1>4. /\ op = "revoke" => arg \in Sids
      /\ op \in {"logout", "logoutAll"} => arg \in Token /\ OwnedBy(birth, arg.sid, arg.sub)
      /\ arg \in Sids \cup Token \cup {Null}
  BY DEF Args, Ops, CookiesOK, TypeOK
<1> HIDE DEF rec
<1>5. q \in Request
  BY <1>2, <1>3, <1>4 DEF Idle, Request, Pcs
<1>6. /\ q.pc = "touch" /\ q.op = op /\ q.user = t.sub /\ q.sid = t.sid /\ q.arg = arg
      /\ q.copy = rec
  BY DEF Idle
<1> HIDE DEF q
<1>7. ReqOK(q, birth)
  BY <1>2, <1>3, <1>4, <1>6 DEF ReqOK
<1>8. req' \in [Requests -> Request] /\ RequestsOK'
  BY <1>1, <1>5, <1>7, OneRequest
<1>9. QED
  BY <1>1, <1>8 DEF TypeOK, RecordsOK, IndexOK, CookiesOK

LEMMA TouchOK ==
  ASSUME IInv, NEW r \in Requests, Touch(r)
  PROVE  IInv'
<1> USE DEF IInv
<1> DEFINE q == [req[r] EXCEPT !.pc = "touchIndex", !.copy = Null]
<1>1. /\ req[r] \in Request /\ req[r].pc = "touch" /\ SetSession(req[r].sid, req[r].copy)
      /\ req' = [req EXCEPT ![r] = q]
      /\ UNCHANGED <<now, index, issued, birth>> /\ ReqOK(req[r], birth)
  BY DEF Touch, TypeOK, RequestsOK
<1>2. req[r].copy \in Record /\ req[r].sid \in Sids
      /\ SameIdentity(birth, req[r].sid, req[r].copy)
  BY <1>1 DEF ReqOK
<1>3. session' \in [Sids -> Record \cup {Null}] /\ RecordsOK'
  BY <1>1, <1>2, RecordsStep
<1>4. q \in Request /\ ReqOK(q, birth)
  BY <1>1 DEF Request, Pcs, ReqOK
<1> HIDE DEF q
<1>5. req' \in [Requests -> Request] /\ RequestsOK'
  BY <1>1, <1>4, OneRequest
<1>6. QED
  BY <1>1, <1>3, <1>5 DEF TypeOK, IndexOK, CookiesOK

LEMMA TouchIndexOK ==
  ASSUME IInv, NEW r \in Requests, TouchIndex(r)
  PROVE  IInv'
<1> USE DEF IInv
<1> DEFINE o == req[r]
           revoke == [Idle EXCEPT !.pc = "revokeGet", !.user = o.user, !.sid = o.arg]
           logout == [Idle EXCEPT !.pc = "del", !.user = o.arg.sub, !.sid = o.arg.sid]
           all == [Idle EXCEPT !.pc = "smembers", !.user = o.arg.sub]
           q == CASE o.op = "revoke" -> revoke
                  [] o.op = "logout" /\ RefreshValid(o.arg) -> logout
                  [] o.op = "logoutAll" /\ RefreshValid(o.arg) -> all
                  [] OTHER -> Idle
<1>1. /\ o \in Request /\ o.pc = "touchIndex" /\ ExpireIndex(o.user)
      /\ req' = [req EXCEPT ![r] = q]
      /\ UNCHANGED <<now, session, issued, birth>> /\ ReqOK(o, birth)
  BY DEF TouchIndex, TypeOK, RequestsOK
<1>2. /\ o.user \in Users
      /\ o.op = "revoke" => o.arg \in Sids
      /\ o.op \in {"logout", "logoutAll"} =>
           /\ o.arg.sub \in Users /\ o.arg.sid \in Sids
           /\ OwnedBy(birth, o.arg.sid, o.arg.sub)
  BY <1>1 DEF ReqOK, Token
<1>3. index' \in [Users -> [ids: SUBSET Sids, expires: Nat \cup {Null}]] /\ IndexOK'
  BY <1>1, <1>2, ExpireIndexStep
<1>4. q \in Request /\ ReqOK(q, birth)
  <2>1. CASE o.op = "revoke"
    <3>1. revoke \in Request /\ ReqOK(revoke, birth)
      BY <1>2, <2>1 DEF Idle, Request, Pcs, ReqOK
    <3>2. QED
      BY <2>1, <3>1
  <2>2. CASE o.op = "logout" /\ RefreshValid(o.arg)
    <3>1. logout \in Request /\ ReqOK(logout, birth)
      BY <1>2, <2>2 DEF Idle, Request, Pcs, ReqOK
    <3>2. QED
      BY <2>2, <3>1
  <2>3. CASE o.op = "logoutAll" /\ RefreshValid(o.arg)
    <3>1. all \in Request /\ ReqOK(all, birth)
      BY <1>2, <2>3 DEF Idle, Request, Pcs, ReqOK
    <3>2. QED
      BY <2>3, <3>1
  <2>4. CASE /\ o.op # "revoke"
             /\ ~ (o.op = "logout" /\ RefreshValid(o.arg))
             /\ ~ (o.op = "logoutAll" /\ RefreshValid(o.arg))
    BY <2>4, IdleOK
  <2>5. QED
    BY <2>1, <2>2, <2>3, <2>4
<1> HIDE DEF q
<1>5. req' \in [Requests -> Request] /\ RequestsOK'
  BY <1>1, <1>4, OneRequest
<1>6. QED
  BY <1>1, <1>3, <1>5 DEF TypeOK, RecordsOK, CookiesOK

LEMMA RevokeGetOK ==
  ASSUME IInv, NEW r \in Requests, RevokeGet(r)
  PROVE  IInv'
<1> USE DEF IInv
<1> DEFINE s == req[r].sid
<1>1. /\ req[r].pc = "revokeGet" /\ req[r] \in Request /\ ReqOK(req[r], birth)
      /\ UNCHANGED <<now, session, index, issued, birth>>
      /\ \/ Finish(r)
         \/ session[s] # Null /\ session[s].userId = req[r].user /\ Goto(r, "del")
  BY DEF RevokeGet, MayRevoke, TypeOK, RequestsOK
<1>2. req' \in [Requests -> Request] /\ RequestsOK'
  <2>1. CASE Finish(r)
    BY <1>1, <2>1, FinishStep
  <2>2. CASE session[s] # Null /\ session[s].userId = req[r].user /\ Goto(r, "del")
    <3>1. s \in Sids /\ req[r].user \in Users
      BY <1>1 DEF ReqOK
    <3>2. OwnedBy(birth, s, req[r].user)
      BY <2>2, <3>1 DEF RecordsOK, SameIdentity, OwnedBy
    <3>3. ReqOK([req[r] EXCEPT !.pc = "del"], birth)
      BY <1>1, <3>1, <3>2 DEF ReqOK, Request
    <3>4. QED
      BY <1>1, <2>2, <3>3, GotoStep DEF Pcs
  <2>3. QED
    BY <1>1, <2>1, <2>2
<1>3. QED
  BY <1>1, <1>2 DEF TypeOK, RecordsOK, IndexOK, CookiesOK

LEMMA DelOK ==
  ASSUME IInv, NEW r \in Requests, Del(r)
  PROVE  IInv'
<1> USE DEF IInv
<1>1. /\ req[r].pc = "del" /\ req[r] \in Request /\ ReqOK(req[r], birth)
      /\ session' = [session EXCEPT ![req[r].sid] = Null] /\ Goto(r, "srem")
      /\ UNCHANGED <<now, index, issued, birth>>
  BY DEF Del, TypeOK, RequestsOK
<1>2. ReqOK([req[r] EXCEPT !.pc = "srem"], birth)
  BY <1>1 DEF ReqOK, Request
<1>3. req' \in [Requests -> Request] /\ RequestsOK'
  BY <1>1, <1>2, GotoStep DEF Pcs
<1>4. session' \in [Sids -> Record \cup {Null}] /\ RecordsOK'
  BY <1>1 DEF TypeOK, RecordsOK, SameIdentity
<1>5. QED
  BY <1>1, <1>3, <1>4 DEF TypeOK, IndexOK, CookiesOK

LEMMA SremOK ==
  ASSUME IInv, NEW r \in Requests, Srem(r)
  PROVE  IInv'
<1> USE DEF IInv
<1>1. /\ req[r].pc = "srem" /\ ReqOK(req[r], birth)
      /\ SRem(req[r].user, req[r].sid) /\ Finish(r)
      /\ UNCHANGED <<now, session, issued, birth>>
  BY DEF Srem, RequestsOK
<1>2. req[r].user \in Users /\ req[r].sid \in Sids
  BY <1>1 DEF ReqOK
<1>3. index' \in [Users -> [ids: SUBSET Sids, expires: Nat \cup {Null}]] /\ IndexOK'
  BY <1>1, <1>2, SRemStep
<1>4. req' \in [Requests -> Request] /\ RequestsOK'
  BY <1>1, FinishStep
<1>5. QED
  BY <1>1, <1>3, <1>4 DEF TypeOK, RecordsOK, CookiesOK

LEMMA SmembersOK ==
  ASSUME IInv, NEW r \in Requests, Smembers(r)
  PROVE  IInv'
<1> USE DEF IInv
<1> DEFINE u == req[r].user
           q == [Idle EXCEPT !.pc = IF HasSessions(index[u].ids) THEN "delAll" ELSE "delIndex",
                             !.user = u, !.ids = index[u].ids]
<1>1. /\ req[r].pc = "smembers" /\ ReqOK(req[r], birth)
      /\ req' = [req EXCEPT ![r] = q]
      /\ UNCHANGED <<now, session, index, issued, birth>>
  BY DEF Smembers, RequestsOK
<1>2. u \in Users /\ index[u].ids \subseteq Sids /\ \A s \in index[u].ids : OwnedBy(birth, s, u)
  BY <1>1 DEF ReqOK, TypeOK, IndexOK
<1>3. q \in Request
  BY <1>2 DEF Idle, Request, Pcs
<1>4. /\ q.pc \in {"delAll", "delIndex"} /\ q.user = u /\ q.ids = index[u].ids
      /\ q.copy = Null
  BY DEF Idle
<1> HIDE DEF q, u
<1>5. ReqOK(q, birth)
  BY <1>2, <1>4 DEF ReqOK
<1>6. req' \in [Requests -> Request] /\ RequestsOK'
  BY <1>1, <1>3, <1>5, OneRequest
<1>7. QED
  BY <1>1, <1>6 DEF TypeOK, RecordsOK, IndexOK, CookiesOK

LEMMA DelAllOK ==
  ASSUME IInv, NEW r \in Requests, DelAll(r)
  PROVE  IInv'
<1> USE DEF IInv
<1>1. /\ req[r].pc = "delAll" /\ req[r] \in Request /\ ReqOK(req[r], birth)
      /\ session' = [s \in Sids |-> IF s \in req[r].ids THEN Null ELSE session[s]]
      /\ Goto(r, "delIndex")
      /\ UNCHANGED <<now, index, issued, birth>>
  BY DEF DelAll, TypeOK, RequestsOK
<1>2. ReqOK([req[r] EXCEPT !.pc = "delIndex"], birth)
  BY <1>1 DEF ReqOK, Request
<1>3. req' \in [Requests -> Request] /\ RequestsOK'
  BY <1>1, <1>2, GotoStep DEF Pcs
<1>4. session' \in [Sids -> Record \cup {Null}] /\ RecordsOK'
  BY <1>1 DEF TypeOK, RecordsOK, SameIdentity
<1>5. QED
  BY <1>1, <1>3, <1>4 DEF TypeOK, IndexOK, CookiesOK

LEMMA DelIndexOK ==
  ASSUME IInv, NEW r \in Requests, DelIndex(r)
  PROVE  IInv'
<1> USE DEF IInv
<1>1. /\ req[r].pc = "delIndex" /\ ReqOK(req[r], birth) /\ Finish(r)
      /\ index' = [index EXCEPT ![req[r].user] = NoIndex]
      /\ UNCHANGED <<now, session, issued, birth>>
  BY DEF DelIndex, RequestsOK
<1>2. req[r].user \in Users
  BY <1>1 DEF ReqOK
<1>3. NoIndex \in [ids: SUBSET Sids, expires: Nat \cup {Null}] /\ NoIndex.ids = {}
  BY DEF NoIndex
<1>4. index' \in [Users -> [ids: SUBSET Sids, expires: Nat \cup {Null}]] /\ IndexOK'
  BY <1>1, <1>2, <1>3, IndexStep
<1>5. req' \in [Requests -> Request] /\ RequestsOK'
  BY <1>1, FinishStep
<1>6. QED
  BY <1>1, <1>4, <1>5 DEF TypeOK, RecordsOK, CookiesOK

LEMMA AbortOK ==
  ASSUME IInv, NEW r \in Requests, Abort(r)
  PROVE  IInv'
<1>1. Finish(r) /\ UNCHANGED <<now, session, index, issued, birth>>
  BY DEF Abort
<1>2. req' \in [Requests -> Request] /\ RequestsOK'
  BY <1>1, FinishStep DEF IInv
<1>3. QED
  BY <1>1, <1>2 DEF IInv, TypeOK, RecordsOK, IndexOK, CookiesOK

LEMMA TickOK ==
  ASSUME IInv, Tick
  PROVE  IInv'
<1> USE DEF IInv
<1>1. /\ now' \in 0..MaxTime /\ UNCHANGED <<req, issued, birth>>
      /\ session' \in [Sids -> Record \cup {Null}]
      /\ \A s \in Sids : session'[s] # Null => session'[s] = session[s]
  BY TtlAssumption DEF Tick, TypeOK
<1>2. /\ index' \in [Users -> [ids: SUBSET Sids, expires: Nat \cup {Null}]]
      /\ \A u \in Users : index'[u].ids \subseteq index[u].ids
  <2>1. NoIndex \in [ids: SUBSET Sids, expires: Nat \cup {Null}] /\ NoIndex.ids = {}
    BY DEF NoIndex
  <2>2. index' = [u \in Users |-> IF index[u].expires # Null /\ index[u].expires <= now + 1
                                  THEN NoIndex ELSE index[u]]
    BY DEF Tick
  <2>3. QED
    BY <2>1, <2>2 DEF TypeOK
<1>3. RecordsOK' /\ IndexOK'
  BY <1>1, <1>2 DEF TypeOK, RecordsOK, IndexOK, SameIdentity
<1>4. QED
  BY <1>1, <1>2, <1>3 DEF TypeOK, CookiesOK, RequestsOK

LEMMA InitOK == Init => IInv
BY IdleOK, TtlAssumption
   DEF Init, IInv, TypeOK, RecordsOK, IndexOK, CookiesOK, RequestsOK, NoIndex

LEMMA NextOK == IInv /\ [Next]_vars => IInv'
<1> SUFFICES ASSUME IInv, [Next]_vars PROVE IInv'
  OBVIOUS
<1>1. ASSUME NEW r \in Requests, Arrive(r) PROVE IInv'
  BY <1>1, LoginOK, RefreshOK, AuthenticateOK DEF Arrive
<1>2. ASSUME NEW r \in Requests, Step(r) PROVE IInv'
  BY <1>2, LoginSaddOK, LoginExpireOK, RefreshRotateOK, TouchOK, TouchIndexOK, RevokeGetOK,
     DelOK, SremOK, SmembersOK, DelAllOK, DelIndexOK DEF Step
<1>3. CASE UNCHANGED vars
  BY <1>3 DEF vars, IInv, TypeOK, RecordsOK, IndexOK, CookiesOK, RequestsOK
<1>4. QED
  BY <1>1, <1>2, <1>3, AbortOK, TickOK DEF Next

-----------------------------------------------------------------------------
(* Theorems                                                                *)

\* The ownership invariant holds in every reachable state: no record, index
\* entry, cookie or request in flight confuses two users or two devices.
THEOREM OwnershipInvariant == Spec => []IInv
BY InitOK, NextOK, PTL DEF Spec

\* The handlers keep the shapes of the Redis keys and of what they carry.
THEOREM TypeCorrect == Spec => []TypeOK
BY OwnershipInvariant, PTL DEF IInv

\* refresh signs a new token only for the device and the user of the login.
THEOREM RotationBound == Spec => []RotationBoundToLogin
<1>1. IInv => RotationBoundToLogin
  <2> SUFFICES ASSUME IInv, NEW r \in Requests, req[r].pc = "rotate"
               PROVE  birth[req[r].sid] = [userId |-> req[r].user, fingerprint |-> req[r].fp]
    BY DEF RotationBoundToLogin
  <2>1. ReqOK(req[r], birth)
    BY DEF IInv, RequestsOK
  <2>2. /\ req[r].sid \in Sids /\ birth[req[r].sid] # Null
        /\ birth[req[r].sid].userId = req[r].user
        /\ birth[req[r].sid].fingerprint = req[r].fp
    BY <2>1 DEF ReqOK, SameIdentity
  <2>3. birth[req[r].sid] \in Birth
    BY <2>2 DEF IInv, TypeOK, Birth
  <2>4. QED
    BY <2>2, <2>3 DEF Birth
<1>2. QED
  BY <1>1, OwnershipInvariant, PTL

\* A step that takes a record away is the clock's, or a DEL of a request that
\* acts for the record's user.
LEMMA RecordLost ==
  ASSUME IInv, Next, NEW s \in Sids, session[s] # Null, session'[s] = Null, now' = now
  PROVE  \E r \in Requests : /\ req[r].pc \in {"del", "delAll"} /\ req'[r].pc # req[r].pc
                             /\ req[r].user = birth[s].userId
<1> USE DEF IInv
<1>1. ~ Tick
  BY DEF Tick, TypeOK
<1>2. ASSUME NEW x \in Sids, NEW rec \in Record, SetSession(x, rec) PROVE FALSE
  BY <1>2, SetStores
<1>3. PICK r \in Requests : Arrive(r) \/ Step(r) \/ Abort(r)
  BY <1>1 DEF Next
<1>4. ReqOK(req[r], birth)
  BY DEF RequestsOK
<1>5. session' # session
  OBVIOUS
<1>6. ~ Arrive(r)
  <2>1. ASSUME NEW u \in Users, NEW f \in Fingerprints, Login(r, u, f) PROVE FALSE
    <3>1. PICK x \in Sids :
            SetSession(x, [userId |-> u, fingerprint |-> f,
                           token |-> [sub |-> u, sid |-> x, iat |-> now], expires |-> now])
      BY <2>1 DEF Login
    <3>2. [userId |-> u, fingerprint |-> f,
           token |-> [sub |-> u, sid |-> x, iat |-> now], expires |-> now] \in Record
      BY DEF Record, Token, TypeOK
    <3>3. QED
      BY <1>2, <3>1, <3>2
  <2>2. QED
    BY <1>5, <2>1 DEF Arrive, Refresh, Authenticate
<1>7. CASE RefreshRotate(r)
  <2> DEFINE t == [sub |-> req[r].user, sid |-> req[r].sid, iat |-> now]
  <2>1. req[r].pc = "rotate" /\ SetSession(req[r].sid, Rotated(req[r].copy, t))
    BY <1>7 DEF RefreshRotate
  <2>2. req[r].copy \in Record /\ req[r].sid \in Sids /\ t \in Token
    BY <1>4, <2>1 DEF ReqOK, Token, TypeOK
  <2> HIDE DEF t
  <2>3. Rotated(req[r].copy, t) \in Record
    BY <2>2 DEF Rotated, Record
  <2>4. QED
    BY <1>2, <2>1, <2>2, <2>3
<1>8. CASE Touch(r)
  BY <1>2, <1>4, <1>8 DEF Touch, ReqOK
<1>9. CASE Del(r)
  <2>1. req[r].pc = "del" /\ Goto(r, "srem") /\ s = req[r].sid
    BY <1>9 DEF Del, TypeOK
  <2>2. req'[r].pc = "srem" /\ req[r].user = birth[s].userId
    BY <1>4, <2>1 DEF Goto, ReqOK, OwnedBy, TypeOK, Request
  <2>3. QED
    BY <2>1, <2>2
<1>10. CASE DelAll(r)
  <2>1. req[r].pc = "delAll" /\ Goto(r, "delIndex") /\ s \in req[r].ids
    BY <1>10 DEF DelAll, TypeOK
  <2>2. req'[r].pc = "delIndex" /\ req[r].user = birth[s].userId
    BY <1>4, <2>1 DEF Goto, ReqOK, OwnedBy, TypeOK, Request
  <2>3. QED
    BY <2>1, <2>2
<1>11. QED
  BY <1>3, <1>5, <1>6, <1>7, <1>8, <1>9, <1>10
     DEF Step, Abort, LoginSadd, LoginExpire, TouchIndex, RevokeGet, Srem, Smembers, DelIndex

\* Nobody else's request ends a session, whatever the interleaving.
THEOREM OwnerRevokes == Spec => OnlyOwnerRevokes
<1> DEFINE Ends(s) == session[s] # Null /\ session'[s] = Null =>
                        \/ now' # now
                        \/ \E r \in Requests :
                             /\ req[r].pc \in {"del", "delAll"} /\ req'[r].pc # req[r].pc
                             /\ req[r].user = birth[s].userId
<1>1. IInv /\ [Next]_vars => [\A s \in Sids : Ends(s)]_vars
  BY RecordLost DEF vars
<1>2. QED
  BY <1>1, OwnershipInvariant, PTL DEF Spec, OnlyOwnerRevokes

\* A session without a record and without a copy in flight never comes back.
LEMMA GoneStays ==
  ASSUME IInv, [Next]_vars, NEW s \in Sids, Gone(s)
  PROVE  Gone(s)'
<1> USE DEF IInv
<1>1. birth[s] # Null /\ session[s] = Null
      /\ \A x \in Requests : req[x].sid = s => req[x].copy = Null
  BY DEF Gone
<1>2. CASE UNCHANGED vars
  BY <1>1, <1>2 DEF vars, Gone
<1>3. CASE Tick
  BY <1>1, <1>3 DEF Tick, Gone
<1>4. ASSUME NEW r \in Requests, Arrive(r) \/ Step(r) \/ Abort(r) PROVE Gone(s)'
  <2>1. ReqOK(req[r], birth) /\ req[r] \in Request
    BY DEF RequestsOK, TypeOK
  <2>2. birth' = birth \/ \E x \in Sids \ {s} : \E v : birth' = [birth EXCEPT ![x] = v]
    BY <1>1, <1>4 DEF Arrive, Step, Abort, Login, Refresh, Authenticate, LoginSadd, LoginExpire,
       RefreshRotate, Touch, TouchIndex, RevokeGet, Del, Srem, Smembers, DelAll, DelIndex
  <2>3. birth'[s] # Null
    BY <1>1, <2>2 DEF TypeOK
  <2>4. \A x \in Requests \ {r} : req'[x] = req[x]
    BY <1>4 DEF Arrive, Step, Abort, Login, Refresh, Authenticate, LoginSadd, LoginExpire,
       RefreshRotate, Touch, TouchIndex, RevokeGet, Del, Srem, Smembers, DelAll, DelIndex,
       Goto, Finish, TypeOK
  <2>5. session'[s] = Null /\ (req'[r].sid = s => req'[r].copy = Null)
    <3>1. CASE \E u \in Users, f \in Fingerprints : Login(r, u, f)
      <4>1. PICK u \in Users, f \in Fingerprints : Login(r, u, f)
        BY <3>1
      <4>2. PICK x \in Sids : \E rec :
              /\ birth[x] = Null /\ session' = [session EXCEPT ![x] = rec]
              /\ req' = [req EXCEPT ![r] = [Idle EXCEPT
                   !.pc = "loginSadd", !.user = u, !.sid = x,
                   !.tok = [sub |-> u, sid |-> x, iat |-> now]]]
        BY <4>1 DEF Login, SetSession
      <4>3. x # s /\ session'[s] = Null
        BY <1>1, <4>2 DEF TypeOK
      <4>4. req'[r].copy = Null
        BY <4>2 DEF Idle, TypeOK
      <4>5. QED
        BY <4>3, <4>4
    <3>2. CASE \E t \in issued, f \in Fingerprints : Refresh(r, t, f)
      BY <1>1, <3>2 DEF Refresh, Idle, TypeOK
    <3>3. CASE \E t \in issued, op \in Ops : \E arg \in Args(op) : Authenticate(r, t, op, arg)
      BY <1>1, <3>3 DEF Authenticate, Idle, TypeOK
    <3>4. CASE RefreshRotate(r) \/ Touch(r)
      <4>1. req[r].copy # Null /\ req[r].pc \in {"rotate", "touch"} /\ req[r].sid \in Sids
        BY <2>1, <3>4, NullAssumption DEF RefreshRotate, Touch, ReqOK
      <4>2. req[r].sid # s
        BY <1>1, <4>1
      <4>3. PICK rec : session' = [session EXCEPT ![req[r].sid] = rec]
        BY <3>4 DEF RefreshRotate, Touch, SetSession
      <4>4. req'[r].copy = Null
        BY <2>1, <3>4 DEF RefreshRotate, Touch, Finish, Idle, Request, TypeOK
      <4>5. QED
        BY <1>1, <4>2, <4>3, <4>4 DEF TypeOK
    <3>5. CASE Abort(r) \/ LoginExpire(r) \/ Srem(r) \/ DelIndex(r)
      BY <1>1, <3>5 DEF Abort, LoginExpire, Srem, DelIndex, Finish, Idle, TypeOK
    <3>6. CASE LoginSadd(r) \/ Del(r) \/ DelAll(r)
      <4>1. PICK l \in Pcs : Goto(r, l)
        BY <3>6 DEF LoginSadd, Del, DelAll, Pcs
      <4>2. req'[r].sid = req[r].sid /\ req'[r].copy = req[r].copy
        BY <2>1, <4>1 DEF Goto, Request, TypeOK
      <4>3. session'[s] = Null
        BY <1>1, <3>6 DEF LoginSadd, Del, DelAll, TypeOK
      <4>4. QED
        BY <1>1, <4>2, <4>3
    <3>7. CASE TouchIndex(r)
      <4> DEFINE o == req[r]
                 revoke == [Idle EXCEPT !.pc = "revokeGet", !.user = o.user, !.sid = o.arg]
                 logout == [Idle EXCEPT !.pc = "del", !.user = o.arg.sub, !.sid = o.arg.sid]
                 all == [Idle EXCEPT !.pc = "smembers", !.user = o.arg.sub]
                 q == CASE o.op = "revoke" -> revoke
                        [] o.op = "logout" /\ RefreshValid(o.arg) -> logout
                        [] o.op = "logoutAll" /\ RefreshValid(o.arg) -> all
                        [] OTHER -> Idle
      <4>1. session' = session /\ req' = [req EXCEPT ![r] = q]
        BY <3>7 DEF TouchIndex
      <4>2. revoke.copy = Null /\ logout.copy = Null /\ all.copy = Null /\ Idle.copy = Null
        BY DEF Idle
      <4> HIDE DEF revoke, logout, all
      <4>3. q \in {revoke, logout, all, Idle}
        OBVIOUS
      <4> HIDE DEF q
      <4>4. QED
        BY <1>1, <4>1, <4>2, <4>3 DEF TypeOK
    <3>10. CASE Smembers(r)
      BY <1>1, <3>10 DEF Smembers, Idle, TypeOK
    <3>8. CASE RevokeGet(r)
      <4>1. session'[s] = Null /\ (Goto(r, "del") \/ Finish(r))
        BY <1>1, <3>8 DEF RevokeGet
      <4>2. CASE Goto(r, "del")
        BY <1>1, <2>1, <4>1, <4>2 DEF Goto, Request, TypeOK
      <4>3. CASE Finish(r)
        BY <4>1, <4>3 DEF Finish, Idle, TypeOK
      <4>4. QED
        BY <4>1, <4>2, <4>3
    <3>9. QED
      BY <1>4, <3>1, <3>2, <3>3, <3>4, <3>5, <3>6, <3>7, <3>8, <3>10 DEF Arrive, Step
  <2>6. QED
    BY <1>1, <2>3, <2>4, <2>5 DEF Gone
<1>5. QED
  BY <1>2, <1>3, <1>4 DEF Next

\* Revocation is final once no request in flight carries the record.
THEOREM RevocationIsFinal == Spec => RevocationFinal
<1>1. IInv /\ [Next]_vars => [\A s \in Sids : Gone(s) => Gone(s)']_vars
  BY GoneStays
<1>2. QED
  BY <1>1, OwnershipInvariant, PTL DEF Spec, RevocationFinal

-----------------------------------------------------------------------------
(* One request at a time                                                   *)

\* Session s is in the index of user u, or was in an index that ran out.
Listed(s, u) == s \in index[u].ids \cup lapsed

\* No client holds a newer token of s than the record's.
Latest(s, rec) == \A t \in issued : t.sid = s => t.iat <= rec.token.iat

\* What the one request in flight knows: a record it will SET back is that of
\* the session, which it may still outlive, listed and the newest, the session of a login is held by nobody yet, and what a DEL
\* was to remove is gone before its entry in the index is.
Known(q) ==
  /\ q.copy # Null =>
       /\ Listed(q.sid, q.copy.userId) /\ Latest(q.sid, q.copy)
       /\ Held(q.sid) /\ session[q.sid] \in {q.copy, Null}
  /\ q.pc = "loginExpire" => Listed(q.sid, q.user)
  /\ q.pc \in {"loginSadd", "loginExpire"} =>
       /\ ~ Held(q.sid) /\ q.tok.iat <= now
       /\ session[q.sid] # Null => session[q.sid].token = q.tok
  /\ q.pc = "srem" => session[q.sid] = Null
  /\ q.pc \in {"delAll", "delIndex"} => index[q.user].ids \subseteq q.ids
  /\ q.pc = "delIndex" => \A s \in q.ids : session[s] = Null

SeqInv ==
  /\ HeldSessionsIndexed /\ LatestTokenStored
  /\ \A t \in issued : t.iat <= now
  /\ \A r \in Requests : Known(req[r])

\* The one request changes to q.
LEMMA OnlyRequest ==
  ASSUME TypeOK, NEW r \in Requests, NEW q, req' = [req EXCEPT ![r] = q]
  PROVE  \A x \in Requests : req'[x] = q
BY OneAtATime DEF TypeOK

LEMMA IdleKnown == Known(Idle) /\ Known(Idle)'
BY DEF Known, Idle

\* A step that leaves Redis, the clock and the cookies alone.
LEMMA ReadStep ==
  ASSUME TypeOK, SeqInv, NEW r \in Requests, NEW q, Known(q), req' = [req EXCEPT ![r] = q],
         UNCHANGED <<now, session, index, issued, lapsed>>
  PROVE  SeqInv'
<1>1. \A x \in Requests : req'[x] = q
  BY OnlyRequest
<1>2. Known(q)'
  BY DEF Known, Listed, Latest, Held
<1>3. QED
  BY <1>1, <1>2 DEF SeqInv, HeldSessionsIndexed, LatestTokenStored, Held

\* A step that writes the index of u and leaves the rest of Redis and the
\* cookies alone: a session that leaves the index has no record.
LEMMA WriteIndexStep ==
  ASSUME TypeOK, RecordsOK, SeqInv, NEW r \in Requests, NEW q, req' = [req EXCEPT ![r] = q],
         NEW u \in Users, NEW i, index' = [index EXCEPT ![u] = i],
         \A s \in index[u].ids \ i.ids : session[s] = Null,
         Known(q)', UNCHANGED <<now, session, issued, birth, lapsed>>
  PROVE  SeqInv'
<1>1. \A x \in Requests : req'[x] = q
  BY OnlyRequest
<1>2. ASSUME NEW s \in Sids, session[s] # Null, Held(s)
      PROVE  s \in index'[session[s].userId].ids \cup lapsed
  <2>1. session[s].userId \in Users /\ s \in index[session[s].userId].ids \cup lapsed
    BY <1>2 DEF SeqInv, HeldSessionsIndexed, TypeOK, Record
  <2>2. QED
    BY <1>2, <2>1 DEF TypeOK
<1>3. QED
  BY <1>1, <1>2 DEF SeqInv, HeldSessionsIndexed, LatestTokenStored, Held

\* EXPIRE changes no set of ids.
LEMMA ExpireKeepsIds ==
  ASSUME TypeOK, NEW u \in Users, ExpireIndex(u)
  PROVE  \E i : index' = [index EXCEPT ![u] = i] /\ i.ids = index[u].ids
<1> DEFINE i == IF index[u].ids = {} THEN NoIndex
                ELSE [index[u] EXCEPT !.expires = now + SessionTTL]
<1>1. i.ids = index[u].ids
  BY DEF NoIndex, TypeOK
<1>2. index' = [index EXCEPT ![u] = i]
  BY DEF ExpireIndex
<1> HIDE DEF i
<1>3. QED
  BY <1>1, <1>2

LEMMA SeqLogin ==
  ASSUME IInv, SeqInv, NEW r \in Requests, NEW u \in Users, NEW f \in Fingerprints,
         Login(r, u, f), lapsed' = lapsed
  PROVE  SeqInv'
<1> USE DEF IInv
<1>1. PICK s \in Sids :
        /\ birth[s] = Null
        /\ SetSession(s, [userId |-> u, fingerprint |-> f,
                          token |-> [sub |-> u, sid |-> s, iat |-> now], expires |-> now])
        /\ req' = [req EXCEPT ![r] = [Idle EXCEPT !.pc = "loginSadd", !.user = u, !.sid = s,
                                        !.tok = [sub |-> u, sid |-> s, iat |-> now]]]
  BY DEF Login
<1>2. now' = now /\ index' = index /\ issued' = issued
  BY DEF Login
<1> DEFINE t == [sub |-> u, sid |-> s, iat |-> now]
           rec == [userId |-> u, fingerprint |-> f, token |-> t, expires |-> now]
           e == [Idle EXCEPT !.pc = "loginSadd", !.user = u, !.sid = s, !.tok = t]
<1>3. t \in Token /\ t.iat = now /\ rec \in Record /\ rec.token = t
  BY DEF TypeOK, Token, Record
<1>4. PICK q : /\ req' = [req EXCEPT ![r] = q] /\ q.pc = "loginSadd" /\ q.tok = t /\ q.sid = s
               /\ q.copy = Null
  <2>1. e.pc = "loginSadd" /\ e.tok = t /\ e.sid = s /\ e.copy = Null
    BY DEF Idle
  <2>2. req' = [req EXCEPT ![r] = e]
    BY <1>1
  <2> HIDE DEF e
  <2>3. QED
    BY <2>1, <2>2
<1>5. SetSession(s, rec)
  BY <1>1
<1> HIDE DEF t, rec
<1>6. session'[s] # Null /\ session'[s].token = t
      /\ \A x \in Sids \ {s} : session'[x] = session[x]
  BY <1>3, <1>5, SetStores
<1>7. ~ Held(s) /\ ~ Held(s)'
  BY <1>1, <1>2 DEF Held, CookiesOK, OwnedBy
<1>8. \A x \in Requests : req'[x] = q
  BY <1>4, OnlyRequest
<1>9. Known(q)'
  BY <1>2, <1>3, <1>4, <1>6, <1>7 DEF Known, TypeOK
<1>10. HeldSessionsIndexed'
  BY <1>2, <1>6, <1>7 DEF SeqInv, HeldSessionsIndexed, Held
<1>11. LatestTokenStored'
  BY <1>2, <1>6, <1>7 DEF SeqInv, LatestTokenStored, Held
<1>12. QED
  BY <1>2, <1>8, <1>9, <1>10, <1>11 DEF SeqInv

LEMMA SeqLoginSadd ==
  ASSUME IInv, SeqInv, NEW r \in Requests, LoginSadd(r), lapsed' = lapsed
  PROVE  SeqInv'
<1> USE DEF IInv
<1>0. PICK u, s : u = req[r].user /\ s = req[r].sid
  OBVIOUS
<1> DEFINE i == [index[u] EXCEPT !.ids = index[u].ids \cup {s}]
           e == [req[r] EXCEPT !.pc = "loginExpire"]
<1>1. /\ req[r] \in Request /\ ReqOK(req[r], birth) /\ Known(req[r])
      /\ req[r].pc = "loginSadd" /\ req' = [req EXCEPT ![r] = e]
      /\ index' = [index EXCEPT ![u] = i]
      /\ UNCHANGED <<now, session, issued, birth>>
  BY <1>0 DEF LoginSadd, SAdd, Goto, TypeOK, RequestsOK, SeqInv
<1>2. u \in Users /\ s \in Sids /\ req[r].copy = Null
  BY <1>0, <1>1 DEF ReqOK, Token
<1>3. PICK q : /\ q = e
               /\ q.pc = "loginExpire" /\ q.copy = Null /\ q.sid = s /\ q.user = u
               /\ q.tok = req[r].tok
  <2>1. /\ e.pc = "loginExpire" /\ e.copy = Null /\ e.sid = s /\ e.user = u
        /\ e.tok = req[r].tok
    BY <1>0, <1>1, <1>2 DEF Request
  <2> HIDE DEF e
  <2>2. QED
    BY <2>1
<1>4. i.ids = index[u].ids \cup {s} /\ index'[u] = i
  BY <1>1, <1>2 DEF TypeOK
<1> HIDE DEF i, e
<1>5. ~ Held(s)' /\ q.tok.iat <= now /\ (session[s] # Null => session[s].token = q.tok)
  BY <1>0, <1>1, <1>3 DEF Known, Held
<1>6. Known(q)'
  BY <1>1, <1>3, <1>4, <1>5 DEF Known, Listed
<1>7. QED
  BY <1>1, <1>2, <1>3, <1>4, <1>6, WriteIndexStep

LEMMA SeqLoginExpire ==
  ASSUME IInv, SeqInv, NEW r \in Requests, LoginExpire(r), lapsed' = lapsed
  PROVE  SeqInv'
<1> USE DEF IInv
<1> DEFINE u == req[r].user
           s == req[r].sid
           t == req[r].tok
<1>1. /\ ReqOK(req[r], birth) /\ Known(req[r]) /\ req[r].pc = "loginExpire"
      /\ req' = [req EXCEPT ![r] = Idle]
      /\ ExpireIndex(u) /\ issued' = issued \cup {t}
      /\ UNCHANGED <<now, session, birth>>
  BY DEF LoginExpire, Finish, RequestsOK, SeqInv
<1>2. /\ t \in Token /\ u \in Users /\ s \in Sids /\ t.sid = s /\ t.iat <= now
      /\ OwnedBy(birth, s, u) /\ Listed(s, u)
      /\ (session[s] # Null => session[s].token = t)
  BY <1>1 DEF ReqOK, Known, Token
<1>3. PICK i : index' = [index EXCEPT ![u] = i] /\ i.ids = index[u].ids
  BY <1>1, <1>2, ExpireKeepsIds
<1>4. \A v \in Users : index'[v].ids = index[v].ids
  BY <1>2, <1>3 DEF TypeOK
<1>5. \A x \in Requests : req'[x] = Idle
  BY <1>1, OnlyRequest
<1>6. \A x \in Sids : Held(x)' => Held(x) \/ x = s
  BY <1>1, <1>2 DEF Held
<1> HIDE DEF u, s, t
<1>7. ASSUME NEW x \in Sids, session[x] # Null, Held(x)'
      PROVE  x \in index'[session[x].userId].ids \cup lapsed
  <2>1. session[x].userId \in Users /\ SameIdentity(birth, x, session[x])
    BY <1>7 DEF TypeOK, Record, RecordsOK
  <2>2. CASE Held(x)
    BY <1>4, <1>7, <2>1, <2>2 DEF SeqInv, HeldSessionsIndexed
  <2>3. CASE x = s
    BY <1>2, <1>4, <2>1, <2>3 DEF SameIdentity, OwnedBy, Listed
  <2>4. QED
    BY <1>6, <1>7, <2>2, <2>3
<1>8. LatestTokenStored'
  <2> SUFFICES ASSUME NEW x \in Sids, session[x] # Null, NEW y \in issued \cup {t}, y.sid = x
               PROVE  y.iat <= session[x].token.iat
    BY <1>1 DEF LatestTokenStored
  <2>1. CASE y \in issued
    BY <2>1 DEF SeqInv, LatestTokenStored
  <2>2. CASE y = t
    <3>1. t.iat \in Int
      BY <1>2 DEF Token
    <3>2. QED
      BY <1>2, <2>2, <3>1
  <2>3. QED
    BY <2>1, <2>2
<1>9. QED
  BY <1>1, <1>2, <1>5, <1>7, <1>8, IdleKnown DEF SeqInv, HeldSessionsIndexed

LEMMA SeqRefresh ==
  ASSUME IInv, SeqInv, NEW r \in Requests, NEW t \in issued, NEW f \in Fingerprints,
         Refresh(r, t, f), lapsed' = lapsed
  PROVE  SeqInv'
<1> USE DEF IInv
<1> DEFINE rec == session[t.sid]
           q == [Idle EXCEPT
                   !.pc = IF ~ SameDevice(rec, f) THEN "del"
                          ELSE IF rec.token # t THEN "smembers" ELSE "rotate",
                   !.user = t.sub, !.sid = t.sid, !.fp = f,
                   !.copy = IF SameDevice(rec, f) /\ rec.token = t THEN rec ELSE Null]
<1>1. /\ req' = [req EXCEPT ![r] = q] /\ rec # Null
      /\ UNCHANGED <<now, session, index, issued>>
  BY DEF Refresh
<1>2. t.sid \in Sids /\ Held(t.sid)
  BY DEF TypeOK, Token, Held
<1>3. Listed(t.sid, rec.userId) /\ Latest(t.sid, rec) /\ session[t.sid] = rec
  BY <1>1, <1>2 DEF SeqInv, HeldSessionsIndexed, LatestTokenStored, Listed, Latest
<1> HIDE DEF rec
<1>4. q.pc \in {"del", "smembers", "rotate"} /\ q.sid = t.sid /\ q.copy \in {rec, Null}
  BY DEF Idle
<1> HIDE DEF q
<1>5. Known(q)
  BY <1>2, <1>3, <1>4 DEF Known
<1>6. QED
  BY <1>1, <1>5, ReadStep

LEMMA SeqRefreshRotate ==
  ASSUME IInv, SeqInv, NEW r \in Requests, RefreshRotate(r), lapsed' = lapsed
  PROVE  SeqInv'
<1> USE DEF IInv
<1> DEFINE s == req[r].sid
           c == req[r].copy
           t == [sub |-> req[r].user, sid |-> s, iat |-> now]
           rec == Rotated(c, t)
<1>1. /\ ReqOK(req[r], birth) /\ Known(req[r]) /\ req[r].pc = "rotate"
      /\ SetSession(s, rec) /\ req' = [req EXCEPT ![r] = Idle]
      /\ issued' \subseteq issued \cup {t}
      /\ UNCHANGED <<now, index, birth>>
  BY DEF RefreshRotate, Finish, RequestsOK, SeqInv
<1>2. /\ req[r].user \in Users /\ s \in Sids /\ c \in Record /\ Listed(s, c.userId)
  BY <1>1, NullAssumption DEF ReqOK, Known
<1>3. t \in Token /\ t.sid = s /\ t.iat = now /\ now \in Int
  BY <1>2 DEF Token, TypeOK
<1> HIDE DEF t
<1>4. rec \in Record /\ rec.token = t /\ rec.userId = c.userId
  BY <1>2, <1>3 DEF Record, Rotated
<1> HIDE DEF rec, s, c
<1>5. /\ session'[s] # Null /\ session'[s].userId = c.userId /\ session'[s].token = t
      /\ \A x \in Sids \ {s} : session'[x] = session[x]
  BY <1>1, <1>2, <1>4, SetStores
<1>6. \A x \in Requests : req'[x] = Idle
  BY <1>1, OnlyRequest
<1>7. HeldSessionsIndexed'
  <2> SUFFICES ASSUME NEW x \in Sids, session'[x] # Null, Held(x)'
               PROVE  x \in index[session'[x].userId].ids \cup lapsed
    BY <1>1 DEF HeldSessionsIndexed
  <2>1. CASE x = s
    BY <1>2, <1>5, <2>1 DEF Listed
  <2>2. CASE x # s
    <3>1. Held(x)
      BY <1>1, <1>3, <2>2 DEF Held
    <3>2. QED
      BY <1>5, <2>2, <3>1 DEF SeqInv, HeldSessionsIndexed
  <2>3. QED
    BY <2>1, <2>2
<1>8. \A y \in issued' : y.iat <= now'
  BY <1>1, <1>3 DEF SeqInv
<1>9. LatestTokenStored'
  <2> SUFFICES ASSUME NEW x \in Sids, session'[x] # Null, NEW y \in issued', y.sid = x
               PROVE  y.iat <= session'[x].token.iat
    BY DEF LatestTokenStored
  <2>1. CASE x = s
    BY <1>1, <1>3, <1>5, <1>8, <2>1
  <2>2. CASE x # s
    <3>1. y \in issued
      BY <1>1, <1>3, <2>2
    <3>2. QED
      BY <1>5, <2>2, <3>1 DEF SeqInv, LatestTokenStored
  <2>3. QED
    BY <2>1, <2>2
<1>10. QED
  BY <1>6, <1>7, <1>8, <1>9, IdleKnown DEF SeqInv

LEMMA SeqAuthenticate ==
  ASSUME IInv, SeqInv, NEW r \in Requests, NEW t \in issued, NEW op \in Ops, NEW arg \in Args(op),
         Authenticate(r, t, op, arg), lapsed' = lapsed
  PROVE  SeqInv'
<1> USE DEF IInv
<1> DEFINE rec == session[t.sid]
           q == [Idle EXCEPT !.pc = "touch", !.op = op, !.user = t.sub, !.sid = t.sid,
                             !.arg = arg, !.copy = rec]
<1>1. /\ req' = [req EXCEPT ![r] = q] /\ rec # Null
      /\ UNCHANGED <<now, session, index, issued>>
  BY DEF Authenticate
<1>2. t.sid \in Sids /\ Held(t.sid)
  BY DEF TypeOK, Token, Held
<1>3. Listed(t.sid, rec.userId) /\ Latest(t.sid, rec) /\ session[t.sid] = rec
  BY <1>1, <1>2 DEF SeqInv, HeldSessionsIndexed, LatestTokenStored, Listed, Latest
<1> HIDE DEF rec
<1>4. q.pc = "touch" /\ q.sid = t.sid /\ q.copy = rec
  BY DEF Idle
<1> HIDE DEF q
<1>5. Known(q)
  BY <1>2, <1>3, <1>4 DEF Known
<1>6. QED
  BY <1>1, <1>5, ReadStep

LEMMA SeqTouch ==
  ASSUME IInv, SeqInv, NEW r \in Requests, Touch(r), lapsed' = lapsed
  PROVE  SeqInv'
<1> USE DEF IInv
<1> DEFINE s == req[r].sid
           c == req[r].copy
           e == [req[r] EXCEPT !.pc = "touchIndex", !.copy = Null]
<1>1. /\ req[r] \in Request /\ ReqOK(req[r], birth) /\ Known(req[r]) /\ req[r].pc = "touch"
      /\ SetSession(s, c) /\ req' = [req EXCEPT ![r] = e]
      /\ UNCHANGED <<now, index, issued, birth>>
  BY DEF Touch, TypeOK, RequestsOK, SeqInv
<1>2. s \in Sids /\ c \in Record /\ Listed(s, c.userId) /\ Latest(s, c)
  BY <1>1, NullAssumption DEF ReqOK, Known
<1>3. PICK q : q = e /\ q.pc = "touchIndex" /\ q.copy = Null
  <2>1. e.pc = "touchIndex" /\ e.copy = Null
    BY <1>1 DEF Request
  <2> HIDE DEF e
  <2>2. QED
    BY <2>1
<1> HIDE DEF s, c, e
<1>4. /\ session'[s] # Null /\ session'[s].userId = c.userId /\ session'[s].token = c.token
      /\ \A x \in Sids \ {s} : session'[x] = session[x]
  BY <1>1, <1>2, SetStores
<1>5. \A x \in Requests : req'[x] = q
  BY <1>1, <1>3, OnlyRequest
<1>6. HeldSessionsIndexed'
  BY <1>1, <1>2, <1>4 DEF SeqInv, HeldSessionsIndexed, Listed, Held
<1>7. LatestTokenStored'
  BY <1>1, <1>2, <1>4 DEF SeqInv, LatestTokenStored, Latest
<1>8. Known(q)'
  BY <1>3 DEF Known
<1>9. QED
  BY <1>1, <1>5, <1>6, <1>7, <1>8 DEF SeqInv

LEMMA SeqTouchIndex ==
  ASSUME IInv, SeqInv, NEW r \in Requests, TouchIndex(r), lapsed' = lapsed
  PROVE  SeqInv'
<1> USE DEF IInv
<1> DEFINE o == req[r]
           revoke == [Idle EXCEPT !.pc = "revokeGet", !.user = o.user, !.sid = o.arg]
           logout == [Idle EXCEPT !.pc = "del", !.user = o.arg.sub, !.sid = o.arg.sid]
           all == [Idle EXCEPT !.pc = "smembers", !.user = o.arg.sub]
           e == CASE o.op = "revoke" -> revoke
                  [] o.op = "logout" /\ RefreshValid(o.arg) -> logout
                  [] o.op = "logoutAll" /\ RefreshValid(o.arg) -> all
                  [] OTHER -> Idle
<1>1. /\ ReqOK(o, birth) /\ o.pc = "touchIndex" /\ ExpireIndex(o.user)
      /\ req' = [req EXCEPT ![r] = e]
      /\ UNCHANGED <<now, session, issued, birth>>
  BY DEF TouchIndex, RequestsOK
<1>2. o.user \in Users
  BY <1>1 DEF ReqOK
<1>3. /\ revoke.copy = Null /\ logout.copy = Null /\ all.copy = Null /\ Idle.copy = Null
      /\ revoke.pc = "revokeGet" /\ logout.pc = "del" /\ all.pc = "smembers" /\ Idle.pc = "idle"
  BY DEF Idle
<1> HIDE DEF revoke, logout, all
<1>4. e \in {revoke, logout, all, Idle}
  OBVIOUS
<1> HIDE DEF e, o
<1>5. PICK q : q = e /\ q.copy = Null /\ q.pc \in {"revokeGet", "del", "smembers", "idle"}
  BY <1>3, <1>4
<1>6. PICK i : index' = [index EXCEPT ![o.user] = i] /\ i.ids = index[o.user].ids
  BY <1>1, <1>2, ExpireKeepsIds
<1>7. Known(q)'
  BY <1>5 DEF Known
<1>8. QED
  BY <1>1, <1>2, <1>5, <1>6, <1>7, WriteIndexStep

LEMMA SeqRevokeGet ==
  ASSUME IInv, SeqInv, NEW r \in Requests, RevokeGet(r), lapsed' = lapsed
  PROVE  SeqInv'
<1> USE DEF IInv
<1>1. /\ req[r] \in Request /\ ReqOK(req[r], birth) /\ req[r].pc = "revokeGet"
      /\ UNCHANGED <<now, session, index, issued>>
      /\ Goto(r, "del") \/ Finish(r)
  BY DEF RevokeGet, TypeOK, RequestsOK
<1>2. CASE Goto(r, "del")
  <2> DEFINE q == [req[r] EXCEPT !.pc = "del"]
  <2>1. q.pc = "del" /\ q.copy = Null
    BY <1>1 DEF Request, ReqOK
  <2>2. req' = [req EXCEPT ![r] = q]
    BY <1>2 DEF Goto
  <2> HIDE DEF q
  <2>3. Known(q)
    BY <2>1 DEF Known
  <2>4. QED
    BY <1>1, <2>2, <2>3, ReadStep
<1>3. CASE Finish(r)
  BY <1>1, <1>3, IdleKnown, ReadStep DEF Finish
<1>4. QED
  BY <1>1, <1>2, <1>3

\* Records are deleted and nothing else changes but the request.
LEMMA DeleteStep ==
  ASSUME TypeOK, SeqInv, NEW r \in Requests, NEW q, req' = [req EXCEPT ![r] = q], Known(q)',
         NEW D, session' = [s \in Sids |-> IF s \in D THEN Null ELSE session[s]],
         UNCHANGED <<now, index, issued, lapsed>>
  PROVE  SeqInv'
<1>1. \A x \in Requests : req'[x] = q
  BY OnlyRequest
<1>2. QED
  BY <1>1 DEF SeqInv, HeldSessionsIndexed, LatestTokenStored, Held

LEMMA SeqDel ==
  ASSUME IInv, SeqInv, NEW r \in Requests, Del(r), lapsed' = lapsed
  PROVE  SeqInv'
<1> USE DEF IInv
<1> DEFINE e == [req[r] EXCEPT !.pc = "srem"]
           s == req[r].sid
<1>1. /\ req[r] \in Request /\ ReqOK(req[r], birth) /\ req[r].pc = "del"
      /\ req' = [req EXCEPT ![r] = e] /\ session' = [session EXCEPT ![s] = Null]
      /\ UNCHANGED <<now, index, issued>>
  BY DEF Del, Goto, TypeOK, RequestsOK
<1>2. PICK q : q = e /\ q.pc = "srem" /\ q.copy = Null /\ q.sid = s /\ s \in Sids
  <2>1. e.pc = "srem" /\ e.copy = Null /\ e.sid = s /\ s \in Sids
    BY <1>1 DEF Request, ReqOK
  <2> HIDE DEF e
  <2>2. QED
    BY <2>1
<1> HIDE DEF e, s
<1>3. session' = [x \in Sids |-> IF x \in {s} THEN Null ELSE session[x]] /\ session'[s] = Null
  BY <1>1, <1>2 DEF TypeOK
<1>4. Known(q)'
  BY <1>2, <1>3 DEF Known
<1>5. QED
  BY <1>1, <1>2, <1>3, <1>4, DeleteStep

LEMMA SeqSrem ==
  ASSUME IInv, SeqInv, NEW r \in Requests, Srem(r), lapsed' = lapsed
  PROVE  SeqInv'
<1> USE DEF IInv
<1> DEFINE u == req[r].user
           s == req[r].sid
           i == IF index[u].ids \subseteq {s} THEN NoIndex
                ELSE [index[u] EXCEPT !.ids = index[u].ids \ {s}]
<1>1. /\ ReqOK(req[r], birth) /\ Known(req[r]) /\ req[r].pc = "srem"
      /\ req' = [req EXCEPT ![r] = Idle] /\ index' = [index EXCEPT ![u] = i]
      /\ UNCHANGED <<now, session, issued, birth>>
  BY DEF Srem, SRem, Finish, RequestsOK, SeqInv
<1>2. u \in Users /\ session[s] = Null
  BY <1>1 DEF ReqOK, Known
<1>3. index[u].ids \ i.ids \subseteq {s}
  BY <1>2 DEF TypeOK, NoIndex
<1> HIDE DEF i, u, s
<1>4. QED
  BY <1>1, <1>2, <1>3, IdleKnown, WriteIndexStep

LEMMA SeqSmembers ==
  ASSUME IInv, SeqInv, NEW r \in Requests, Smembers(r), lapsed' = lapsed
  PROVE  SeqInv'
<1> USE DEF IInv
<1> DEFINE u == req[r].user
           q == [Idle EXCEPT !.pc = IF HasSessions(index[u].ids) THEN "delAll" ELSE "delIndex",
                             !.user = u, !.ids = index[u].ids]
<1>1. req' = [req EXCEPT ![r] = q] /\ UNCHANGED <<now, session, index, issued>>
  BY DEF Smembers
<1>2. /\ q.copy = Null /\ q.user = u /\ q.ids = index[u].ids /\ q.pc \in {"delAll", "delIndex"}
      /\ q.pc = "delIndex" => q.ids = {}
  BY DEF Idle, HasSessions
<1> HIDE DEF q, u
<1>3. Known(q)
  BY <1>2 DEF Known
<1>4. QED
  BY <1>1, <1>3, ReadStep

LEMMA SeqDelAll ==
  ASSUME IInv, SeqInv, NEW r \in Requests, DelAll(r), lapsed' = lapsed
  PROVE  SeqInv'
<1> USE DEF IInv
<1> DEFINE e == [req[r] EXCEPT !.pc = "delIndex"]
           D == req[r].ids
<1>1. /\ req[r] \in Request /\ ReqOK(req[r], birth) /\ Known(req[r]) /\ req[r].pc = "delAll"
      /\ req' = [req EXCEPT ![r] = e]
      /\ session' = [s \in Sids |-> IF s \in D THEN Null ELSE session[s]]
      /\ UNCHANGED <<now, index, issued>>
  BY DEF DelAll, Goto, TypeOK, RequestsOK, SeqInv
<1>2. PICK q : /\ q = e /\ q.pc = "delIndex" /\ q.copy = Null /\ q.user = req[r].user
               /\ q.ids = D /\ D \subseteq Sids
  <2>1. /\ e.pc = "delIndex" /\ e.copy = Null /\ e.user = req[r].user /\ e.ids = D
        /\ D \subseteq Sids
    BY <1>1 DEF Request, ReqOK
  <2> HIDE DEF e
  <2>2. QED
    BY <2>1
<1>3. index[req[r].user].ids \subseteq D
  BY <1>1 DEF Known
<1> HIDE DEF e, D
<1>4. Known(q)'
  BY <1>1, <1>2, <1>3 DEF Known
<1>5. QED
  BY <1>1, <1>2, <1>4, DeleteStep

LEMMA SeqDelIndex ==
  ASSUME IInv, SeqInv, NEW r \in Requests, DelIndex(r), lapsed' = lapsed
  PROVE  SeqInv'
<1> USE DEF IInv
<1>1. /\ ReqOK(req[r], birth) /\ Known(req[r]) /\ req[r].pc = "delIndex"
      /\ req' = [req EXCEPT ![r] = Idle] /\ index' = [index EXCEPT ![req[r].user] = NoIndex]
      /\ UNCHANGED <<now, session, issued, birth>>
  BY DEF DelIndex, Finish, RequestsOK, SeqInv
<1>2. req[r].user \in Users /\ \A s \in index[req[r].user].ids : session[s] = Null
  BY <1>1 DEF ReqOK, Known
<1>3. QED
  BY <1>1, <1>2, IdleKnown, WriteIndexStep

\* An index that runs out leaves its sessions in lapsed.
LEMMA SeqTickOK ==
  ASSUME IInv, SeqInv, SeqTick
  PROVE  SeqInv'
<1> USE DEF IInv
<1>1. /\ now' = now + 1 /\ now \in Int /\ req' = req /\ issued' = issued
      /\ lapsed \subseteq lapsed' /\ lapsed' = lapsed \cup Lapsing
      /\ session' = [s \in Sids |-> IF session[s] # Null /\ session[s].expires <= now + 1
                                    THEN Null ELSE session[s]]
      /\ index' = [u \in Users |-> IF index[u].expires # Null /\ index[u].expires <= now + 1
                                   THEN NoIndex ELSE index[u]]
  BY DEF SeqTick, Tick, TypeOK
<1>2. \A s \in Sids : session'[s] \in {session[s], Null}
  BY <1>1
<1>3. ASSUME NEW u \in Users PROVE index'[u].ids \subseteq index[u].ids
  BY <1>1 DEF NoIndex
<1>4. ASSUME NEW s \in Sids, NEW u \in Users, Listed(s, u) PROVE Listed(s, u)'
  <2>1. CASE index[u].expires # Null /\ index[u].expires <= now + 1
    BY <1>1, <1>4, <2>1 DEF Listed, Lapsing
  <2>2. CASE ~ (index[u].expires # Null /\ index[u].expires <= now + 1)
    BY <1>1, <1>4, <2>2 DEF Listed
  <2>3. QED
    BY <2>1, <2>2
<1>5. HeldSessionsIndexed'
  <2> SUFFICES ASSUME NEW s \in Sids, session'[s] # Null, Held(s)'
               PROVE  s \in index'[session'[s].userId].ids \cup lapsed'
    BY DEF HeldSessionsIndexed
  <2>1. session'[s] = session[s] /\ session[s] # Null /\ Held(s)
    BY <1>1, <1>2 DEF Held
  <2>2. PICK u \in Users : u = session[s].userId /\ Listed(s, u)
    BY <2>1 DEF TypeOK, Record, SeqInv, HeldSessionsIndexed, Listed
  <2>3. Listed(s, u)'
    BY <1>4, <2>2
  <2>4. QED
    BY <2>1, <2>2, <2>3 DEF Listed
<1>6. LatestTokenStored'
  BY <1>1, <1>2 DEF SeqInv, LatestTokenStored
<1>7. \A t \in issued' : t.iat <= now'
  <2> SUFFICES ASSUME NEW t \in issued PROVE t.iat <= now + 1
    BY <1>1
  <2>1. t.iat \in Int /\ t.iat <= now
    BY DEF SeqInv, TypeOK, Token
  <2>2. QED
    BY <1>1, <2>1
<1>8. ASSUME NEW r \in Requests PROVE Known(req[r])'
  <2> DEFINE q == req[r]
  <2>1. q \in Request /\ ReqOK(q, birth) /\ Known(q) /\ q' = q
    BY <1>1 DEF TypeOK, RequestsOK, SeqInv
  <2> HIDE DEF q
  <2>2. q.copy # Null => /\ Listed(q.sid, q.copy.userId)' /\ Latest(q.sid, q.copy)'
                         /\ Held(q.sid)' /\ session'[q.sid] \in {q.copy, Null}
    <3> SUFFICES ASSUME q.copy # Null
                 PROVE  /\ Listed(q.sid, q.copy.userId)' /\ Latest(q.sid, q.copy)'
                        /\ Held(q.sid)' /\ session'[q.sid] \in {q.copy, Null}
      OBVIOUS
    <3>1. q.sid \in Sids /\ q.copy \in Record
      BY <2>1 DEF ReqOK
    <3>2. /\ q.copy.userId \in Users /\ Listed(q.sid, q.copy.userId) /\ Latest(q.sid, q.copy)
          /\ Held(q.sid) /\ session[q.sid] \in {q.copy, Null}
      BY <2>1, <3>1 DEF Known, Record
    <3>3. Listed(q.sid, q.copy.userId)'
      BY <1>4, <2>1, <3>1, <3>2
    <3>4. Held(q.sid)' /\ session'[q.sid] \in {q.copy, Null}
      BY <1>1, <1>2, <2>1, <3>1, <3>2 DEF Held
    <3>5. QED
      BY <1>1, <2>1, <3>2, <3>3, <3>4 DEF Latest
  <2>3. q.pc = "loginExpire" => Listed(q.sid, q.user)'
    <3> SUFFICES ASSUME q.pc = "loginExpire" PROVE Listed(q.sid, q.user)'
      OBVIOUS
    <3>1. q.sid \in Sids /\ q.user \in Users /\ Listed(q.sid, q.user)
      BY <2>1 DEF ReqOK, Known, Token
    <3>2. QED
      BY <1>4, <2>1, <3>1
  <2>4. q.pc \in {"loginSadd", "loginExpire"} =>
          /\ ~ Held(q.sid)' /\ q.tok.iat <= now'
          /\ session'[q.sid] # Null => session'[q.sid].token = q.tok
    <3> SUFFICES ASSUME q.pc \in {"loginSadd", "loginExpire"}
                 PROVE  /\ ~ Held(q.sid)' /\ q.tok.iat <= now'
                        /\ session'[q.sid] # Null => session'[q.sid].token = q.tok
      OBVIOUS
    <3>1. q.sid \in Sids /\ q.tok.iat \in Int
      BY <2>1 DEF ReqOK, Token
    <3>2. /\ ~ Held(q.sid) /\ q.tok.iat <= now
          /\ session[q.sid] # Null => session[q.sid].token = q.tok
      BY <2>1 DEF Known
    <3>3. ~ Held(q.sid)'
      BY <1>1, <2>1, <3>2 DEF Held
    <3>4. QED
      BY <1>1, <1>2, <3>1, <3>2, <3>3
  <2>5. q.pc = "srem" => session'[q.sid] = Null
    BY <1>2, <2>1 DEF ReqOK, Known
  <2>6. q.pc \in {"delAll", "delIndex"} => index'[q.user].ids \subseteq q.ids
    BY <1>3, <2>1 DEF ReqOK, Known
  <2>7. q.pc = "delIndex" => \A s \in q.ids : session'[s] = Null
    <3>1. q.ids \subseteq Sids
      BY <2>1 DEF Request
    <3>2. QED
      BY <1>2, <2>1, <3>1 DEF Known
  <2>8. Known(q)'
    BY <2>1, <2>2, <2>3, <2>4, <2>5, <2>6, <2>7 DEF Known
  <2>9. QED
    BY <2>8 DEF q
<1>9. QED
  BY <1>5, <1>6, <1>7, <1>8 DEF SeqInv

LEMMA SeqStepOK ==
  ASSUME IInv, SeqInv, SeqStep
  PROVE  SeqInv'
<1>1. PICK r \in Requests : Arrive(r) \/ Step(r) \/ Abort(r)
  BY DEF SeqStep
<1>2. lapsed' = lapsed
  BY DEF SeqStep
<1>3. CASE Arrive(r)
  BY <1>2, <1>3, SeqLogin, SeqRefresh, SeqAuthenticate DEF Arrive
<1>4. CASE Step(r)
  BY <1>2, <1>4, SeqLoginSadd, SeqLoginExpire, SeqRefreshRotate, SeqTouch, SeqTouchIndex,
     SeqRevokeGet, SeqDel, SeqSrem, SeqSmembers, SeqDelAll, SeqDelIndex DEF Step
<1>5. CASE Abort(r)
  BY <1>2, <1>5, IdleKnown, ReadStep DEF Abort, Finish, IInv
<1>6. QED
  BY <1>1, <1>3, <1>4, <1>5

\* Requests that come one at a time are a case of requests that interleave, so
\* all that holds of Sessions holds of them.
THEOREM SequentialIsConcurrent == SeqSpec => Spec
<1>1. SeqInit => Init
  BY DEF SeqInit
<1>2. [SeqNext]_seqVars => [Next]_vars
  BY DEF SeqNext, SeqStep, SeqTick, Next, seqVars, vars
<1>3. QED
  BY <1>1, <1>2, PTL DEF SeqSpec, Spec

\* With one request at a time every command finds what its handler assumes.
THEOREM SequentialInvariant == SeqSpec => [](IInv /\ SeqInv)
<1>1. SeqInit => SeqInv
  <2> SUFFICES ASSUME SeqInit PROVE SeqInv
    OBVIOUS
  <2>1. issued = {} /\ (\A s \in Sids : session[s] = Null) /\ \A r \in Requests : req[r] = Idle
    BY DEF SeqInit, Init
  <2>2. QED
    BY <2>1, IdleKnown DEF SeqInv, HeldSessionsIndexed, LatestTokenStored
<1>2. IInv /\ SeqInv /\ [SeqNext]_seqVars => SeqInv'
  <2>1. ASSUME IInv, SeqInv, UNCHANGED seqVars PROVE SeqInv'
    BY <2>1 DEF seqVars, SeqInv, HeldSessionsIndexed, LatestTokenStored, Known, Listed, Latest, Held
  <2>2. QED
    BY <2>1, SeqStepOK, SeqTickOK DEF SeqNext
<1>3. QED
  BY <1>1, <1>2, SequentialIsConcurrent, OwnershipInvariant, PTL DEF SeqSpec

\* logoutAll and the session list see every live session a client holds, as
\* long as its index has not run out.
THEOREM HeldIndexed == SeqSpec => []HeldSessionsIndexed
<1>1. SeqInv => HeldSessionsIndexed
  BY DEF SeqInv
<1>2. QED
  BY <1>1, SequentialInvariant, PTL

\* refresh: the last rotation decides which token is accepted.
THEOREM LatestStored == SeqSpec => []LatestTokenStored
<1>1. SeqInv => LatestTokenStored
  BY DEF SeqInv
<1>2. QED
  BY <1>1, SequentialInvariant, PTL

\* logoutAll: the sessions SMEMBERS named are all there are, and all are gone
\* when the index is deleted.
THEOREM LogoutAllComplete == SeqSpec => LogoutAllEndsIndexed
<1> DEFINE Ends == \A r \in Requests : DelIndex(r) =>
       \A s \in Sids : session'[s] # Null /\ Held(s) /\ session'[s].userId = req[r].user =>
         s \in lapsed
<1>1. IInv /\ SeqInv => Ends
  <2> SUFFICES ASSUME IInv, SeqInv, NEW r \in Requests, DelIndex(r), NEW s \in Sids,
                      session'[s] # Null, Held(s), session'[s].userId = req[r].user
               PROVE  s \in lapsed
    OBVIOUS
  <2>1. req[r].pc = "delIndex" /\ session' = session /\ Known(req[r])
    BY DEF DelIndex, SeqInv
  <2>2. s \in index[req[r].user].ids \cup lapsed
    BY <2>1 DEF SeqInv, HeldSessionsIndexed
  <2>3. \A x \in index[req[r].user].ids : session[x] = Null
    BY <2>1 DEF Known
  <2>4. QED
    BY <2>1, <2>2, <2>3
<1>2. IInv /\ SeqInv => [Ends]_seqVars
  BY <1>1
<1>3. QED
  BY <1>2, SequentialInvariant, PTL DEF LogoutAllEndsIndexed

-----------------------------------------------------------------------------
(* One request at a time, the commands amount to SessionStore              *)

\* The sessions that live when the records are ss and the request is q.
LiveOf(ss, q) ==
  [s \in Sids |-> IF ss[s] # Null THEN View(ss[s])
                  ELSE IF q.sid = s /\ q.copy # Null THEN View(q.copy) ELSE Null]

\* A record is seen as its user and the time its token was signed.
LEMMA ViewOf ==
  ASSUME NEW rec \in Record
  PROVE  /\ View(rec) # Null /\ View(rec) = [user |-> rec.userId, iat |-> rec.token.iat]
         /\ View(rec).user = rec.userId
<1>1. View(rec) = [user |-> rec.userId, iat |-> rec.token.iat]
  BY DEF View
<1>2. rec.userId \in Users /\ rec.token.iat \in 0..MaxTime
  BY DEF Record, Token
<1>3. QED
  BY <1>1, <1>2, NullIsNoView

\* The copies there are, are the one of the one request.
LEMMA LiveNow ==
  ASSUME NEW r \in Requests, NEW q, \A x \in Requests : req[x] = q
  PROVE  Live = LiveOf(session, q)
<1>1. ASSUME NEW s \in Sids
      PROVE  Copies(s) = IF q.sid = s /\ q.copy # Null THEN {q.copy} ELSE {}
  BY DEF Copies
<1>2. \A c : (CHOOSE x \in {c} : TRUE) = c
  OBVIOUS
<1>3. QED
  BY <1>1, <1>2 DEF Live, LiveOf

LEMMA LiveNext ==
  ASSUME NEW r \in Requests, NEW q, \A x \in Requests : req'[x] = q
  PROVE  Live' = LiveOf(session', q)
<1>1. ASSUME NEW s \in Sids
      PROVE  Copies(s)' = IF q.sid = s /\ q.copy # Null THEN {q.copy} ELSE {}
  BY DEF Copies
<1>2. \A c : (CHOOSE x \in {c} : TRUE) = c
  OBVIOUS
<1>3. QED
  BY <1>1, <1>2 DEF Live, LiveOf

\* The request changes to q: what lives before and after.
LEMMA LiveSteps ==
  ASSUME TypeOK, NEW r \in Requests, NEW q, req' = [req EXCEPT ![r] = q]
  PROVE  Live = LiveOf(session, req[r]) /\ Live' = LiveOf(session', q)
<1>1. \A x \in Requests : req[x] = req[r]
  BY OneAtATime
<1>2. \A x \in Requests : req'[x] = q
  BY OnlyRequest
<1>3. QED
  BY <1>1, <1>2, LiveNow, LiveNext

\* A command that touches no record, while no request holds a copy of one.
LEMMA QuietStep ==
  ASSUME TypeOK, NEW r \in Requests, NEW q, req' = [req EXCEPT ![r] = q],
         req[r].copy = Null, q.copy = Null,
         UNCHANGED <<now, session, issued, birth, lapsed>>
  PROVE  UNCHANGED Store!svars
<1>1. Live = LiveOf(session, req[r]) /\ Live' = LiveOf(session', q)
  BY LiveSteps
<1>2. Live' = Live
  <2>1. \A x \in Sids : Live'[x] = Live[x]
    BY <1>1 DEF LiveOf
  <2>2. QED
    BY <2>1 DEF Live
<1>3. QED
  BY <1>2 DEF Store!svars, Held

LEMMA LoginOpens ==
  ASSUME IInv, SeqInv, NEW r \in Requests, NEW u \in Users, NEW f \in Fingerprints,
         Login(r, u, f), lapsed' = lapsed
  PROVE  \E s \in Sids : Store!Open(s, u)
<1> USE DEF IInv
<1>1. PICK s \in Sids :
        /\ birth[s] = Null
        /\ SetSession(s, [userId |-> u, fingerprint |-> f,
                          token |-> [sub |-> u, sid |-> s, iat |-> now], expires |-> now])
        /\ birth' = [birth EXCEPT ![s] = [userId |-> u, fingerprint |-> f]]
        /\ req' = [req EXCEPT ![r] = [Idle EXCEPT !.pc = "loginSadd", !.user = u, !.sid = s,
                                        !.tok = [sub |-> u, sid |-> s, iat |-> now]]]
  BY DEF Login
<1>2. /\ now' = now /\ issued' = issued /\ req[r].pc = "idle"
      /\ ReqOK(req[r], birth)
  BY DEF Login, RequestsOK
<1> DEFINE t == [sub |-> u, sid |-> s, iat |-> now]
           rec == [userId |-> u, fingerprint |-> f, token |-> t, expires |-> now]
           e == [Idle EXCEPT !.pc = "loginSadd", !.user = u, !.sid = s, !.tok = t]
<1>3. t \in Token /\ t.iat = now /\ rec \in Record /\ rec.token = t /\ rec.userId = u
  BY DEF TypeOK, Token, Record
<1>4. PICK q : req' = [req EXCEPT ![r] = q] /\ q.copy = Null
  <2>1. e.copy = Null
    BY DEF Idle
  <2>2. req' = [req EXCEPT ![r] = e]
    BY <1>1
  <2> HIDE DEF e
  <2>3. QED
    BY <2>1, <2>2
<1>5. SetSession(s, rec)
  BY <1>1
<1> HIDE DEF t, rec, e
<1>6. /\ session'[s] \in Record /\ session'[s] # Null
      /\ session'[s].token = t /\ session'[s].userId = u
      /\ \A x \in Sids \ {s} : session'[x] = session[x]
  <2>1. session' \in [Sids -> Record \cup {Null}]
    BY <1>3, <1>5, SetStores
  <2>2. QED
    BY <1>3, <1>5, <2>1, SetStores
<1>7. View(session'[s]) = [user |-> u, iat |-> now]
  BY <1>3, <1>6, ViewOf
<1>8. req[r].copy = Null /\ session[s] = Null /\ ~ Held(s)
  BY <1>1, <1>2 DEF ReqOK, RecordsOK, SameIdentity, Held, CookiesOK, OwnedBy
<1>9. Live = LiveOf(session, req[r]) /\ Live' = LiveOf(session', q)
  BY <1>4, LiveSteps
<1>10. \A x \in Sids : Live'[x] = IF x = s THEN View(session'[s]) ELSE Live[x]
  BY <1>4, <1>6, <1>8, <1>9 DEF LiveOf
<1>11. Live' = [Live EXCEPT ![s] = [user |-> u, iat |-> now]]
  BY <1>7, <1>9, <1>10 DEF LiveOf
<1>12. {x \in Sids : Live'[x] # Null /\ Held(x)'} = {x \in Sids : Live[x] # Null /\ Held(x)}
  BY <1>2, <1>8, <1>10 DEF Held
<1>13. /\ {x \in Sids : birth'[x] # Null} = {x \in Sids : birth[x] # Null} \cup {s}
  <2>1. birth'[s] # Null /\ \A x \in Sids \ {s} : birth'[x] = birth[x]
    BY <1>1, NullAssumption DEF TypeOK
  <2>2. QED
    BY <2>1
<1>14. QED
  BY <1>1, <1>2, <1>11, <1>12, <1>13 DEF Store!Open

\* The client's first token lists the session.
LEMMA LoginExpireLists ==
  ASSUME IInv, SeqInv, NEW r \in Requests, LoginExpire(r), lapsed' = lapsed
  PROVE  (\E s \in Sids : Store!List(s)) \/ UNCHANGED Store!svars
<1> USE DEF IInv
<1>0. PICK s, t : s = req[r].sid /\ t = req[r].tok
  OBVIOUS
<1>1. /\ ReqOK(req[r], birth) /\ req[r].pc = "loginExpire"
      /\ req' = [req EXCEPT ![r] = Idle] /\ issued' = issued \cup {t}
      /\ UNCHANGED <<now, session, birth>>
  BY <1>0 DEF LoginExpire, Finish, RequestsOK
<1>2. s \in Sids /\ t.sid = s /\ req[r].copy = Null /\ Idle.copy = Null
  BY <1>0, <1>1 DEF ReqOK, Token, Idle
<1>3. Live' = Live
  <2>1. Live = LiveOf(session, req[r]) /\ Live' = LiveOf(session', Idle)
    BY <1>1, LiveSteps
  <2>2. \A x \in Sids : Live'[x] = Live[x]
    BY <1>1, <1>2, <2>1 DEF LiveOf
  <2>3. QED
    BY <2>2 DEF Live
<1>4. \A x \in Sids : Held(x)' <=> Held(x) \/ x = s
  BY <1>1, <1>2 DEF Held
<1>5. CASE Live[s] # Null /\ s \notin lapsed
  <2>1. Store!List(s)
    BY <1>1, <1>2, <1>3, <1>4, <1>5 DEF Store!List
  <2>2. QED
    BY <1>2, <2>1
<1>6. CASE ~ (Live[s] # Null /\ s \notin lapsed)
  BY <1>1, <1>3, <1>4, <1>6 DEF Store!svars
<1>7. QED
  BY <1>5, <1>6

\* Reading a record makes no session.
LEMMA CopyStep ==
  ASSUME TypeOK, NEW r \in Requests, NEW q, req' = [req EXCEPT ![r] = q],
         req[r].copy = Null, q.copy # Null => session[q.sid] # Null,
         UNCHANGED <<now, session, issued, birth, lapsed>>
  PROVE  UNCHANGED Store!svars
<1>1. Live = LiveOf(session, req[r]) /\ Live' = LiveOf(session', q)
  BY LiveSteps
<1>2. Live' = Live
  <2>1. \A x \in Sids : Live'[x] = Live[x]
    BY <1>1 DEF LiveOf
  <2>2. QED
    BY <2>1 DEF Live
<1>3. QED
  BY <1>2 DEF Store!svars, Held

LEMMA RefreshQuiet ==
  ASSUME IInv, NEW r \in Requests, NEW t \in issued, NEW f \in Fingerprints,
         Refresh(r, t, f), lapsed' = lapsed
  PROVE  UNCHANGED Store!svars
<1> USE DEF IInv
<1> DEFINE rec == session[t.sid]
           q == [Idle EXCEPT
                   !.pc = IF ~ SameDevice(rec, f) THEN "del"
                          ELSE IF rec.token # t THEN "smembers" ELSE "rotate",
                   !.user = t.sub, !.sid = t.sid, !.fp = f,
                   !.copy = IF SameDevice(rec, f) /\ rec.token = t THEN rec ELSE Null]
<1>1. /\ req' = [req EXCEPT ![r] = q] /\ session[t.sid] # Null
      /\ req[r].copy = Null /\ UNCHANGED <<now, session, issued, birth, lapsed>>
  BY DEF Refresh, RequestsOK, ReqOK
<1>2. q.sid = t.sid
  BY DEF Idle
<1> HIDE DEF q
<1>3. QED
  BY <1>1, <1>2, CopyStep

LEMMA AuthenticateQuiet ==
  ASSUME IInv, NEW r \in Requests, NEW t \in issued, NEW op \in Ops, NEW arg \in Args(op),
         Authenticate(r, t, op, arg), lapsed' = lapsed
  PROVE  UNCHANGED Store!svars
<1> USE DEF IInv
<1> DEFINE q == [Idle EXCEPT !.pc = "touch", !.op = op, !.user = t.sub, !.sid = t.sid,
                             !.arg = arg, !.copy = session[t.sid]]
<1>1. /\ req' = [req EXCEPT ![r] = q] /\ session[t.sid] # Null
      /\ req[r].copy = Null /\ UNCHANGED <<now, session, issued, birth, lapsed>>
  BY DEF Authenticate, RequestsOK, ReqOK
<1>2. q.sid = t.sid
  BY DEF Idle
<1> HIDE DEF q
<1>3. QED
  BY <1>1, <1>2, CopyStep

\* The copy that a request SETs back is of a session that lives.
LEMMA SetBack ==
  ASSUME IInv, SeqInv, NEW r \in Requests, NEW q, req' = [req EXCEPT ![r] = q],
         req[r].copy # Null, q.copy = Null,
         NEW rec \in Record, SetSession(req[r].sid, rec), rec.userId = req[r].copy.userId
  PROVE  /\ req[r].sid \in Sids /\ Live[req[r].sid] = View(req[r].copy)
         /\ View(req[r].copy) # Null
         /\ View(req[r].copy) = [user |-> rec.userId, iat |-> req[r].copy.token.iat]
         /\ \A x \in Sids : Live'[x] = IF x = req[r].sid
                                       THEN [user |-> rec.userId, iat |-> rec.token.iat]
                                       ELSE Live[x]
<1> USE DEF IInv
<1> DEFINE s == req[r].sid
           c == req[r].copy
<1>1. s \in Sids /\ c \in Record /\ session[s] \in {c, Null}
  BY DEF RequestsOK, ReqOK, SeqInv, Known
<1>2. Live = LiveOf(session, req[r]) /\ Live' = LiveOf(session', q)
  BY LiveSteps
<1>3. Live[s] = View(c)
  BY <1>1, <1>2 DEF LiveOf
<1>4. View(c) # Null /\ View(c) = [user |-> rec.userId, iat |-> c.token.iat]
  BY <1>1, ViewOf
<1>5. /\ session'[s] # Null /\ session'[s] \in Record /\ session'[s].userId = rec.userId
      /\ session'[s].token = rec.token /\ \A x \in Sids \ {s} : session'[x] = session[x]
  <2>1. session' \in [Sids -> Record \cup {Null}]
    BY <1>1, SetStores
  <2>2. QED
    BY <1>1, <2>1, SetStores
<1>6. View(session'[s]) = [user |-> rec.userId, iat |-> rec.token.iat]
  BY <1>5, ViewOf
<1>7. \A x \in Sids : Live'[x] = IF x = s THEN View(session'[s]) ELSE Live[x]
  BY <1>1, <1>2, <1>5 DEF LiveOf
<1> HIDE DEF s, c
<1>8. QED
  BY <1>1, <1>3, <1>4, <1>6, <1>7 DEF s, c

LEMMA RotateRotates ==
  ASSUME IInv, SeqInv, NEW r \in Requests, RefreshRotate(r), lapsed' = lapsed
  PROVE  \E s \in Sids : Store!Rotate(s)
<1> USE DEF IInv
<1> DEFINE s == req[r].sid
           c == req[r].copy
           t == [sub |-> req[r].user, sid |-> s, iat |-> now]
           rec == Rotated(c, t)
<1>1. /\ ReqOK(req[r], birth) /\ Known(req[r]) /\ req[r].pc = "rotate"
      /\ SetSession(s, rec) /\ req' = [req EXCEPT ![r] = Idle]
      /\ issued' \subseteq issued \cup {t} /\ issued \subseteq issued'
      /\ UNCHANGED <<now, index, birth>>
  BY DEF RefreshRotate, Finish, RequestsOK, SeqInv
<1>2. req[r].user \in Users /\ s \in Sids /\ c \in Record /\ c # Null /\ Held(s)
  BY <1>1, NullAssumption DEF ReqOK, Known
<1>3. t \in Token /\ t.sid = s /\ t.iat = now
  BY <1>2 DEF Token, TypeOK
<1> HIDE DEF t
<1>4. rec \in Record /\ rec.token = t /\ rec.userId = c.userId
  BY <1>2, <1>3 DEF Record, Rotated
<1> HIDE DEF rec
<1>5. Idle.copy = Null
  BY DEF Idle
<1>6. /\ Live[s] = View(c) /\ View(c) # Null
      /\ View(c) = [user |-> rec.userId, iat |-> c.token.iat]
      /\ \A x \in Sids : Live'[x] = IF x = s THEN [user |-> rec.userId, iat |-> now] ELSE Live[x]
  BY <1>1, <1>2, <1>3, <1>4, <1>5, SetBack
<1> HIDE DEF s, c
<1>7. [user |-> rec.userId, iat |-> now] = [Live[s] EXCEPT !.iat = now]
  BY <1>6
<1>8. Live' = [Live EXCEPT ![s].iat = now]
  <2>1. \A x \in Sids : Live'[x] = IF x = s THEN [Live[s] EXCEPT !.iat = now] ELSE Live[x]
    BY <1>6, <1>7
  <2>2. QED
    BY <1>2, <2>1 DEF Live
<1>9. \A x \in Sids : Held(x)' <=> Held(x)
  BY <1>1, <1>2, <1>3 DEF Held
<1>10. \A x \in Sids : Live'[x] # Null <=> Live[x] # Null
  <2>1. [user |-> rec.userId, iat |-> now] # Null
    BY <1>3, <1>4, NullIsNoView DEF Record, Token
  <2>2. QED
    BY <1>6, <2>1
<1>11. Store!Rotate(s)
  BY <1>1, <1>2, <1>6, <1>8, <1>9, <1>10 DEF Store!Rotate
<1>12. QED
  BY <1>2, <1>11

LEMMA TouchQuiet ==
  ASSUME IInv, SeqInv, NEW r \in Requests, Touch(r), lapsed' = lapsed
  PROVE  UNCHANGED Store!svars
<1> USE DEF IInv
<1> DEFINE s == req[r].sid
           c == req[r].copy
           e == [req[r] EXCEPT !.pc = "touchIndex", !.copy = Null]
<1>1. /\ req[r] \in Request /\ ReqOK(req[r], birth) /\ req[r].pc = "touch"
      /\ SetSession(s, c) /\ req' = [req EXCEPT ![r] = e]
      /\ UNCHANGED <<now, issued, birth>>
  BY DEF Touch, TypeOK, RequestsOK
<1>2. c \in Record /\ c # Null
  BY <1>1, NullAssumption DEF ReqOK
<1>3. e.copy = Null
  BY <1>1 DEF Request
<1> HIDE DEF e
<1>4. /\ s \in Sids /\ Live[s] = View(c) /\ View(c) = [user |-> c.userId, iat |-> c.token.iat]
      /\ \A x \in Sids : Live'[x] = IF x = s THEN [user |-> c.userId, iat |-> c.token.iat]
                                    ELSE Live[x]
  BY <1>1, <1>2, <1>3, SetBack
<1> HIDE DEF s, c
<1>5. Live' = Live
  <2>1. \A x \in Sids : Live'[x] = Live[x]
    BY <1>4
  <2>2. QED
    BY <2>1 DEF Live
<1>6. QED
  BY <1>1, <1>5 DEF Store!svars, Held

\* A command that reads, or writes an index: no session is made or ended.
LEMMA OtherQuiet ==
  ASSUME IInv, NEW r \in Requests,
         LoginSadd(r) \/ TouchIndex(r) \/ RevokeGet(r) \/ Srem(r) \/ Smembers(r) \/ DelIndex(r),
         lapsed' = lapsed
  PROVE  UNCHANGED Store!svars
<1> USE DEF IInv
<1>1. /\ req[r] \in Request /\ ReqOK(req[r], birth) /\ UNCHANGED <<now, session, issued, birth>>
      /\ req[r].pc \notin {"rotate", "touch"}
  BY DEF TypeOK, RequestsOK, LoginSadd, TouchIndex, RevokeGet, Srem, Smembers, DelIndex
<1>2. req[r].copy = Null
  BY <1>1 DEF ReqOK
<1>3. Idle.copy = Null
  BY DEF Idle
<1>4. CASE Finish(r)
  BY <1>1, <1>2, <1>3, <1>4, QuietStep DEF Finish
<1>5. ASSUME NEW l, Goto(r, l) PROVE UNCHANGED Store!svars
  <2> DEFINE q == [req[r] EXCEPT !.pc = l]
  <2>1. q.copy = Null
    BY <1>1, <1>2 DEF Request
  <2>2. req' = [req EXCEPT ![r] = q]
    BY <1>5 DEF Goto
  <2> HIDE DEF q
  <2>3. QED
    BY <1>1, <1>2, <2>1, <2>2, QuietStep
<1>6. CASE LoginSadd(r) \/ RevokeGet(r) \/ Srem(r) \/ DelIndex(r)
  BY <1>4, <1>5, <1>6 DEF LoginSadd, RevokeGet, Srem, DelIndex
<1>7. CASE TouchIndex(r)
  <2> DEFINE o == req[r]
             revoke == [Idle EXCEPT !.pc = "revokeGet", !.user = o.user, !.sid = o.arg]
             logout == [Idle EXCEPT !.pc = "del", !.user = o.arg.sub, !.sid = o.arg.sid]
             all == [Idle EXCEPT !.pc = "smembers", !.user = o.arg.sub]
             q == CASE o.op = "revoke" -> revoke
                    [] o.op = "logout" /\ RefreshValid(o.arg) -> logout
                    [] o.op = "logoutAll" /\ RefreshValid(o.arg) -> all
                    [] OTHER -> Idle
  <2>1. req' = [req EXCEPT ![r] = q]
    BY <1>7 DEF TouchIndex
  <2>2. revoke.copy = Null /\ logout.copy = Null /\ all.copy = Null /\ Idle.copy = Null
    BY DEF Idle
  <2> HIDE DEF revoke, logout, all
  <2>3. q \in {revoke, logout, all, Idle}
    OBVIOUS
  <2> HIDE DEF q, o
  <2>4. QED
    BY <1>1, <1>2, <2>1, <2>2, <2>3, QuietStep
<1>8. CASE Smembers(r)
  <2> DEFINE u == req[r].user
             q == [Idle EXCEPT !.pc = IF HasSessions(index[u].ids) THEN "delAll" ELSE "delIndex",
                               !.user = u, !.ids = index[u].ids]
  <2>1. req' = [req EXCEPT ![r] = q]
    BY <1>8 DEF Smembers
  <2>2. q.copy = Null
    BY DEF Idle
  <2> HIDE DEF q
  <2>3. QED
    BY <1>1, <1>2, <2>1, <2>2, QuietStep
<1>9. QED
  BY <1>6, <1>7, <1>8

\* Records are deleted while no request holds a copy of one.
LEMMA DeleteEnds ==
  ASSUME TypeOK, NEW r \in Requests, NEW q, req' = [req EXCEPT ![r] = q],
         req[r].copy = Null, q.copy = Null,
         NEW D, session' = [s \in Sids |-> IF s \in D THEN Null ELSE session[s]],
         UNCHANGED <<now, issued, birth, lapsed>>
  PROVE  Store!End(D)
<1>1. Live = LiveOf(session, req[r]) /\ Live' = LiveOf(session', q)
  BY LiveSteps
<1>2. \A x \in Sids : Live'[x] = IF x \in D THEN Null ELSE Live[x]
  BY <1>1 DEF LiveOf
<1>3. Live' = Store!Without(D)
  BY <1>2 DEF Live, Store!Without
<1>4. QED
  BY <1>2, <1>3 DEF Store!End, Held

LEMMA DelEnds ==
  ASSUME IInv, NEW r \in Requests, Del(r), lapsed' = lapsed
  PROVE  \E s \in Sids : Store!End({s})
<1> USE DEF IInv
<1> DEFINE q == [req[r] EXCEPT !.pc = "srem"]
           s == req[r].sid
<1>1. /\ req[r] \in Request /\ ReqOK(req[r], birth) /\ req[r].pc = "del"
      /\ req' = [req EXCEPT ![r] = q] /\ session' = [session EXCEPT ![s] = Null]
      /\ UNCHANGED <<now, issued, birth>>
  BY DEF Del, Goto, TypeOK, RequestsOK
<1>2. s \in Sids /\ req[r].copy = Null /\ q.copy = Null
  BY <1>1 DEF Request, ReqOK
<1> HIDE DEF q, s
<1>3. session' = [x \in Sids |-> IF x \in {s} THEN Null ELSE session[x]]
  BY <1>1, <1>2 DEF TypeOK
<1>4. QED
  BY <1>1, <1>2, <1>3, DeleteEnds

\* What SMEMBERS named is all of the user's sessions that are listed.
LEMMA DelAllEnds ==
  ASSUME IInv, SeqInv, NEW r \in Requests, DelAll(r), lapsed' = lapsed
  PROVE  \E u \in Users : Store!EndAll(u)
<1> USE DEF IInv
<1>0. PICK u, D, q : u = req[r].user /\ D = req[r].ids /\ q = [req[r] EXCEPT !.pc = "delIndex"]
  OBVIOUS
<1>1. /\ req[r] \in Request /\ ReqOK(req[r], birth) /\ Known(req[r]) /\ req[r].pc = "delAll"
      /\ req' = [req EXCEPT ![r] = q]
      /\ session' = [s \in Sids |-> IF s \in D THEN Null ELSE session[s]]
      /\ UNCHANGED <<now, issued, birth>>
  BY <1>0 DEF DelAll, Goto, TypeOK, RequestsOK, SeqInv
<1>2. /\ req[r].copy = Null /\ q.copy = Null /\ u \in Users /\ D \subseteq Sids
      /\ index[u].ids \subseteq D /\ \A s \in D : OwnedBy(birth, s, u)
  BY <1>0, <1>1 DEF Request, ReqOK, Known
<1>3. \A x \in Sids : Live[x] = IF session[x] # Null THEN View(session[x]) ELSE Null
  BY <1>1, <1>2, LiveSteps DEF LiveOf
<1>4. \A x \in Sids : Live[x] # Null =>
        /\ session[x] # Null /\ session[x] \in Record /\ Live[x].user = session[x].userId
        /\ SameIdentity(birth, x, session[x])
  BY <1>3, ViewOf DEF TypeOK, RecordsOK
<1>5. PICK S : S = {s \in D : Live[s] # Null}
  OBVIOUS
<1>6. session' = [s \in Sids |-> IF s \in S THEN Null ELSE session[s]]
  <2>1. \A s \in Sids : session[s] # Null => Live[s] # Null
    BY <1>3, ViewOf DEF TypeOK
  <2>2. QED
    BY <1>1, <1>5, <2>1
<1>7. Store!End(S)
  BY <1>1, <1>2, <1>6, DeleteEnds
<1>8. S \in SUBSET Store!SessionsOf(u)
  BY <1>2, <1>4, <1>5 DEF SameIdentity, OwnedBy, Store!SessionsOf
<1>9. Store!SessionsOf(u) \cap ({s \in Sids : Live[s] # Null /\ Held(s)} \ lapsed) \subseteq S
  BY <1>2, <1>4, <1>5 DEF SeqInv, HeldSessionsIndexed, Store!SessionsOf
<1>10. Store!EndAll(u)
  BY <1>7, <1>8, <1>9 DEF Store!EndAll
<1>11. QED
  BY <1>2, <1>10

\* The request that is cut off takes its copy along, and with it a session whose
\* record ran out since it was read.
LEMMA AbortEnds ==
  ASSUME IInv, SeqInv, NEW r \in Requests, Abort(r), lapsed' = lapsed
  PROVE  (\E s \in Sids : Store!End({s})) \/ UNCHANGED Store!svars
<1> USE DEF IInv
<1>0. PICK s, c : s = req[r].sid /\ c = req[r].copy
  OBVIOUS
<1>1. /\ ReqOK(req[r], birth) /\ req' = [req EXCEPT ![r] = Idle]
      /\ UNCHANGED <<now, session, issued, birth>>
  BY DEF Abort, Finish, RequestsOK
<1>2. Idle.copy = Null
  BY DEF Idle
<1>3. Live = LiveOf(session, req[r]) /\ Live' = LiveOf(session', Idle)
  BY <1>1, LiveSteps
<1>4. CASE c # Null /\ session[s] = Null
  <2>1. s \in Sids
    BY <1>0, <1>1, <1>4 DEF ReqOK
  <2>2. \A x \in Sids : Live'[x] = IF x \in {s} THEN Null ELSE Live[x]
    BY <1>0, <1>1, <1>2, <1>3, <1>4 DEF LiveOf
  <2>3. Live' = Store!Without({s})
    BY <2>2 DEF Live, Store!Without
  <2>4. Store!End({s})
    BY <1>1, <2>2, <2>3 DEF Store!End, Held
  <2>5. QED
    BY <2>1, <2>4
<1>5. CASE ~ (c # Null /\ session[s] = Null)
  <2>1. Live' = Live
    <3>1. \A x \in Sids : Live'[x] = Live[x]
      BY <1>0, <1>1, <1>2, <1>3, <1>5 DEF LiveOf
    <3>2. QED
      BY <3>1 DEF Live
  <2>2. QED
    BY <1>1, <2>1 DEF Store!svars, Held
<1>6. QED
  BY <1>4, <1>5

\* A session whose record runs out lives on while a request holds its copy.
LEMMA TickEnds ==
  ASSUME IInv, SeqInv, SeqTick
  PROVE  Store!Tick
<1> USE DEF IInv
<1> DEFINE S == {s \in Sids : Live'[s] = Null}
<1>1. /\ now' = now + 1 /\ req' = req /\ issued' = issued /\ birth' = birth
      /\ lapsed \subseteq lapsed'
      /\ \A s \in Sids : session'[s] \in {session[s], Null}
  BY DEF SeqTick, Tick
<1>2. \A s \in Sids : Live'[s] \in {Live[s], Null}
  <2>1. CASE Requests = {}
    BY <1>1, <2>1 DEF Live, Copies
  <2>2. CASE Requests # {}
    <3>1. PICK r \in Requests : TRUE
      BY <2>2
    <3> DEFINE q == req[r]
    <3>2. ReqOK(q, birth) /\ Known(q) /\ \A x \in Requests : req[x] = q /\ req'[x] = q
      BY <1>1, OneAtATime DEF RequestsOK, SeqInv
    <3> HIDE DEF q
    <3>3. Live = LiveOf(session, q) /\ Live' = LiveOf(session', q)
      BY <3>2, LiveNow, LiveNext
    <3>4. QED
      BY <1>1, <3>2, <3>3 DEF Known, LiveOf
  <2>3. QED
    BY <2>1, <2>2
<1>3. \A s \in Sids : Live'[s] = IF s \in S THEN Null ELSE Live[s]
  BY <1>2
<1>4. S \in SUBSET Sids
  OBVIOUS
<1> HIDE DEF S
<1>5. Live' = Store!Without(S)
  BY <1>3 DEF Live, Store!Without
<1>6. {s \in Sids : Live'[s] # Null /\ Held(s)'} \ lapsed'
        \subseteq ({s \in Sids : Live[s] # Null /\ Held(s)} \ lapsed) \ S
  BY <1>1, <1>3 DEF Held
<1>7. QED
  BY <1>1, <1>4, <1>5, <1>6 DEF Store!Tick

\* One request at a time, login, refresh, logout, logout-all and revoke are
\* steps on sessions, at whichever command a request is cut off and whatever
\* key runs out between two of them.
THEOREM ImplementsStore == SeqSpec => KeepsStore
<1>1. SeqInit => Store!SInit
  <2> SUFFICES ASSUME SeqInit PROVE Store!SInit
    OBVIOUS
  <2>1. \A s \in Sids : Copies(s) = {} /\ session[s] = Null /\ birth[s] = Null
    BY DEF SeqInit, Init, Idle, Copies
  <2>2. Live = [s \in Sids |-> Null]
    BY <2>1 DEF Live
  <2>3. QED
    BY <2>1, <2>2 DEF SeqInit, Init, Store!SInit
<1>2. IInv /\ SeqInv /\ [SeqNext]_seqVars => [Store!SNext]_(Store!svars)
  <2> SUFFICES ASSUME IInv, SeqInv, [SeqNext]_seqVars PROVE [Store!SNext]_(Store!svars)
    OBVIOUS
  <2>1. CASE UNCHANGED seqVars
    BY <2>1 DEF seqVars, Store!svars, Live, Copies, Held
  <2>2. CASE SeqTick
    BY <2>2, TickEnds DEF Store!SNext
  <2>3. CASE SeqStep
    <3>1. PICK r \in Requests : Arrive(r) \/ Step(r) \/ Abort(r)
      BY <2>3 DEF SeqStep
    <3>2. lapsed' = lapsed
      BY <2>3 DEF SeqStep
    <3>3. CASE Arrive(r)
      BY <3>2, <3>3, LoginOpens, RefreshQuiet, AuthenticateQuiet DEF Arrive, Store!SNext
    <3>4. CASE Step(r)
      <4>1. CASE \/ LoginSadd(r) \/ TouchIndex(r) \/ RevokeGet(r)
                 \/ Srem(r) \/ Smembers(r) \/ DelIndex(r)
        BY <3>2, <4>1, OtherQuiet
      <4>2. CASE LoginExpire(r) \/ RefreshRotate(r) \/ Touch(r)
        BY <3>2, <4>2, LoginExpireLists, RotateRotates, TouchQuiet DEF Store!SNext
      <4>3. CASE Del(r) \/ DelAll(r)
        BY <3>2, <4>3, DelEnds, DelAllEnds DEF Store!SNext
      <4>4. QED
        BY <3>4, <4>1, <4>2, <4>3 DEF Step
    <3>5. CASE Abort(r)
      BY <3>2, <3>5, AbortEnds DEF Store!SNext
    <3>6. QED
      BY <3>1, <3>3, <3>4, <3>5
  <2>4. QED
    BY <2>1, <2>2, <2>3 DEF SeqNext
<1>3. QED
  BY <1>1, <1>2, SequentialInvariant, PTL DEF SeqSpec, KeepsStore, Store!StoreSpec
=============================================================================
