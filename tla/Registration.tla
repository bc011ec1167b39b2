---------------------------- MODULE Registration ----------------------------
(***************************************************************************)
(* user-service: registration by a one-time password.  sendOtp counts the  *)
(* email's requests, stores the OTP and the pending registration under a   *)
(* fresh session id, publishes the event that mails the OTP and answers    *)
(* with the id in a cookie; verifyAndRegister counts the attempts,         *)
(* compares, and creates the user from the pending registration.           *)
(*                                                                         *)
(* Several requests interleave at their Redis, Kafka and Postgres calls;   *)
(* each call is one action.  An OTP typed is right or wrong.               *)
(***************************************************************************)
EXTENDS Integers, FiniteSets

CONSTANTS
  Emails,
  Sids,        \* the session ids randomUUID will give out
  Requests,    \* slots for requests in flight
  Null,
  RateMax,     \* RATE_LIMIT_MAX
  RateWindow,  \* RATE_LIMIT_WINDOW, in ticks
  AttemptMax,  \* OTP_ATTEMPT_LIMIT
  OtpTTL,      \* OTP_TTL, in ticks
  MaxTime      \* bound of the model's clock

ASSUME LimitAssumption ==
  /\ RateMax \in Nat \ {0} /\ RateWindow \in Nat \ {0}
  /\ AttemptMax \in Nat \ {0} /\ OtpTTL \in Nat \ {0} /\ MaxTime \in Nat

ASSUME NullAssumption ==
  /\ Null \notin Emails /\ Null \notin Sids /\ Null \notin Nat
  /\ Null \notin [email: Emails, at: Nat] /\ Null \notin [email: Emails, expires: Nat]

VARIABLES
  now,
  rate,       \* rate[e]: auth:otp_rate:<e>
  otp,        \* otp[s]: when the hash under auth:otp:<s> expires, or Null
  reg,        \* reg[s]: the pending registration, or Null
  attempts,   \* attempts[s]: auth:otp_attempts:<s>
  user,       \* user[e]: the session the row of e was created from, or Null
  req,        \* req[r]: the request in slot r
  started,    \* history: the email and the time sendOtp was let through for s
  published,  \* history: sessions whose OTPRequestedV1 is in Kafka
  told,       \* sessions some client has in its cookie
  matched,    \* history: sessions whose OTP was typed right
  wrong       \* history: wrong[s] OTPs compared for s

store == <<rate, otp, reg, attempts, user>>
history == <<started, published, told, matched, wrong>>
vars == <<now, store, req, history>>

Idle == [pc |-> "idle", email |-> Null, sid |-> Null, right |-> FALSE]

\* An absent counter; expires is Null as well in a key without a TTL.
NoCount == [count |-> 0, expires |-> Null]

\* INCR starts a new key without a TTL.  Counts are only compared with 1 and
\* with the limit: they stop growing past it.
Incr(k, limit) ==
  IF k.count > limit THEN k ELSE [k EXCEPT !.count = @ + 1]

\* EXPIRE does nothing to an absent key.
Expire(k, ttl) == IF k.count = 0 THEN k ELSE [k EXCEPT !.expires = now + ttl]

Goto(r, l) == req' = [req EXCEPT ![r].pc = l]

Finish(r) == req' = [req EXCEPT ![r] = Idle]

-----------------------------------------------------------------------------
(* sendOtp                                                                 *)

\* No user has the email yet.
SendOtp(r, e) ==
  /\ req[r].pc = "idle"
  /\ user[e] = Null
  /\ req' = [req EXCEPT ![r] = [Idle EXCEPT !.pc = "countSend", !.email = e]]
  /\ UNCHANGED <<now, store, history>>

\* Slip: the count is compared one request late.
OverLimitLate(n) == n > RateMax + 1

OverLimit(n) == n > RateMax

FirstOfWindow(n) == n = 1

\* storeOtp: INCR, and unless the count is over the limit a session id.
CountSend(r) ==
  /\ req[r].pc = "countSend"
  /\ LET e == req[r].email
         k == Incr(rate[e], RateMax) IN
     /\ rate' = [rate EXCEPT ![e] = k]
     /\ \/ /\ OverLimit(k.count)
           /\ Finish(r)
           /\ UNCHANGED started
        \/ /\ ~ OverLimit(k.count)
           /\ \E s \in {x \in Sids : started[x] = Null} :
                /\ started' = [started EXCEPT ![s] = [email |-> e, at |-> now]]
                /\ req' = [req EXCEPT ![r].sid = s, ![r].pc =
                             IF FirstOfWindow(k.count) THEN "startWindow" ELSE "setOtp"]
  /\ UNCHANGED <<now, otp, reg, attempts, user, published, told, matched, wrong>>

StartWindow(r) ==
  /\ req[r].pc = "startWindow"
  /\ rate' = [rate EXCEPT ![req[r].email] = Expire(@, RateWindow)]
  /\ Goto(r, "setOtp")
  /\ UNCHANGED <<now, otp, reg, attempts, user, history>>

SetOtp(r) ==
  /\ req[r].pc = "setOtp"
  /\ otp' = [otp EXCEPT ![req[r].sid] = now + OtpTTL]
  /\ Goto(r, "setReg")
  /\ UNCHANGED <<now, rate, reg, attempts, user, history>>

SetReg(r) ==
  /\ req[r].pc = "setReg"
  /\ reg' = [reg EXCEPT ![req[r].sid] = [email |-> req[r].email, expires |-> now + OtpTTL]]
  /\ Goto(r, "publish")
  /\ UNCHANGED <<now, rate, otp, attempts, user, history>>

\* The event is acknowledged: the client gets the session id.
Publish(r) ==
  /\ req[r].pc = "publish"
  /\ published' = published \cup {req[r].sid}
  /\ told' = told \cup {req[r].sid}
  /\ Finish(r)
  /\ UNCHANGED <<now, store, started, matched, wrong>>

\* producer.send rejects; the event may be in the log all the same.
PublishFails(r) ==
  /\ req[r].pc = "publish"
  /\ \E p \in SUBSET {req[r].sid} : published' = published \cup p
  /\ Goto(r, "delete")
  /\ UNCHANGED <<now, store, started, told, matched, wrong>>

\* Slip: the OTP is left behind.
DeleteRegOnly(r) ==
  /\ req[r].pc = "delete"
  /\ reg' = [reg EXCEPT ![req[r].sid] = Null]
  /\ Finish(r)
  /\ UNCHANGED <<now, rate, otp, attempts, user, history>>

\* deleteRegistrationSession: the rollback of sendOtp, and what ends a
\* registration, where a failure is only logged.
Delete(r) ==
  /\ req[r].pc = "delete"
  /\ otp' = [otp EXCEPT ![req[r].sid] = Null]
  /\ reg' = [reg EXCEPT ![req[r].sid] = Null]
  /\ Finish(r)
  /\ UNCHANGED <<now, rate, attempts, user, history>>

-----------------------------------------------------------------------------
(* verifyAndRegister                                                       *)

\* The cookie names a session whose OTP is there.
VerifyOtp(r, s, right) ==
  /\ req[r].pc = "idle"
  /\ s \in told /\ otp[s] # Null
  /\ req' = [req EXCEPT ![r] = [Idle EXCEPT !.pc = "countAttempt", !.sid = s, !.right = right]]
  /\ UNCHANGED <<now, store, history>>

\* bcrypt.compare with the hash that was read.  wrong stops past the limit.
Compare(r) ==
  IF req[r].right
  THEN /\ matched' = matched \cup {req[r].sid} /\ Goto(r, "clear")
       /\ UNCHANGED wrong
  ELSE /\ wrong' = [wrong EXCEPT ![req[r].sid] = IF @ > AttemptMax THEN @ ELSE @ + 1]
       /\ Finish(r)
       /\ UNCHANGED matched

\* Slip: the attempts are compared one late.
TooManyLate(n) == n > AttemptMax + 1

TooMany(n) == n > AttemptMax

CountAttempt(r) ==
  /\ req[r].pc = "countAttempt"
  /\ LET s == req[r].sid
         k == Incr(attempts[s], AttemptMax) IN
     /\ attempts' = [attempts EXCEPT ![s] = k]
     /\ \/ k.count = 1 /\ Goto(r, "startAttempts") /\ UNCHANGED <<matched, wrong>>
        \/ TooMany(k.count) /\ Goto(r, "lock") /\ UNCHANGED <<matched, wrong>>
        \/ k.count # 1 /\ ~ TooMany(k.count) /\ Compare(r)
  /\ UNCHANGED <<now, rate, otp, reg, user, started, published, told>>

StartAttempts(r) ==
  /\ req[r].pc = "startAttempts"
  /\ attempts' = [attempts EXCEPT ![req[r].sid] = Expire(@, OtpTTL)]
  /\ Compare(r)
  /\ UNCHANGED <<now, rate, otp, reg, user, started, published, told>>

Lock(r) ==
  /\ req[r].pc = "lock"
  /\ otp' = [otp EXCEPT ![req[r].sid] = Null]
  /\ Finish(r)
  /\ UNCHANGED <<now, rate, reg, attempts, user, history>>

Clear(r) ==
  /\ req[r].pc = "clear"
  /\ attempts' = [attempts EXCEPT ![req[r].sid] = NoCount]
  /\ Goto(r, "getReg")
  /\ UNCHANGED <<now, rate, otp, reg, user, history>>

\* getRegistrationSession: absent, 404.
GetReg(r) ==
  /\ req[r].pc = "getReg"
  /\ LET d == reg[req[r].sid] IN
     IF d = Null THEN Finish(r)
     ELSE req' = [req EXCEPT ![r].pc = "create", ![r].email = d.email]
  /\ UNCHANGED <<now, store, history>>

\* Slip: upsert where create is meant.
NeverTaken(e) == FALSE

\* createUser: the email is unique, the second INSERT fails with 409.
EmailTaken(e) == user[e] # Null

Create(r) ==
  /\ req[r].pc = "create"
  /\ IF EmailTaken(req[r].email)
     THEN Finish(r) /\ UNCHANGED user
     ELSE Goto(r, "delete") /\ user' = [user EXCEPT ![req[r].email] = req[r].sid]
  /\ UNCHANGED <<now, rate, otp, reg, attempts, history>>

-----------------------------------------------------------------------------
\* A call fails or the process dies: the request ends where it is.
Abort(r) ==
  /\ req[r].pc # "idle"
  /\ Finish(r)
  /\ UNCHANGED <<now, store, history>>

\* The connection is lost after Redis has carried out the command a request
\* waits for: ioredis sends it again, and the handler sees the second answer.
\* INCR counts once too often; the others do once more what they do.
ReplyLost(r) ==
  /\ LET e == req[r].email
         s == req[r].sid IN
     \/ /\ req[r].pc = "countSend"
        /\ rate' = [rate EXCEPT ![e] = Incr(@, RateMax)]
        /\ UNCHANGED <<otp, reg, attempts>>
     \/ /\ req[r].pc = "startWindow"
        /\ rate' = [rate EXCEPT ![e] = Expire(@, RateWindow)]
        /\ UNCHANGED <<otp, reg, attempts>>
     \/ /\ req[r].pc = "setOtp"
        /\ otp' = [otp EXCEPT ![s] = now + OtpTTL]
        /\ UNCHANGED <<rate, reg, attempts>>
     \/ /\ req[r].pc = "setReg"
        /\ reg' = [reg EXCEPT ![s] = [email |-> e, expires |-> now + OtpTTL]]
        /\ UNCHANGED <<rate, otp, attempts>>
     \/ /\ req[r].pc \in {"delete", "lock"}
        /\ otp' = [otp EXCEPT ![s] = Null]
        /\ reg' = IF req[r].pc = "delete" THEN [reg EXCEPT ![s] = Null] ELSE reg
        /\ UNCHANGED <<rate, attempts>>
     \/ /\ req[r].pc = "countAttempt"
        /\ attempts' = [attempts EXCEPT ![s] = Incr(@, AttemptMax)]
        /\ UNCHANGED <<rate, otp, reg>>
     \/ /\ req[r].pc = "startAttempts"
        /\ attempts' = [attempts EXCEPT ![s] = Expire(@, OtpTTL)]
        /\ UNCHANGED <<rate, otp, reg>>
     \/ /\ req[r].pc = "clear"
        /\ attempts' = [attempts EXCEPT ![s] = NoCount]
        /\ UNCHANGED <<rate, otp, reg>>
  /\ UNCHANGED <<now, user, req, history>>

RunOut(k) == k.expires # Null /\ k.expires <= now + 1

\* Time passes and Redis drops the keys whose TTL has run out.
Tick ==
  /\ now < MaxTime
  /\ now' = now + 1
  /\ rate' = [e \in Emails |-> IF RunOut(rate[e]) THEN NoCount ELSE rate[e]]
  /\ attempts' = [s \in Sids |-> IF RunOut(attempts[s]) THEN NoCount ELSE attempts[s]]
  /\ otp' = [s \in Sids |-> IF otp[s] = now + 1 THEN Null ELSE otp[s]]
  /\ reg' = [s \in Sids |-> IF reg[s] # Null /\ reg[s].expires = now + 1 THEN Null ELSE reg[s]]
  /\ UNCHANGED <<user, req, history>>

Init ==
  /\ now = 0
  /\ rate = [e \in Emails |-> NoCount] /\ attempts = [s \in Sids |-> NoCount]
  /\ otp = [s \in Sids |-> Null] /\ reg = [s \in Sids |-> Null]
  /\ user = [e \in Emails |-> Null]
  /\ req = [r \in Requests |-> Idle]
  /\ started = [s \in Sids |-> Null] /\ wrong = [s \in Sids |-> 0]
  /\ published = {} /\ told = {} /\ matched = {}

Arrive(r) ==
  \/ \E e \in Emails : SendOtp(r, e)
  \/ \E s \in told, right \in BOOLEAN : VerifyOtp(r, s, right)

Step(r) ==
  \/ CountSend(r) \/ StartWindow(r) \/ SetOtp(r) \/ SetReg(r)
  \/ Publish(r) \/ PublishFails(r) \/ Delete(r)
  \/ CountAttempt(r) \/ StartAttempts(r) \/ Lock(r) \/ Clear(r) \/ GetReg(r) \/ Create(r)

Next ==
  \/ \E r \in Requests : Arrive(r) \/ Step(r) \/ ReplyLost(r) \/ Abort(r)
  \/ Tick

Spec == Init /\ [][Next]_vars

-----------------------------------------------------------------------------
(* Properties                                                              *)

Pcs == {"idle", "countSend", "startWindow", "setOtp", "setReg", "publish", "delete",
        "countAttempt", "startAttempts", "lock", "clear", "getReg", "create"}

Counter(limit) == [count: 0..(limit + 1), expires: Nat \cup {Null}]

\* The keys, the rows and the requests have the shapes the handlers use.
TypeOK ==
  /\ now \in 0..MaxTime
  /\ rate \in [Emails -> Counter(RateMax)] /\ attempts \in [Sids -> Counter(AttemptMax)]
  /\ otp \in [Sids -> Nat \cup {Null}]
  /\ reg \in [Sids -> [email: Emails, expires: Nat] \cup {Null}]
  /\ user \in [Emails -> Sids \cup {Null}]
  /\ req \in [Requests -> [pc: Pcs, email: Emails \cup {Null}, sid: Sids \cup {Null},
                           right: BOOLEAN]]
  /\ \A r \in Requests : req[r].pc = "create" => req[r].email \in Emails
  /\ started \in [Sids -> [email: Emails, at: Nat] \cup {Null}]
  /\ published \subseteq Sids /\ told \subseteq Sids /\ matched \subseteq Sids
  /\ wrong \in [Sids -> 0..(AttemptMax + 1)]

\* A user is only created with the data of the session whose own OTP was typed
\* right, and a row once created is not replaced by a second registration of
\* the email (README: no path "creates a User row without an OTP match").
UserMatchedOtp ==
  [][\A e \in Emails : user'[e] # user[e] =>
       /\ user[e] = Null
       /\ user'[e] \in matched /\ started[user'[e]].email = e]_vars

\* As long as an OTP can be read and nobody has typed it, at most
\* OTP_ATTEMPT_LIMIT wrong ones were compared with it, by requests in parallel
\* or one by one, however counters and OTPs expire.
AttemptsBounded ==
  \A s \in Sids : otp[s] # Null /\ s \notin matched => wrong[s] <= AttemptMax

\* A client that was told its OTP is on the way finds its registration as long
\* as the OTP itself is accepted.
RegistrationOutlivesOtp ==
  \A s \in told : otp[s] # Null => reg[s] # Null

\* Nobody is told that an OTP is on the way if the event is not in Kafka
\* (README: "The user is never told OTP sent if the event was not published").
ToldIsPublished == told \subseteq published

\* What the README says of auth:otp_rate: its TTL is 1 h.  An email over the
\* limit gets out of it, unless a request for it is still at work.
LimitEnds ==
  \A e \in Emails : OverLimit(rate[e].count) =>
    rate[e].expires # Null \/ \E r \in Requests : req[r].email = e

\* The requests for email e that were let through in the last RateWindow.
Recent(e) ==
  {s \in Sids : started[s] # Null /\ started[s].email = e /\ now - started[s].at < RateWindow}

\* What the fixed windows guarantee over any RateWindow, however late EXPIRE
\* comes after INCR: less than twice the limit, since a window that starts
\* inside it leaves out the first request of the one before.
SendsBounded == \A e \in Emails : Cardinality(Recent(e)) < 2 * RateMax

\* What the README says: 5 requests per email in a sliding window of 1 h.
SlidingWindow == \A e \in Emails : Cardinality(Recent(e)) <= RateMax
=============================================================================
