------------------------ MODULE Registration_proofs ------------------------
(***************************************************************************)
(* What Registration guarantees for any number of emails, sessions and     *)
(* requests, any limits and any TTL.                                       *)
(*                                                                         *)
(* The argument has two halves.  While a session is being sent (Sending)   *)
(* one request owns it: nobody else writes its OTP or its registration,    *)
(* and nobody can try it before the client is told.  Once told, the OTP is *)
(* never written again, so it can only run out, and the counter of its     *)
(* attempts, started later with the same TTL, does not run out before it:  *)
(* every comparison with a live OTP is in the count (Counted).             *)
(***************************************************************************)
EXTENDS Registration, TLAPS, FiniteSetTheorems

Sending == {"startWindow", "setOtp", "setReg", "publish"}
Trying == {"countAttempt", "startAttempts"}

Request == [pc: Pcs, email: Emails \cup {Null}, sid: Sids \cup {Null}, right: BOOLEAN]

\* What a request has in hand at each point.
Fits(q) ==
  /\ q.pc \in {"countSend", "create"} \cup Sending => q.email \in Emails
  /\ q.pc \in Sending \cup Trying \cup {"lock", "clear", "getReg", "create", "delete"} =>
       q.sid \in Sids

Types == TypeOK /\ \A r \in Requests : Fits(req[r])

\* Ids are given out before they are used, and email and session belong together.
Begun ==
  /\ \A r \in Requests : req[r].sid \in Sids => started[req[r].sid] # Null
  /\ \A s \in told : started[s] # Null
  /\ \A r \in Requests : req[r].pc \in Sending \cup {"create"} =>
       started[req[r].sid].email = req[r].email
  /\ \A s \in Sids : reg[s] # Null => started[s] # Null /\ reg[s].email = started[s].email
  /\ \A r \in Requests : req[r].pc \in {"clear", "getReg", "create"} => req[r].sid \in matched

\* One request sends a session, before anybody can try it.
Owned ==
  /\ \A r \in Requests : req[r].pc \in Sending => req[r].sid \notin told
  /\ \A r, q \in Requests :
       req[r].pc \in Sending /\ req[q].pc \in Sending /\ req[r].sid = req[q].sid => r = q
  /\ \A r \in Requests : req[r].pc \in Trying => req[r].sid \in told
  /\ \A s \in Sids \ told : attempts[s] = NoCount /\ wrong[s] = 0

\* The session is complete: told, or about to be.
Complete(s) ==
  s \in told \/ \E r \in Requests : req[r].pc = "publish" /\ req[r].sid = s

\* An OTP has at most OTP_TTL to live, its registration no less than the OTP.
Lives ==
  \A s \in Sids : otp[s] # Null =>
    /\ now < otp[s] /\ otp[s] <= now + OtpTTL
    /\ Complete(s) => reg[s] # Null /\ reg[s].expires >= otp[s]

\* Every comparison with an OTP that is still there, made or about to be made,
\* is counted, and the count stays as long as the OTP.
Counted ==
  \A s \in Sids : otp[s] # Null /\ s \notin matched =>
    /\ wrong[s] <= AttemptMax /\ wrong[s] <= attempts[s].count
    /\ \A r \in Requests : req[r].pc = "startAttempts" /\ req[r].sid = s =>
         /\ wrong[s] + 1 <= attempts[s].count /\ wrong[s] + 1 <= AttemptMax
         /\ \A q \in Requests : req[q].pc = "startAttempts" /\ req[q].sid = s => q = r
    /\ attempts[s].expires # Null => attempts[s].expires >= otp[s]

\* The requests let through for an email, and those of them that are less than
\* a window old when its counter runs out.
Sent(e) == {s \in Sids : started[s] # Null /\ started[s].email = e}
Late(e) == {s \in Sent(e) : started[s].at > rate[e].expires - RateWindow}

\* The part of a counter's value that stands for requests let through.
Allowed(k) == IF k.count > RateMax THEN RateMax ELSE k.count

\* A window of time meets at most two periods of a counter: the requests the
\* present one allowed, and of the one before those that came after its first,
\* because the TTL was set no earlier than the first was let through.
Paced(e) ==
  /\ IsFiniteSet(Sent(e)) /\ \A s \in Sent(e) : started[s].at <= now
  /\ Cardinality(Recent(e)) <= RateMax - 1 + Allowed(rate[e])
  /\ rate[e].expires # Null =>
       /\ now < rate[e].expires
       /\ Cardinality(Late(e)) <= Allowed(rate[e]) - 1

IInv == Types /\ Begun /\ Owned /\ Lives /\ Counted

-----------------------------------------------------------------------------
(* Initially and in general                                                *)

\* Nothing has happened yet.
LEMMA InitIInv == Init => IInv
BY LimitAssumption, NullAssumption
DEF Init, IInv, Types, TypeOK, Fits, Begun, Owned, Complete, Lives, Counted,
    Counter, NoCount, Idle, Pcs, Sending, Trying

\* A handler's step changes its own request and not the clock.
LEMMA OwnStep ==
  ASSUME Types, NEW r \in Requests, Arrive(r) \/ Step(r) \/ Abort(r)
  PROVE  now' = now /\ \A q \in Requests \ {r} : req'[q] = req[q]
<1>1. req \in [Requests -> Request]
  BY DEF Types, TypeOK, Request
<1>2. CASE Arrive(r) \/ Abort(r)
  BY <1>1, <1>2 DEF Arrive, SendOtp, VerifyOtp, Abort, Finish
<1>3. CASE CountSend(r) \/ StartWindow(r) \/ SetOtp(r) \/ SetReg(r) \/ Publish(r)
           \/ PublishFails(r) \/ Delete(r)
  BY <1>1, <1>3
  DEF CountSend, StartWindow, SetOtp, SetReg, Publish, PublishFails, Delete, Goto, Finish
<1>4. CASE CountAttempt(r) \/ StartAttempts(r) \/ Lock(r) \/ Clear(r) \/ GetReg(r) \/ Create(r)
  BY <1>1, <1>4
  DEF CountAttempt, StartAttempts, Compare, Lock, Clear, GetReg, Create, Goto, Finish
<1>5. QED
  BY <1>2, <1>3, <1>4 DEF Step

-----------------------------------------------------------------------------
(* Types                                                                   *)

\* A request that goes to a value of its type that fits keeps the requests' part
\* of Types.
LEMMA RequestTypes ==
  ASSUME Types, NEW r \in Requests, NEW q \in Request, Fits(q),
         req' = [req EXCEPT ![r] = q]
  PROVE  /\ req' \in [Requests -> Request]
         /\ \A x \in Requests : Fits(req'[x])
         /\ \A x \in Requests : req'[x].pc = "create" => req'[x].email \in Emails
BY DEF Types, TypeOK, Request, Fits

\* So do the ways a handler goes on.
LEMMA GotoTypes ==
  ASSUME Types, NEW r \in Requests, NEW l \in Pcs, Goto(r, l), Fits([req[r] EXCEPT !.pc = l])
  PROVE  /\ req' \in [Requests -> Request]
         /\ \A x \in Requests : Fits(req'[x])
         /\ \A x \in Requests : req'[x].pc = "create" => req'[x].email \in Emails
<1>1. PICK q \in Request : q = [req[r] EXCEPT !.pc = l]
  BY DEF Types, TypeOK, Request
<1>2. req' = [req EXCEPT ![r] = q]
  BY <1>1 DEF Goto, Types, TypeOK
<1>3. QED
  BY <1>1, <1>2, RequestTypes

\* So does its end.
LEMMA FinishTypes ==
  ASSUME Types, NEW r \in Requests, Finish(r)
  PROVE  /\ req' \in [Requests -> Request]
         /\ \A x \in Requests : Fits(req'[x])
         /\ \A x \in Requests : req'[x].pc = "create" => req'[x].email \in Emails
<1>1. PICK q \in Request : q = Idle
  BY DEF Request, Idle, Pcs
<1>2. Fits(q)
  BY <1>1 DEF Fits, Idle, Sending, Trying
<1>3. QED
  BY <1>1, <1>2, RequestTypes DEF Finish

\* INCR and EXPIRE keep a counter's type.
LEMMA CounterTypes ==
  ASSUME NEW limit \in Nat, NEW k \in Counter(limit), NEW ttl \in Nat, now \in Nat
  PROVE  Incr(k, limit) \in Counter(limit) /\ Expire(k, ttl) \in Counter(limit)
BY DEF Counter, Incr, Expire

\* A comparison keeps the types of what it touches.
LEMMA CompareTypes ==
  ASSUME Types, NEW r \in Requests, req[r].pc \in Trying, Compare(r)
  PROVE  /\ req' \in [Requests -> Request]
         /\ \A x \in Requests : Fits(req'[x])
         /\ \A x \in Requests : req'[x].pc = "create" => req'[x].email \in Emails
         /\ matched' \subseteq Sids /\ wrong' \in [Sids -> 0..(AttemptMax + 1)]
<1>1. req[r].sid \in Sids
  BY DEF Types, Fits
<1>2. Finish(r) \/ Goto(r, "clear")
  BY DEF Compare
<1>3. Fits([req[r] EXCEPT !.pc = "clear"])
  BY <1>1 DEF Types, TypeOK, Fits, Sending, Trying
<1>4. matched' \subseteq Sids
  BY <1>1 DEF Compare, Types, TypeOK
<1>5. wrong' \in [Sids -> 0..(AttemptMax + 1)]
  BY <1>1, LimitAssumption DEF Compare, Types, TypeOK
<1>6. QED
  BY <1>2, <1>3, <1>4, <1>5, GotoTypes, FinishTypes DEF Pcs

\* A step of sendOtp keeps the types.
LEMMA SendTypes ==
  ASSUME Types, NEW r \in Requests,
         (\E e \in Emails : SendOtp(r, e)) \/ CountSend(r) \/ StartWindow(r) \/ SetOtp(r)
         \/ SetReg(r) \/ Publish(r) \/ PublishFails(r) \/ Delete(r)
  PROVE  Types'
<1> DEFINE Fine == /\ req' \in [Requests -> Request]
                   /\ \A x \in Requests : Fits(req'[x])
                   /\ \A x \in Requests : req'[x].pc = "create" => req'[x].email \in Emails
<1>1. now \in Nat /\ req[r] \in Request /\ Fits(req[r])
  BY LimitAssumption DEF Types, TypeOK, Request
<1>2. CASE \E e \in Emails : SendOtp(r, e)
  <2>1. PICK e \in Emails : SendOtp(r, e)
    BY <1>2
  <2>2. PICK q \in Request : q = [Idle EXCEPT !.pc = "countSend", !.email = e]
    BY DEF Request, Idle, Pcs
  <2>3. Fits(q)
    BY <2>2 DEF Fits, Idle, Sending, Trying
  <2>4. Fine
    BY <2>1, <2>2, <2>3, RequestTypes DEF SendOtp
  <2>5. QED
    BY <2>1, <2>4 DEF SendOtp, store, history, Types, TypeOK, Request
<1>3. CASE CountSend(r)
  <2>1. req[r].email \in Emails
    BY <1>1, <1>3 DEF CountSend, Fits
  <2>2. rate' \in [Emails -> Counter(RateMax)]
    BY <1>1, <1>3, <2>1, CounterTypes, LimitAssumption DEF CountSend, Types, TypeOK
  <2>3. Fine /\ started' \in [Sids -> [email: Emails, at: Nat] \cup {Null}]
    <3>1. CASE Finish(r) /\ UNCHANGED started
      BY <3>1, FinishTypes DEF Types, TypeOK
    <3>2. CASE ~ (Finish(r) /\ UNCHANGED started)
      <4>1. PICK s \in Sids, l \in {"startWindow", "setOtp"} :
              /\ started' = [started EXCEPT ![s] = [email |-> req[r].email, at |-> now]]
              /\ req' = [req EXCEPT ![r].sid = s, ![r].pc = l]
        BY <1>3, <3>2 DEF CountSend
      <4>2. PICK q \in Request : q = [req[r] EXCEPT !.sid = s, !.pc = l]
        BY <1>1 DEF Request, Pcs
      <4>3. Fits(q) /\ req' = [req EXCEPT ![r] = q]
        BY <1>1, <2>1, <4>1, <4>2 DEF Fits, Request, Sending, Trying, Types, TypeOK
      <4>4. Fine
        BY <4>3, RequestTypes
      <4>5. QED
        BY <1>1, <2>1, <4>1, <4>4 DEF Types, TypeOK
    <3>3. QED
      BY <3>1, <3>2
  <2>4. QED
    BY <1>3, <2>2, <2>3 DEF CountSend, Types, TypeOK, Request
<1>4. CASE StartWindow(r)
  <2>1. req[r].email \in Emails /\ Fits([req[r] EXCEPT !.pc = "setOtp"])
    BY <1>1, <1>4 DEF StartWindow, Fits, Request, Sending, Trying
  <2>2. rate' \in [Emails -> Counter(RateMax)]
    BY <1>1, <1>4, <2>1, CounterTypes, LimitAssumption DEF StartWindow, Types, TypeOK
  <2>3. Fine
    BY <1>4, <2>1, GotoTypes DEF StartWindow, Pcs
  <2>4. QED
    BY <1>4, <2>2, <2>3 DEF StartWindow, history, Types, TypeOK, Request
<1>5. CASE SetOtp(r)
  <2>1. req[r].sid \in Sids /\ Fits([req[r] EXCEPT !.pc = "setReg"])
    BY <1>1, <1>5 DEF SetOtp, Fits, Request, Sending, Trying
  <2>2. otp' \in [Sids -> Nat \cup {Null}]
    <3>1. now + OtpTTL \in Nat
      BY <1>1, LimitAssumption
    <3>2. otp \in [Sids -> Nat \cup {Null}] /\ otp' = [otp EXCEPT ![req[r].sid] = now + OtpTTL]
      BY <1>5 DEF SetOtp, Types, TypeOK
    <3>3. QED
      BY <3>1, <3>2
  <2>3. Fine
    BY <1>5, <2>1, GotoTypes DEF SetOtp, Pcs
  <2>4. QED
    BY <1>5, <2>2, <2>3 DEF SetOtp, history, Types, TypeOK, Request
<1>6. CASE SetReg(r)
  <2>1. req[r].email \in Emails /\ Fits([req[r] EXCEPT !.pc = "publish"])
    BY <1>1, <1>6 DEF SetReg, Fits, Request, Sending, Trying
  <2>2. reg' \in [Sids -> [email: Emails, expires: Nat] \cup {Null}]
    <3>1. PICK d \in [email: Emails, expires: Nat] :
            d = [email |-> req[r].email, expires |-> now + OtpTTL]
      <4>1. now + OtpTTL \in Nat
        BY <1>1, LimitAssumption
      <4>2. QED
        BY <2>1, <4>1
    <3>2. reg' = [reg EXCEPT ![req[r].sid] = d]
      BY <1>6, <3>1 DEF SetReg
    <3>3. reg \in [Sids -> [email: Emails, expires: Nat] \cup {Null}]
      BY DEF Types, TypeOK
    <3>4. QED
      BY <3>1, <3>2, <3>3
  <2>3. Fine
    BY <1>6, <2>1, GotoTypes DEF SetReg, Pcs
  <2>4. QED
    BY <1>6, <2>2, <2>3 DEF SetReg, history, Types, TypeOK, Request
<1>7. CASE Publish(r)
  <2>1. req[r].sid \in Sids
    BY <1>1, <1>7 DEF Publish, Fits, Sending
  <2>2. Fine
    BY <1>7, FinishTypes DEF Publish
  <2>3. QED
    BY <1>7, <2>1, <2>2 DEF Publish, store, Types, TypeOK, Request
<1>8. CASE PublishFails(r)
  <2>1. req[r].sid \in Sids /\ Fits([req[r] EXCEPT !.pc = "delete"])
    BY <1>1, <1>8 DEF PublishFails, Fits, Request, Sending, Trying
  <2>2. Fine
    BY <1>8, <2>1, GotoTypes DEF PublishFails, Pcs
  <2>3. QED
    BY <1>8, <2>1, <2>2 DEF PublishFails, store, Types, TypeOK, Request
<1>9. CASE Delete(r)
  <2>1. Fine
    BY <1>9, FinishTypes DEF Delete
  <2>2. QED
    BY <1>9, <2>1 DEF Delete, history, Types, TypeOK, Request
<1>10. QED
  BY <1>2, <1>3, <1>4, <1>5, <1>6, <1>7, <1>8, <1>9

\* A step of verifyAndRegister, or its failure, keeps the types.
LEMMA VerifyTypes ==
  ASSUME Types, NEW r \in Requests,
         (\E s \in told, right \in BOOLEAN : VerifyOtp(r, s, right)) \/ CountAttempt(r)
         \/ StartAttempts(r) \/ Lock(r) \/ Clear(r) \/ GetReg(r) \/ Create(r) \/ Abort(r)
  PROVE  Types'
<1> DEFINE Fine == /\ req' \in [Requests -> Request]
                   /\ \A x \in Requests : Fits(req'[x])
                   /\ \A x \in Requests : req'[x].pc = "create" => req'[x].email \in Emails
<1>1. now \in Nat /\ req[r] \in Request /\ Fits(req[r])
  BY LimitAssumption DEF Types, TypeOK, Request
<1>2. CASE \E s \in told, right \in BOOLEAN : VerifyOtp(r, s, right)
  <2>1. PICK s \in told, right \in BOOLEAN : VerifyOtp(r, s, right)
    BY <1>2
  <2>2. PICK q \in Request :
          q = [Idle EXCEPT !.pc = "countAttempt", !.sid = s, !.right = right]
    BY DEF Request, Idle, Pcs, Types, TypeOK
  <2>3. Fits(q)
    BY <2>2 DEF Fits, Idle, Sending, Trying, Types, TypeOK
  <2>4. Fine
    BY <2>1, <2>2, <2>3, RequestTypes DEF VerifyOtp
  <2>5. QED
    BY <2>1, <2>4 DEF VerifyOtp, store, history, Types, TypeOK, Request
<1>3. CASE CountAttempt(r)
  <2>1. req[r].sid \in Sids
    BY <1>1, <1>3 DEF CountAttempt, Fits, Trying
  <2>2. attempts' \in [Sids -> Counter(AttemptMax)]
    BY <1>1, <1>3, <2>1, CounterTypes, LimitAssumption DEF CountAttempt, Types, TypeOK
  <2>3. Fits([req[r] EXCEPT !.pc = "startAttempts"]) /\ Fits([req[r] EXCEPT !.pc = "lock"])
    BY <1>1, <2>1 DEF Fits, Request, Sending, Trying
  <2>4. Fine /\ matched' \subseteq Sids /\ wrong' \in [Sids -> 0..(AttemptMax + 1)]
    <3>1. CASE Compare(r)
      BY <1>3, <3>1, CompareTypes DEF CountAttempt, Trying
    <3>2. CASE Goto(r, "startAttempts") /\ UNCHANGED <<matched, wrong>>
      BY <2>3, <3>2, GotoTypes DEF Pcs, Types, TypeOK
    <3>3. CASE Goto(r, "lock") /\ UNCHANGED <<matched, wrong>>
      BY <2>3, <3>3, GotoTypes DEF Pcs, Types, TypeOK
    <3>4. QED
      BY <1>3, <3>1, <3>2, <3>3 DEF CountAttempt
  <2>5. QED
    BY <1>3, <2>2, <2>4 DEF CountAttempt, Types, TypeOK, Request
<1>4. CASE StartAttempts(r)
  <2>1. attempts' \in [Sids -> Counter(AttemptMax)]
    BY <1>1, <1>4, CounterTypes, LimitAssumption DEF StartAttempts, Types, TypeOK
  <2>2. Fine /\ matched' \subseteq Sids /\ wrong' \in [Sids -> 0..(AttemptMax + 1)]
    BY <1>4, CompareTypes DEF StartAttempts, Trying
  <2>3. QED
    BY <1>4, <2>1, <2>2 DEF StartAttempts, Types, TypeOK, Request
<1>5. CASE Lock(r)
  <2>1. Fine
    BY <1>5, FinishTypes DEF Lock
  <2>2. QED
    BY <1>5, <2>1 DEF Lock, history, Types, TypeOK, Request
<1>6. CASE Clear(r)
  <2>1. Fits([req[r] EXCEPT !.pc = "getReg"])
    BY <1>1, <1>6 DEF Clear, Fits, Request, Sending, Trying
  <2>2. Fine
    BY <1>6, <2>1, GotoTypes DEF Clear, Pcs
  <2>3. attempts' \in [Sids -> Counter(AttemptMax)]
    <3>1. NoCount \in Counter(AttemptMax)
      BY LimitAssumption DEF NoCount, Counter
    <3>2. QED
      BY <1>6, <3>1 DEF Clear, Types, TypeOK
  <2>4. QED
    BY <1>6, <2>2, <2>3 DEF Clear, history, Types, TypeOK, Request
<1>7. CASE GetReg(r)
  <2>1. CASE Finish(r)
    BY <1>7, <2>1, FinishTypes DEF GetReg, store, history, Types, TypeOK, Request
  <2>2. CASE ~ Finish(r)
    <3>1. PICK e \in Emails : req' = [req EXCEPT ![r].pc = "create", ![r].email = e]
      BY <1>1, <1>7, <2>2 DEF GetReg, Types, TypeOK, Fits
    <3>2. PICK q \in Request : q = [req[r] EXCEPT !.pc = "create", !.email = e]
      BY <1>1 DEF Request, Pcs
    <3>3. Fits(q) /\ req' = [req EXCEPT ![r] = q]
      BY <1>1, <1>7, <3>1, <3>2 DEF GetReg, Fits, Request, Sending, Trying, Types, TypeOK
    <3>4. Fine
      BY <3>3, RequestTypes
    <3>5. QED
      BY <1>7, <3>4 DEF GetReg, store, history, Types, TypeOK, Request
  <2>3. QED
    BY <2>1, <2>2
<1>8. CASE Create(r)
  <2>1. Fits([req[r] EXCEPT !.pc = "delete"]) /\ req[r].sid \in Sids
    BY <1>1, <1>8 DEF Create, Fits, Request, Sending, Trying
  <2>2. Fine
    BY <1>8, <2>1, GotoTypes, FinishTypes DEF Create, Pcs
  <2>3. user' \in [Emails -> Sids \cup {Null}]
    BY <1>8, <2>1 DEF Create, Types, TypeOK
  <2>4. QED
    BY <1>8, <2>2, <2>3 DEF Create, history, Types, TypeOK, Request
<1>9. CASE Abort(r)
  <2>1. Fine
    BY <1>9, FinishTypes DEF Abort
  <2>2. QED
    BY <1>9, <2>1 DEF Abort, store, history, Types, TypeOK, Request
<1>10. QED
  BY <1>2, <1>3, <1>4, <1>5, <1>6, <1>7, <1>8, <1>9

\* A command that is carried out twice keeps the types.
LEMMA LostTypes == ASSUME Types, NEW r \in Requests, ReplyLost(r) PROVE Types'
<1>1. /\ now \in Nat /\ OtpTTL \in Nat /\ RateWindow \in Nat /\ RateMax \in Nat /\ AttemptMax \in Nat
      /\ Fits(req[r]) /\ UNCHANGED <<now, user, req, history>>
  BY LimitAssumption DEF ReplyLost, Types, TypeOK
<1>2. rate' \in [Emails -> Counter(RateMax)]
  <2>1. CASE req[r].pc \in {"countSend", "startWindow"}
    <3>1. req[r].email \in Emails
      BY <1>1, <2>1 DEF Fits, Sending
    <3>2. QED
      BY <1>1, <2>1, <3>1, CounterTypes DEF ReplyLost, Types, TypeOK
  <2>2. CASE req[r].pc \notin {"countSend", "startWindow"}
    BY <2>2 DEF ReplyLost, Types, TypeOK
  <2>3. QED
    BY <2>1, <2>2
<1>3. attempts' \in [Sids -> Counter(AttemptMax)]
  <2>1. CASE req[r].pc \in {"countAttempt", "startAttempts"}
    <3>1. req[r].sid \in Sids
      BY <1>1, <2>1 DEF Fits, Trying
    <3>2. QED
      BY <1>1, <2>1, <3>1, CounterTypes DEF ReplyLost, Types, TypeOK
  <2>2. CASE req[r].pc = "clear"
    <3>1. NoCount \in Counter(AttemptMax)
      BY <1>1 DEF NoCount, Counter
    <3>2. QED
      BY <2>2, <3>1 DEF ReplyLost, Types, TypeOK
  <2>3. CASE req[r].pc \notin {"countAttempt", "startAttempts", "clear"}
    BY <2>3 DEF ReplyLost, Types, TypeOK
  <2>4. QED
    BY <2>1, <2>2, <2>3
<1>4. otp' \in [Sids -> Nat \cup {Null}]
  <2>1. now + OtpTTL \in Nat
    BY <1>1
  <2>2. otp \in [Sids -> Nat \cup {Null}]
    BY DEF Types, TypeOK
  <2>3. CASE req[r].pc = "setOtp"
    <3>1. otp' = [otp EXCEPT ![req[r].sid] = now + OtpTTL]
      BY <2>3 DEF ReplyLost
    <3>2. QED
      BY <2>1, <2>2, <3>1
  <2>4. CASE req[r].pc # "setOtp"
    BY <2>2, <2>4 DEF ReplyLost
  <2>5. QED
    BY <2>3, <2>4
<1>5. reg' \in [Sids -> [email: Emails, expires: Nat] \cup {Null}]
  <2>1. reg \in [Sids -> [email: Emails, expires: Nat] \cup {Null}]
    BY DEF Types, TypeOK
  <2>2. CASE req[r].pc = "setReg"
    <3>1. [email |-> req[r].email, expires |-> now + OtpTTL] \in [email: Emails, expires: Nat]
      BY <1>1, <2>2 DEF Fits, Sending
    <3>2. reg' = [reg EXCEPT ![req[r].sid] = [email |-> req[r].email, expires |-> now + OtpTTL]]
      BY <2>2 DEF ReplyLost
    <3>3. QED
      BY <2>1, <3>1, <3>2
  <2>3. CASE req[r].pc # "setReg"
    BY <2>1, <2>3 DEF ReplyLost
  <2>4. QED
    BY <2>2, <2>3
<1>6. QED
  BY <1>1, <1>2, <1>3, <1>4, <1>5 DEF history, Types, TypeOK

\* Time keeps the types.
LEMMA TickTypes == ASSUME Types, Tick PROVE Types'
<1>1. now' \in 0..MaxTime
  BY LimitAssumption DEF Tick, Types, TypeOK
<1>2. rate' \in [Emails -> Counter(RateMax)] /\ attempts' \in [Sids -> Counter(AttemptMax)]
  BY LimitAssumption DEF Tick, Types, TypeOK, NoCount, Counter
<1>3. /\ otp' \in [Sids -> Nat \cup {Null}]
      /\ reg' \in [Sids -> [email: Emails, expires: Nat] \cup {Null}]
  BY DEF Tick, Types, TypeOK
<1>4. QED
  BY <1>1, <1>2, <1>3 DEF Tick, history, Types, TypeOK

\* Every step keeps the types.
LEMMA TypesStep == Types /\ [Next]_vars => Types'
<1> SUFFICES ASSUME Types, [Next]_vars PROVE Types'
  OBVIOUS
<1>1. ASSUME NEW r \in Requests, Arrive(r) \/ Step(r) \/ Abort(r) PROVE Types'
  BY <1>1, SendTypes, VerifyTypes DEF Arrive, Step
<1>2. CASE UNCHANGED vars
  BY <1>2 DEF vars, store, history, Types, TypeOK
<1>3. QED
  BY <1>1, <1>2, LostTypes, TickTypes DEF Next

-----------------------------------------------------------------------------
(* Sessions and their owners                                               *)

\* A comparison only moves its request on, and counts.
LEMMA CompareMoves ==
  ASSUME Types, NEW r \in Requests, req[r].sid \in Sids, Compare(r)
  PROVE  /\ req' = [req EXCEPT ![r] = Idle] \/ req' = [req EXCEPT ![r].pc = "clear"]
         /\ matched \subseteq matched'
         /\ req'[r].pc = "clear" => req[r].sid \in matched'
         /\ \A s \in Sids \ {req[r].sid} : wrong'[s] = wrong[s]
         /\ matched' = matched => wrong'[req[r].sid] \in {wrong[req[r].sid], wrong[req[r].sid] + 1}
BY DEF Compare, Goto, Finish, Idle, Types, TypeOK

\* A step that only moves a request on keeps Begun if the request's new place
\* has what Begun asks of it.
LEMMA BegunMoves ==
  ASSUME Types, Begun, NEW r \in Requests, NEW q,
         req' = [req EXCEPT ![r] = q], UNCHANGED <<told, started, reg>>, matched \subseteq matched',
         q.sid \in Sids => started[q.sid] # Null,
         q.pc \in Sending \cup {"create"} => started[q.sid].email = q.email,
         q.pc \in {"clear", "getReg", "create"} => q.sid \in matched'
  PROVE  Begun'
<1>1. req'[r] = q /\ \A x \in Requests \ {r} : req'[x] = req[x]
  BY DEF Types, TypeOK
<1>2. QED
  BY <1>1 DEF Begun

\* The end of a request is such a step.
LEMMA BegunEnds ==
  ASSUME Types, Begun, NEW r \in Requests, Finish(r),
         UNCHANGED <<told, started, reg>>, matched \subseteq matched'
  PROVE  Begun'
<1>1. PICK q : q = Idle
  OBVIOUS
<1>2. q.sid \notin Sids /\ q.pc = "idle"
  BY <1>1, NullAssumption DEF Idle
<1>3. QED
  BY <1>1, <1>2, BegunMoves DEF Finish, Sending

\* Ids keep being given out before they are used.
LEMMA BegunStep == Types /\ Begun /\ [Next]_vars => Begun'
<1> SUFFICES ASSUME Types, Begun, [Next]_vars PROVE Begun'
  OBVIOUS
<1>1. req \in [Requests -> Request] /\ \A r \in Requests : Fits(req[r])
  BY DEF Types, TypeOK, Request
<1>2. ASSUME NEW r \in Requests, NEW e \in Emails, SendOtp(r, e) PROVE Begun'
  <2>1. PICK q : q = [Idle EXCEPT !.pc = "countSend", !.email = e]
    OBVIOUS
  <2>2. q.sid \notin Sids /\ q.pc = "countSend"
    BY <2>1, NullAssumption DEF Idle
  <2>3. QED
    BY <1>2, <2>1, <2>2, BegunMoves DEF SendOtp, store, history, Sending
<1>3. ASSUME NEW r \in Requests, CountSend(r) PROVE Begun'
  <2>1. CASE Finish(r) /\ UNCHANGED started
    BY <1>3, <2>1, BegunEnds DEF CountSend
  <2>2. CASE ~ (Finish(r) /\ UNCHANGED started)
    <3>1. PICK s \in Sids, l \in {"startWindow", "setOtp"} :
            /\ started[s] = Null
            /\ started' = [started EXCEPT ![s] = [email |-> req[r].email, at |-> now]]
            /\ req' = [req EXCEPT ![r].sid = s, ![r].pc = l]
      BY <1>3, <2>2 DEF CountSend
    <3>2. req[r].email \in Emails
      BY <1>1, <1>3 DEF CountSend, Fits
    <3>3. [email |-> req[r].email, at |-> now] # Null
      <4>1. now \in Nat
        BY LimitAssumption DEF Types, TypeOK
      <4>2. [email |-> req[r].email, at |-> now] \in [email: Emails, at: Nat]
        BY <3>2, <4>1
      <4>3. QED
        BY <4>2, NullAssumption
    <3>4. /\ started'[s] # Null /\ started'[s].email = req[r].email
          /\ \A x \in Sids \ {s} : started'[x] = started[x]
      BY <3>1, <3>3 DEF Types, TypeOK
    <3>5. /\ req'[r].sid = s /\ req'[r].pc = l /\ req'[r].email = req[r].email
          /\ \A x \in Requests \ {r} : req'[x] = req[x]
      BY <1>1, <3>1 DEF Request
    <3>6. UNCHANGED <<told, reg, matched>> /\ \A x \in Requests : req[x].sid # s
      BY <1>3, <3>1 DEF CountSend, Begun
    <3>7. \A x \in Requests : req[x].pc \in Sending \cup {"create"} => req[x].sid \in Sids
      BY <1>1 DEF Fits
    <3>8. told \subseteq Sids
      BY DEF Types, TypeOK
    <3>9. ASSUME NEW x \in Requests
          PROVE  /\ req'[x].sid \in Sids => started'[req'[x].sid] # Null
                 /\ req'[x].pc \in Sending \cup {"create"} =>
                      started'[req'[x].sid].email = req'[x].email
                 /\ req'[x].pc \in {"clear", "getReg", "create"} => req'[x].sid \in matched'
      <4>1. CASE x = r
        BY <3>4, <3>5, <4>1
      <4>2. CASE x # r
        <5>1. req'[x] = req[x] /\ req[x].sid # s /\ matched' = matched
          BY <3>5, <3>6, <4>2
        <5>2. req[x].sid \in Sids => started'[req[x].sid] = started[req[x].sid]
          BY <3>4, <5>1
        <5>3. /\ req[x].sid \in Sids => started[req[x].sid] # Null
              /\ req[x].pc \in Sending \cup {"create"} =>
                   started[req[x].sid].email = req[x].email
              /\ req[x].pc \in {"clear", "getReg", "create"} => req[x].sid \in matched
          BY DEF Begun
        <5>4. req[x].pc \in Sending \cup {"create"} => req[x].sid \in Sids
          BY <3>7
        <5>5. QED
          BY <5>1, <5>2, <5>3, <5>4
      <4>3. QED
        BY <4>1, <4>2
    <3>10. \A x \in told' : started'[x] # Null
      BY <3>4, <3>6, <3>8 DEF Begun
    <3>11. \A x \in Sids : reg'[x] # Null =>
             started'[x] # Null /\ reg'[x].email = started'[x].email
      BY <3>1, <3>4, <3>6 DEF Begun
    <3>12. QED
      BY <3>9, <3>10, <3>11 DEF Begun
  <2>3. QED
    BY <2>1, <2>2
<1>4. ASSUME NEW r \in Requests, StartWindow(r) \/ SetOtp(r) PROVE Begun'
  <2>1. PICK l \in {"setOtp", "setReg"} :
          Goto(r, l) /\ req[r].pc \in Sending /\ UNCHANGED <<told, started, reg, matched>>
    BY <1>4 DEF StartWindow, SetOtp, history, Sending
  <2>2. PICK q : q = [req[r] EXCEPT !.pc = l]
    OBVIOUS
  <2>3. q.pc = l /\ q.sid = req[r].sid /\ q.email = req[r].email
        /\ req' = [req EXCEPT ![r] = q]
    BY <1>1, <2>1, <2>2 DEF Goto, Request
  <2>4. QED
    BY <2>1, <2>3, BegunMoves DEF Begun
<1>5. ASSUME NEW r \in Requests, SetReg(r) PROVE Begun'
  <2>1. req[r].sid \in Sids /\ started[req[r].sid].email = req[r].email
        /\ started[req[r].sid] # Null
    BY <1>1, <1>5 DEF SetReg, Fits, Sending, Begun
  <2>2. \A s \in Sids : reg'[s] # Null => started[s] # Null /\ reg'[s].email = started[s].email
    BY <1>5, <2>1 DEF SetReg, Begun, Types, TypeOK
  <2>3. QED
    BY <1>1, <1>5, <2>2 DEF SetReg, Goto, Begun, history, Sending
<1>6. ASSUME NEW r \in Requests, Publish(r) PROVE Begun'
  <2>1. req[r].sid \in Sids
    BY <1>1, <1>6 DEF Publish, Fits, Sending
  <2>2. QED
    BY <1>1, <1>6, <2>1, NullAssumption DEF Publish, Finish, Begun, Idle, store, Sending
<1>7. ASSUME NEW r \in Requests, PublishFails(r) PROVE Begun'
  BY <1>1, <1>7 DEF PublishFails, Goto, Begun, store, Sending
<1>8. ASSUME NEW r \in Requests, Delete(r) PROVE Begun'
  BY <1>1, <1>8, NullAssumption DEF Delete, Finish, Begun, Idle, history, Sending, Types, TypeOK
<1>9. ASSUME NEW r \in Requests, NEW s \in told, NEW right \in BOOLEAN, VerifyOtp(r, s, right)
      PROVE  Begun'
  BY <1>1, <1>9 DEF VerifyOtp, Begun, Idle, store, history, Sending
<1>10. ASSUME NEW r \in Requests, CountAttempt(r) \/ StartAttempts(r) PROVE Begun'
  <2>1. req[r].sid \in Sids
    BY <1>1, <1>10 DEF CountAttempt, StartAttempts, Fits, Trying
  <2>2. UNCHANGED <<reg, started, told>>
    BY <1>10 DEF CountAttempt, StartAttempts
  <2>3. CASE Compare(r)
    <3>1. CASE Finish(r)
      BY <2>1, <2>2, <2>3, <3>1, CompareMoves, BegunEnds
    <3>2. CASE Goto(r, "clear")
      <4>1. PICK q : q = [req[r] EXCEPT !.pc = "clear"]
        OBVIOUS
      <4>2. q.pc = "clear" /\ q.sid = req[r].sid /\ req' = [req EXCEPT ![r] = q]
        BY <1>1, <3>2, <4>1 DEF Goto, Request
      <4>3. q.sid \in matched' /\ matched \subseteq matched'
        BY <1>1, <2>1, <2>3, <4>2, CompareMoves
      <4>4. QED
        BY <2>1, <2>2, <4>2, <4>3, BegunMoves DEF Begun, Sending
    <3>3. QED
      BY <2>3, <3>1, <3>2 DEF Compare
  <2>4. CASE ~ Compare(r)
    <3>1. PICK l \in {"startAttempts", "lock"} :
            req' = [req EXCEPT ![r].pc = l] /\ matched' = matched
      BY <1>10, <2>4 DEF CountAttempt, StartAttempts, Goto
    <3>2. QED
      BY <1>1, <2>2, <3>1 DEF Begun, Sending
  <2>5. QED
    BY <2>3, <2>4
<1>11. ASSUME NEW r \in Requests, Lock(r) \/ Abort(r) PROVE Begun'
  BY <1>1, <1>11, NullAssumption DEF Lock, Abort, Finish, Begun, Idle, store, history, Sending
<1>12. ASSUME NEW r \in Requests, Clear(r) PROVE Begun'
  BY <1>1, <1>12 DEF Clear, Goto, Begun, history, Sending
<1>13. ASSUME NEW r \in Requests, GetReg(r) PROVE Begun'
  <2>1. req[r].sid \in Sids
    BY <1>1, <1>13 DEF GetReg, Fits
  <2>2. CASE reg[req[r].sid] = Null
    BY <1>1, <1>13, <2>2, NullAssumption DEF GetReg, Finish, Begun, Idle, store, history, Sending
  <2>3. CASE reg[req[r].sid] # Null
    BY <1>1, <1>13, <2>1, <2>3 DEF GetReg, Begun, store, history, Sending, Request
  <2>4. QED
    BY <2>2, <2>3
<1>14. ASSUME NEW r \in Requests, Create(r) PROVE Begun'
  <2>1. UNCHANGED <<told, started, reg, matched>>
    BY <1>14 DEF Create, history
  <2>2. CASE Finish(r)
    BY <2>1, <2>2, BegunEnds
  <2>3. CASE Goto(r, "delete")
    <3>1. PICK q : q = [req[r] EXCEPT !.pc = "delete"]
      OBVIOUS
    <3>2. q.pc = "delete" /\ q.sid = req[r].sid /\ req' = [req EXCEPT ![r] = q]
      BY <1>1, <2>3, <3>1 DEF Goto, Request
    <3>3. QED
      BY <2>1, <3>2, BegunMoves DEF Begun, Sending
  <2>4. QED
    BY <1>14, <2>2, <2>3 DEF Create
<1>15. CASE Tick
  BY <1>15 DEF Tick, Begun, history
<1>16. CASE UNCHANGED vars
  BY <1>16 DEF vars, store, history, Begun
<1>17. ASSUME NEW r \in Requests, ReplyLost(r) PROVE Begun'
  <2>1. UNCHANGED <<req, told, started, matched>>
    BY <1>17 DEF ReplyLost, history
  <2>2. \A s \in Sids : reg'[s] # Null => started[s] # Null /\ reg'[s].email = started[s].email
    <3>1. CASE req[r].pc = "setReg"
      <4>1. req[r].sid \in Sids /\ started[req[r].sid].email = req[r].email
            /\ started[req[r].sid] # Null
        BY <1>1, <3>1 DEF Fits, Sending, Begun
      <4>2. QED
        BY <1>17, <3>1, <4>1 DEF ReplyLost, Begun, Types, TypeOK
    <3>2. CASE req[r].pc # "setReg"
      BY <1>17, <3>2 DEF ReplyLost, Begun, Types, TypeOK
    <3>3. QED
      BY <3>1, <3>2
  <2>3. QED
    BY <2>1, <2>2 DEF Begun
<1>18. QED
  BY <1>2, <1>3, <1>4, <1>5, <1>6, <1>7, <1>8, <1>9, <1>10, <1>11, <1>12, <1>13, <1>14,
     <1>15, <1>16, <1>17
  DEF Next, Arrive, Step

\* A step that only moves a request on keeps Owned if the request does not begin
\* to send, and tries a session that was told.
LEMMA OwnedMoves ==
  ASSUME Types, Owned, NEW r \in Requests, NEW q,
         req' = [req EXCEPT ![r] = q], told' = told,
         \A s \in Sids \ told : attempts'[s] = attempts[s] \/ attempts'[s] = NoCount,
         \A s \in Sids \ told : wrong'[s] = wrong[s],
         q.pc \in Sending => req[r].pc \in Sending /\ q.sid = req[r].sid,
         q.pc \in Trying => q.sid \in told
  PROVE  Owned'
<1>1. req'[r] = q /\ \A x \in Requests \ {r} : req'[x] = req[x]
  BY DEF Types, TypeOK
<1>2. QED
  BY <1>1 DEF Owned

\* A session keeps its one sender, and is tried only after it was told.
LEMMA OwnedStep == Types /\ Begun /\ Owned /\ [Next]_vars => Owned'
<1> SUFFICES ASSUME Types, Begun, Owned, [Next]_vars PROVE Owned'
  OBVIOUS
<1>1. req \in [Requests -> Request] /\ \A r \in Requests : Fits(req[r])
  BY DEF Types, TypeOK, Request
<1>2. ASSUME NEW r \in Requests, NEW e \in Emails, SendOtp(r, e) PROVE Owned'
  BY <1>1, <1>2 DEF SendOtp, Owned, store, history, Sending, Trying, Idle
<1>3. ASSUME NEW r \in Requests, CountSend(r) PROVE Owned'
  <2>1. CASE Finish(r) /\ UNCHANGED started
    BY <1>1, <1>3, <2>1 DEF CountSend, Finish, Owned, Idle, Sending, Trying
  <2>2. CASE ~ (Finish(r) /\ UNCHANGED started)
    <3>1. PICK s \in Sids, l \in {"startWindow", "setOtp"} :
            /\ started[s] = Null
            /\ req' = [req EXCEPT ![r].sid = s, ![r].pc = l]
      BY <1>3, <2>2 DEF CountSend
    <3>2. s \notin told /\ \A q \in Requests : req[q].sid # s
      BY <3>1 DEF Begun
    <3>3. UNCHANGED <<told, attempts, wrong>>
      BY <1>3 DEF CountSend
    <3>4. req'[r].sid = s /\ req'[r].pc = l /\ \A q \in Requests \ {r} : req'[q] = req[q]
      BY <1>1, <3>1 DEF Request
    <3>5. l \in Sending /\ l \notin Trying
      BY DEF Sending, Trying
    <3>6. \A x \in Requests : req'[x].pc \in Sending => req'[x].sid \notin told
      BY <3>2, <3>4 DEF Owned
    <3>7. ASSUME NEW x \in Requests, NEW y \in Requests,
                 req'[x].pc \in Sending, req'[y].pc \in Sending, req'[x].sid = req'[y].sid
          PROVE  x = y
      BY <3>2, <3>4, <3>7 DEF Owned
    <3>8. \A x \in Requests : req'[x].pc \in Trying => req'[x].sid \in told
      BY <3>4, <3>5 DEF Owned
    <3>9. QED
      BY <3>3, <3>6, <3>7, <3>8 DEF Owned
  <2>3. QED
    BY <2>1, <2>2
<1>4. ASSUME NEW r \in Requests, StartWindow(r) \/ SetOtp(r) \/ SetReg(r) PROVE Owned'
  <2>1. PICK l \in Sending : req' = [req EXCEPT ![r].pc = l]
    BY <1>4 DEF StartWindow, SetOtp, SetReg, Goto, Sending
  <2>2. req[r].pc \in Sending /\ UNCHANGED <<told, attempts, wrong>>
    BY <1>4 DEF StartWindow, SetOtp, SetReg, history, Sending
  <2>3. req'[r].sid = req[r].sid /\ req'[r].pc = l /\ \A q \in Requests \ {r} : req'[q] = req[q]
    BY <1>1, <2>1 DEF Request
  <2>4. QED
    BY <2>2, <2>3 DEF Owned, Sending, Trying
<1>5. ASSUME NEW r \in Requests, Publish(r) PROVE Owned'
  <2>1. told' = told \cup {req[r].sid} /\ UNCHANGED <<attempts, wrong>> /\ req[r].pc \in Sending
    BY <1>5 DEF Publish, store, Sending
  <2>2. req'[r] = Idle /\ \A q \in Requests \ {r} : req'[q] = req[q]
    BY <1>1, <1>5 DEF Publish, Finish
  <2>3. QED
    BY <2>1, <2>2 DEF Owned, Idle, Sending, Trying
<1>6. ASSUME NEW r \in Requests, PublishFails(r) PROVE Owned'
  BY <1>1, <1>6 DEF PublishFails, Goto, Owned, store, Sending, Trying
<1>7. ASSUME NEW r \in Requests, Delete(r) \/ Lock(r) \/ Abort(r) PROVE Owned'
  BY <1>1, <1>7
  DEF Delete, Lock, Abort, Finish, Owned, Idle, store, history, Sending, Trying
<1>8. ASSUME NEW r \in Requests, NEW s \in told, NEW right \in BOOLEAN, VerifyOtp(r, s, right)
      PROVE  Owned'
  BY <1>1, <1>8 DEF VerifyOtp, Owned, Idle, store, history, Sending, Trying
<1>9. ASSUME NEW r \in Requests, CountAttempt(r) \/ StartAttempts(r) PROVE Owned'
  <2>1. req[r].sid \in Sids /\ req[r].sid \in told
    BY <1>1, <1>9 DEF CountAttempt, StartAttempts, Fits, Owned, Trying
  <2>2. told' = told /\ \A s \in Sids \ {req[r].sid} : attempts'[s] = attempts[s]
    BY <1>9 DEF CountAttempt, StartAttempts, Types, TypeOK
  <2>3. \A s \in Sids \ {req[r].sid} : wrong'[s] = wrong[s]
    BY <1>9, <2>1, CompareMoves DEF CountAttempt, StartAttempts
  <2>4. PICK l \in {"startAttempts", "lock", "clear"} :
          req' = [req EXCEPT ![r] = Idle] \/ req' = [req EXCEPT ![r].pc = l]
    BY <1>9, <2>1, CompareMoves DEF CountAttempt, StartAttempts, Goto
  <2>5. PICK q : q \in {Idle, [req[r] EXCEPT !.pc = l]} /\ req' = [req EXCEPT ![r] = q]
    BY <1>1, <2>4
  <2>6. q.pc \in {"idle", l} /\ (q.pc = l => q.sid = req[r].sid)
    BY <1>1, <2>5 DEF Idle, Request
  <2>7. QED
    BY <2>1, <2>2, <2>3, <2>5, <2>6, OwnedMoves DEF Sending, Trying
<1>10. ASSUME NEW r \in Requests, Clear(r) PROVE Owned'
  <2>1. PICK q : q = [req[r] EXCEPT !.pc = "getReg"]
    OBVIOUS
  <2>2. q.pc = "getReg" /\ req' = [req EXCEPT ![r] = q]
    BY <1>1, <1>10, <2>1 DEF Clear, Goto, Request
  <2>3. \A s \in Sids : attempts'[s] = attempts[s] \/ attempts'[s] = NoCount
    BY <1>10 DEF Clear, Types, TypeOK
  <2>4. QED
    BY <1>1, <1>10, <2>2, <2>3, OwnedMoves DEF Clear, history, Sending, Trying
<1>11. ASSUME NEW r \in Requests, GetReg(r) PROVE Owned'
  <2>1. UNCHANGED <<told, attempts, wrong>>
    BY <1>11 DEF GetReg, store, history
  <2>2. CASE Finish(r)
    BY <1>1, <2>1, <2>2 DEF Finish, Owned, Idle, Sending, Trying
  <2>3. CASE ~ Finish(r)
    <3>1. PICK e : req' = [req EXCEPT ![r].pc = "create", ![r].email = e]
      BY <1>11, <2>3 DEF GetReg
    <3>2. req'[r].pc = "create" /\ \A x \in Requests \ {r} : req'[x] = req[x]
      BY <1>1, <3>1 DEF Request
    <3>3. QED
      BY <2>1, <3>2 DEF Owned, Sending, Trying
  <2>4. QED
    BY <2>2, <2>3
<1>12. ASSUME NEW r \in Requests, Create(r) PROVE Owned'
  <2>1. UNCHANGED <<told, attempts, wrong>>
    BY <1>12 DEF Create, history
  <2>2. CASE Finish(r)
    BY <1>1, <2>1, <2>2 DEF Finish, Owned, Idle, Sending, Trying
  <2>3. CASE Goto(r, "delete")
    BY <1>1, <2>1, <2>3 DEF Goto, Owned, Sending, Trying
  <2>4. QED
    BY <1>12, <2>2, <2>3 DEF Create
<1>13. CASE Tick
  <2>1. \A s \in Sids : attempts[s] = NoCount => attempts'[s] = NoCount
    BY <1>13 DEF Tick
  <2>2. QED
    BY <1>13, <2>1 DEF Tick, Owned, history
<1>14. CASE UNCHANGED vars
  BY <1>14 DEF vars, store, history, Owned
<1>15. ASSUME NEW r \in Requests, ReplyLost(r) PROVE Owned'
  <2>1. UNCHANGED <<req, told, wrong>>
    BY <1>15 DEF ReplyLost, history
  <2>2. \A s \in Sids \ told : attempts'[s] = NoCount
    <3>1. CASE req[r].pc \in Trying
      BY <1>15, <3>1 DEF ReplyLost, Owned, Trying, Types, TypeOK
    <3>2. CASE req[r].pc \notin Trying
      BY <1>15, <3>2 DEF ReplyLost, Owned, Trying, Types, TypeOK
    <3>3. QED
      BY <3>1, <3>2
  <2>3. QED
    BY <2>1, <2>2 DEF Owned
<1>16. QED
  BY <1>2, <1>3, <1>4, <1>5, <1>6, <1>7, <1>8, <1>9, <1>10, <1>11, <1>12, <1>13, <1>14, <1>15
  DEF Next, Arrive, Step

-----------------------------------------------------------------------------
(* Lifetimes                                                               *)

\* What Lives says of one session.
Alive(s) ==
  otp[s] # Null =>
    /\ now < otp[s] /\ otp[s] <= now + OtpTTL
    /\ Complete(s) => reg[s] # Null /\ reg[s].expires >= otp[s]

\* A step that leaves both keys alone and completes no session, except one whose
\* registration is there for long enough, keeps Lives.
LEMMA LivesKept ==
  ASSUME Lives, UNCHANGED <<now, otp, reg>>,
         \A s \in Sids : Complete(s)' /\ otp[s] # Null =>
           Complete(s) \/ (reg[s] # Null /\ reg[s].expires >= otp[s])
  PROVE  Lives'
BY DEF Lives

\* A step of r to a place other than "publish" completes no session, if it tells
\* nobody.
LEMMA NotCompleted ==
  ASSUME Types, NEW r \in Requests, NEW q, q.pc # "publish",
         req' = [req EXCEPT ![r] = q], told' = told
  PROVE  \A s \in Sids : Complete(s)' => Complete(s)
BY DEF Complete, Types, TypeOK

\* Neither does the end of r, nor a Goto elsewhere.
LEMMA Elsewhere ==
  ASSUME Types, NEW r \in Requests, told' = told,
         Finish(r) \/ \E l \in Pcs \ {"publish"} : Goto(r, l)
  PROVE  \A s \in Sids : Complete(s)' => Complete(s)
<1>1. req \in [Requests -> Request]
  BY DEF Types, TypeOK, Request
<1>2. CASE Finish(r)
  BY <1>1, <1>2 DEF Finish, Idle, Complete
<1>3. ASSUME NEW l \in Pcs \ {"publish"}, Goto(r, l)
      PROVE  \A s \in Sids : Complete(s)' => Complete(s)
  BY <1>1, <1>3 DEF Goto, Complete, Request
<1>4. QED
  BY <1>2, <1>3

\* An OTP does not outlive its registration once the session is complete.
LEMMA LivesStep ==
  Types /\ Begun /\ Owned /\ Lives /\ [Next]_vars => Lives'
<1> SUFFICES ASSUME Types, Begun, Owned, Lives, [Next]_vars PROVE Lives'
  OBVIOUS
<1>1. req \in [Requests -> Request] /\ \A r \in Requests : Fits(req[r])
  BY DEF Types, TypeOK, Request
<1>2. /\ now \in Nat /\ OtpTTL \in Nat \ {0}
      /\ otp \in [Sids -> Nat \cup {Null}] /\ Null \notin Nat
      /\ reg \in [Sids -> [email: Emails, expires: Nat] \cup {Null}]
  BY LimitAssumption, NullAssumption DEF Types, TypeOK
<1>3. ASSUME NEW r \in Requests, NEW e \in Emails, SendOtp(r, e) PROVE Lives'
  <2>1. \A s \in Sids : Complete(s)' => Complete(s)
    BY <1>1, <1>3 DEF SendOtp, Idle, Complete, history
  <2>2. QED
    BY <1>3, <2>1, LivesKept DEF SendOtp, store
<1>4. ASSUME NEW r \in Requests, CountSend(r) PROVE Lives'
  <2>1. CASE Finish(r) /\ UNCHANGED started
    BY <1>4, <2>1, Elsewhere, LivesKept DEF CountSend
  <2>2. CASE ~ (Finish(r) /\ UNCHANGED started)
    <3>1. PICK s \in Sids, l \in {"startWindow", "setOtp"} :
            /\ started[s] = Null
            /\ started' = [started EXCEPT ![s] = [email |-> req[r].email, at |-> now]]
            /\ req' = [req EXCEPT ![r].sid = s, ![r].pc = l]
      BY <1>4, <2>2 DEF CountSend
    <3>2. \A x \in Sids : Complete(x)' => Complete(x)
      <4>1. req'[r].pc = l /\ \A x \in Requests \ {r} : req'[x] = req[x]
        BY <1>1, <3>1 DEF Request
      <4>2. told' = told
        BY <1>4 DEF CountSend
      <4>3. QED
        BY <4>1, <4>2 DEF Complete
    <3>3. QED
      BY <1>4, <3>2, LivesKept DEF CountSend
  <2>3. QED
    BY <2>1, <2>2
<1>5. ASSUME NEW r \in Requests, StartWindow(r) PROVE Lives'
  BY <1>5, Elsewhere, LivesKept DEF StartWindow, history, Pcs
<1>6. ASSUME NEW r \in Requests, SetOtp(r) PROVE Lives'
  <2>1. req[r].sid \in Sids /\ req[r].pc \in Sending /\ UNCHANGED <<now, reg, told>>
    BY <1>1, <1>6 DEF SetOtp, Fits, Sending, history
  <2>2. \A s \in Sids : Complete(s)' => Complete(s)
    BY <1>6, <2>1, Elsewhere DEF SetOtp, Pcs
  <2>3. ~ Complete(req[r].sid)
    <3>1. req[r].sid \notin told
      BY <2>1 DEF Owned
    <3>2. \A q \in Requests : req[q].pc = "publish" /\ req[q].sid = req[r].sid => q = r
      BY <2>1 DEF Owned, Sending
    <3>3. QED
      BY <1>6, <3>1, <3>2 DEF Complete, SetOtp
  <2>4. /\ otp'[req[r].sid] = now + OtpTTL
        /\ \A s \in Sids \ {req[r].sid} : otp'[s] = otp[s]
    BY <1>2, <1>6, <2>1 DEF SetOtp
  <2>5. now < now + OtpTTL /\ now + OtpTTL <= now + OtpTTL
    BY <1>2
  <2>6. ASSUME NEW s \in Sids PROVE Alive(s)'
    <3>1. CASE s = req[r].sid
      BY <2>1, <2>2, <2>3, <2>4, <2>5, <3>1 DEF Alive
    <3>2. CASE s # req[r].sid
      BY <2>1, <2>2, <2>4, <3>2 DEF Alive, Lives
    <3>3. QED
      BY <3>1, <3>2
  <2>7. QED
    BY <2>6 DEF Lives, Alive
<1>7. ASSUME NEW r \in Requests, SetReg(r) PROVE Lives'
  <2>1. req[r].sid \in Sids /\ req[r].email \in Emails /\ UNCHANGED <<now, otp, told>>
    BY <1>1, <1>7 DEF SetReg, Fits, Sending, history
  <2>2. PICK d \in [email: Emails, expires: Nat] :
          d = [email |-> req[r].email, expires |-> now + OtpTTL]
    <3>1. now + OtpTTL \in Nat
      BY <1>2
    <3>2. QED
      BY <2>1, <3>1
  <2>3. /\ reg'[req[r].sid] = d /\ d.expires = now + OtpTTL /\ d # Null
        /\ \A s \in Sids \ {req[r].sid} : reg'[s] = reg[s]
    BY <1>2, <1>7, <2>1, <2>2, NullAssumption DEF SetReg
  <2>4. \A s \in Sids \ {req[r].sid} : Complete(s)' => Complete(s)
    BY <1>1, <1>7, <2>1 DEF SetReg, Goto, Complete
  <2>5. ASSUME NEW s \in Sids PROVE Alive(s)'
    <3>1. CASE s = req[r].sid
      BY <1>2, <2>1, <2>3, <3>1 DEF Alive, Lives
    <3>2. CASE s # req[r].sid
      BY <2>1, <2>3, <2>4, <3>2 DEF Alive, Lives
    <3>3. QED
      BY <3>1, <3>2
  <2>6. QED
    BY <2>5 DEF Lives, Alive
<1>8. ASSUME NEW r \in Requests, Publish(r) PROVE Lives'
  <2>1. \A s \in Sids : Complete(s)' => Complete(s)
    BY <1>1, <1>8 DEF Publish, Finish, Idle, Complete
  <2>2. QED
    BY <1>8, <2>1, LivesKept DEF Publish, store
<1>9. ASSUME NEW r \in Requests, PublishFails(r) PROVE Lives'
  BY <1>9, Elsewhere, LivesKept DEF PublishFails, store, Pcs
<1>10. ASSUME NEW r \in Requests, Delete(r) \/ Lock(r) PROVE Lives'
  <2>1. /\ \A s \in Sids : otp'[s] # Null => otp'[s] = otp[s] /\ reg'[s] = reg[s]
        /\ UNCHANGED <<now, told>> /\ Finish(r)
    BY <1>2, <1>10 DEF Delete, Lock, history
  <2>2. \A s \in Sids : Complete(s)' => Complete(s)
    BY <2>1, Elsewhere
  <2>3. QED
    BY <2>1, <2>2 DEF Lives
<1>11. ASSUME NEW r \in Requests, NEW s \in told, NEW right \in BOOLEAN, VerifyOtp(r, s, right)
       PROVE  Lives'
  <2>1. \A x \in Sids : Complete(x)' => Complete(x)
    BY <1>1, <1>11 DEF VerifyOtp, Idle, Complete, history
  <2>2. QED
    BY <1>11, <2>1, LivesKept DEF VerifyOtp, store
<1>12. ASSUME NEW r \in Requests, CountAttempt(r) \/ StartAttempts(r) PROVE Lives'
  <2>1. Finish(r) \/ \E l \in Pcs \ {"publish"} : Goto(r, l)
    BY <1>12 DEF CountAttempt, StartAttempts, Compare, Pcs
  <2>2. UNCHANGED <<now, otp, reg, told>>
    BY <1>12 DEF CountAttempt, StartAttempts
  <2>3. QED
    BY <2>1, <2>2, Elsewhere, LivesKept
<1>13. ASSUME NEW r \in Requests, Clear(r) \/ Create(r) \/ Abort(r) PROVE Lives'
  <2>1. Finish(r) \/ \E l \in Pcs \ {"publish"} : Goto(r, l)
    BY <1>13 DEF Clear, Create, Abort, Pcs
  <2>2. UNCHANGED <<now, otp, reg, told>>
    BY <1>13 DEF Clear, Create, Abort, store, history
  <2>3. QED
    BY <2>1, <2>2, Elsewhere, LivesKept
<1>14. ASSUME NEW r \in Requests, GetReg(r) PROVE Lives'
  <2>1. UNCHANGED <<now, otp, reg, told>>
    BY <1>14 DEF GetReg, store, history
  <2>2. CASE Finish(r)
    BY <2>1, <2>2, Elsewhere, LivesKept
  <2>3. CASE ~ Finish(r)
    <3>1. PICK e : req' = [req EXCEPT ![r].pc = "create", ![r].email = e]
      BY <1>14, <2>3 DEF GetReg
    <3>2. req'[r].pc = "create" /\ \A x \in Requests \ {r} : req'[x] = req[x]
      BY <1>1, <3>1 DEF Request
    <3>3. QED
      BY <2>1, <3>2, LivesKept DEF Complete
  <2>4. QED
    BY <2>2, <2>3
<1>15. CASE Tick
  <2>1. now' = now + 1 /\ \A s \in Sids : Complete(s)' = Complete(s)
    BY <1>15 DEF Tick, history, Complete
  <2>2. ASSUME NEW s \in Sids, otp'[s] # Null PROVE otp'[s] = otp[s] /\ otp[s] # now + 1
    BY <1>15, <2>2 DEF Tick
  <2>3. ASSUME NEW s \in Sids, reg[s] # Null, reg[s].expires # now + 1 PROVE reg'[s] = reg[s]
    BY <1>15, <2>3 DEF Tick
  <2>4. ASSUME NEW s \in Sids PROVE Alive(s)'
    <3>1. SUFFICES ASSUME otp'[s] # Null PROVE Alive(s)'
      BY DEF Alive
    <3>2. otp'[s] = otp[s] /\ otp[s] \in Nat /\ otp[s] > now + 1 /\ otp[s] <= now + OtpTTL
      BY <1>2, <2>2, <3>1 DEF Lives
    <3>3. Complete(s) => reg[s] # Null /\ reg[s].expires >= otp[s] /\ reg[s].expires \in Nat
      BY <1>2, <3>2 DEF Lives
    <3>4. Complete(s) => reg'[s] = reg[s]
      BY <1>2, <2>3, <3>2, <3>3
    <3>5. QED
      BY <1>2, <2>1, <3>2, <3>3, <3>4 DEF Alive
  <2>5. QED
    BY <2>4 DEF Lives, Alive
<1>16. CASE UNCHANGED vars
  BY <1>16 DEF vars, store, history, Lives, Complete
<1>17. ASSUME NEW r \in Requests, ReplyLost(r) PROVE Lives'
  <2>1. UNCHANGED <<now, req, told>> /\ \A s \in Sids : Complete(s)' = Complete(s)
    BY <1>17 DEF ReplyLost, history, Complete
  <2>2. CASE req[r].pc = "setOtp"
    <3>1. req[r].sid \in Sids /\ req[r].pc \in Sending /\ reg' = reg
      BY <1>1, <1>17, <2>2 DEF ReplyLost, Fits, Sending
    <3>2. ~ Complete(req[r].sid)
      BY <2>2, <3>1 DEF Owned, Sending, Complete
    <3>3. /\ otp'[req[r].sid] = now + OtpTTL
          /\ \A s \in Sids \ {req[r].sid} : otp'[s] = otp[s]
      BY <1>2, <1>17, <2>2, <3>1 DEF ReplyLost
    <3>4. now < now + OtpTTL /\ now + OtpTTL <= now + OtpTTL
      BY <1>2
    <3>5. ASSUME NEW s \in Sids PROVE Alive(s)'
      <4>1. CASE s = req[r].sid
        BY <2>1, <3>2, <3>3, <3>4, <4>1 DEF Alive
      <4>2. CASE s # req[r].sid
        BY <2>1, <3>1, <3>3, <4>2 DEF Alive, Lives
      <4>3. QED
        BY <4>1, <4>2
    <3>6. QED
      BY <3>5 DEF Lives, Alive
  <2>3. CASE req[r].pc = "setReg"
    <3>1. req[r].sid \in Sids /\ req[r].email \in Emails /\ otp' = otp
      BY <1>1, <1>17, <2>3 DEF ReplyLost, Fits, Sending
    <3>2. PICK d \in [email: Emails, expires: Nat] :
            d = [email |-> req[r].email, expires |-> now + OtpTTL]
      <4>1. now + OtpTTL \in Nat
        BY <1>2
      <4>2. QED
        BY <3>1, <4>1
    <3>3. /\ reg'[req[r].sid] = d /\ d.expires = now + OtpTTL /\ d # Null
          /\ \A s \in Sids \ {req[r].sid} : reg'[s] = reg[s]
      BY <1>2, <1>17, <2>3, <3>1, <3>2, NullAssumption DEF ReplyLost
    <3>4. ASSUME NEW s \in Sids PROVE Alive(s)'
      <4>1. CASE s = req[r].sid
        BY <1>2, <2>1, <3>1, <3>3, <4>1 DEF Alive, Lives
      <4>2. CASE s # req[r].sid
        BY <2>1, <3>1, <3>3, <4>2 DEF Alive, Lives
      <4>3. QED
        BY <4>1, <4>2
    <3>5. QED
      BY <3>4 DEF Lives, Alive
  <2>4. CASE req[r].pc \notin {"setOtp", "setReg"}
    <3>1. \A s \in Sids : otp'[s] # Null => otp'[s] = otp[s] /\ reg'[s] = reg[s]
      BY <1>2, <1>17, <2>4 DEF ReplyLost
    <3>2. QED
      BY <2>1, <3>1 DEF Lives
  <2>5. QED
    BY <2>2, <2>3, <2>4
<1>18. QED
  BY <1>3, <1>4, <1>5, <1>6, <1>7, <1>8, <1>9, <1>10, <1>11, <1>12, <1>13, <1>14, <1>15, <1>16,
     <1>17
  DEF Next, Arrive, Step

-----------------------------------------------------------------------------
(* Attempts                                                                *)

\* What Counted says of one session.
CountedAt(s) ==
  otp[s] # Null /\ s \notin matched =>
    /\ wrong[s] <= AttemptMax /\ wrong[s] <= attempts[s].count
    /\ \A r \in Requests : req[r].pc = "startAttempts" /\ req[r].sid = s =>
         /\ wrong[s] + 1 <= attempts[s].count /\ wrong[s] + 1 <= AttemptMax
         /\ \A q \in Requests : req[q].pc = "startAttempts" /\ req[q].sid = s => q = r
    /\ attempts[s].expires # Null => attempts[s].expires >= otp[s]

\* A step that writes no OTP and no counter of a session that can be tried, and
\* does not start a counter, keeps it.
LEMMA CountedKept ==
  ASSUME NEW s \in Sids, CountedAt(s), matched \subseteq matched',
         otp'[s] # Null => otp'[s] = otp[s],
         otp'[s] # Null /\ s \notin matched' =>
           attempts'[s] = attempts[s] /\ wrong'[s] = wrong[s],
         \A r \in Requests : req'[r].pc = "startAttempts" /\ req'[r].sid = s => req'[r] = req[r]
  PROVE  CountedAt(s)'
BY DEF CountedAt

\* The steps of r that leave the counters of the attempts alone.
LEMMA OthersCount ==
  ASSUME Types, Begun, Counted, NEW r \in Requests, Arrive(r) \/ Step(r) \/ Abort(r),
         ~ SetOtp(r), ~ CountAttempt(r), ~ StartAttempts(r)
  PROVE  Counted'
<1>1. req \in [Requests -> Request]
  BY DEF Types, TypeOK, Request
<1>2. req'[r].pc # "startAttempts"
  <2>1. CASE Arrive(r) \/ Abort(r)
    <3>1. CASE Abort(r)
      BY <1>1, <3>1 DEF Abort, Finish, Idle
    <3>2. ASSUME NEW e \in Emails, SendOtp(r, e) PROVE req'[r].pc = "countSend"
      BY <1>1, <3>2 DEF SendOtp, Idle
    <3>3. ASSUME NEW s \in told, NEW right \in BOOLEAN, VerifyOtp(r, s, right)
          PROVE  req'[r].pc = "countAttempt"
      BY <1>1, <3>3 DEF VerifyOtp, Idle
    <3>4. QED
      BY <2>1, <3>1, <3>2, <3>3 DEF Arrive
  <2>2. CASE CountSend(r) \/ StartWindow(r) \/ SetReg(r) \/ Publish(r) \/ PublishFails(r)
    <3>1. CASE StartWindow(r) \/ SetReg(r) \/ Publish(r) \/ PublishFails(r)
      BY <1>1, <3>1 DEF StartWindow, SetReg, Publish, PublishFails, Goto, Finish, Idle, Request
    <3>2. CASE CountSend(r)
      <4>1. CASE Finish(r)
        BY <1>1, <4>1 DEF Finish, Idle
      <4>2. CASE ~ Finish(r)
        <5>1. PICK s \in Sids, l \in {"startWindow", "setOtp"} :
                /\ started[s] = Null
                /\ started' = [started EXCEPT ![s] = [email |-> req[r].email, at |-> now]]
                /\ req' = [req EXCEPT ![r].sid = s, ![r].pc = l]
          BY <3>2, <4>2 DEF CountSend
        <5>2. QED
          BY <1>1, <5>1 DEF Request
      <4>3. QED
        BY <4>1, <4>2
    <3>3. QED
      BY <2>2, <3>1, <3>2
  <2>3. CASE Delete(r) \/ Lock(r) \/ Clear(r) \/ GetReg(r) \/ Create(r)
    BY <1>1, <2>3 DEF Delete, Lock, Clear, GetReg, Create, Goto, Finish, Idle, Request
  <2>4. QED
    BY <2>1, <2>2, <2>3 DEF Step
<1>3. \A q \in Requests \ {r} : req'[q] = req[q]
  BY OwnStep
<1>4. UNCHANGED <<matched, wrong>>
  BY DEF Arrive, Step, SendOtp, CountSend, StartWindow, SetReg, Publish, PublishFails, Delete,
         VerifyOtp, Lock, Clear, GetReg, Create, Abort, history
<1>5. \A s \in Sids : otp'[s] # Null => otp'[s] = otp[s]
  BY DEF Arrive, Step, SendOtp, CountSend, StartWindow, SetReg, Publish, PublishFails, Delete,
         VerifyOtp, Lock, Clear, GetReg, Create, Abort, store, Types, TypeOK
<1>6. \A s \in Sids \ matched : attempts'[s] = attempts[s]
  <2>1. CASE Clear(r)
    BY <2>1 DEF Clear, Begun, Types, TypeOK
  <2>2. CASE ~ Clear(r)
    BY <2>2
    DEF Arrive, Step, SendOtp, CountSend, StartWindow, SetReg, Publish, PublishFails, Delete,
        VerifyOtp, Lock, GetReg, Create, Abort, store
  <2>3. QED
    BY <2>1, <2>2
<1>7. ASSUME NEW s \in Sids PROVE CountedAt(s)'
  <2>1. CountedAt(s)
    BY DEF Counted, CountedAt
  <2>2. QED
    BY <1>2, <1>3, <1>4, <1>5, <1>6, <2>1, CountedKept
<1>8. QED
  BY <1>7 DEF Counted, CountedAt

\* A wrong OTP is one more comparison, unless the count is past the limit.
LEMMA CompareCounts ==
  ASSUME Types, NEW r \in Requests, req[r].sid \in Sids, Compare(r),
         req[r].sid \notin matched', wrong[req[r].sid] <= AttemptMax
  PROVE  wrong'[req[r].sid] = wrong[req[r].sid] + 1 /\ req' = [req EXCEPT ![r] = Idle]
BY LimitAssumption DEF Compare, Finish, Types, TypeOK

\* INCR on the counter of the attempts keeps the comparisons counted.
LEMMA AttemptCounts ==
  ASSUME Types, Counted, NEW r \in Requests, CountAttempt(r)
  PROVE  Counted'
<1>1. req \in [Requests -> Request] /\ req[r].sid \in Sids /\ req[r].pc = "countAttempt"
  BY DEF Types, TypeOK, Request, Fits, CountAttempt, Trying
<1>2. PICK s \in Sids : s = req[r].sid
  BY <1>1
<1>3. attempts[s] \in Counter(AttemptMax) /\ wrong[s] \in Nat /\ AttemptMax \in Nat \ {0}
  BY LimitAssumption DEF Types, TypeOK
<1>4. PICK k \in Counter(AttemptMax) : k = Incr(attempts[s], AttemptMax)
  <2>1. now \in Nat /\ AttemptMax \in Nat
    BY LimitAssumption DEF Types, TypeOK
  <2>2. Incr(attempts[s], AttemptMax) \in Counter(AttemptMax)
    BY <1>3, <2>1, CounterTypes
  <2>3. QED
    BY <2>2
<1>5. attempts' = [attempts EXCEPT ![s] = k] /\ UNCHANGED otp
  BY <1>2, <1>4 DEF CountAttempt
<1>6. /\ k.count \in Nat /\ attempts[s].count \in Nat /\ k.expires = attempts[s].expires
      /\ attempts[s].count <= k.count
      /\ k.count <= AttemptMax => k.count = attempts[s].count + 1
      /\ k.count = 1 => attempts[s].count = 0
  BY <1>3, <1>4 DEF Incr, Counter
<1>7. attempts'[s] = k /\ \A x \in Sids \ {s} : attempts'[x] = attempts[x]
  BY <1>5 DEF Types, TypeOK
<1>8. ASSUME NEW x \in Sids \ {s} PROVE CountedAt(x)'
  <2>1. CountedAt(x)
    BY DEF Counted, CountedAt
  <2>2. matched \subseteq matched' /\ wrong'[x] = wrong[x]
    BY <1>1, <1>2, <1>8, CompareMoves DEF CountAttempt
  <2>3. \A q \in Requests \ {r} : req'[q] = req[q]
    BY OwnStep DEF Step
  <2>4. req'[r].sid = s \/ req'[r].pc = "idle"
    BY <1>1, <1>2 DEF CountAttempt, Compare, Goto, Finish, Idle, Request
  <2>5. QED
    BY <1>5, <1>7, <2>1, <2>2, <2>3, <2>4, CountedKept
<1>9. CountedAt(s)'
  <2>1. SUFFICES ASSUME otp[s] # Null, s \notin matched' PROVE CountedAt(s)'
    BY <1>5 DEF CountedAt
  <2>2. s \notin matched
    BY <1>1, <1>2, <2>1, CompareMoves DEF CountAttempt
  <2>3. /\ wrong[s] <= AttemptMax /\ wrong[s] <= attempts[s].count
        /\ \A q \in Requests : req[q].pc = "startAttempts" /\ req[q].sid = s =>
             /\ wrong[s] + 1 <= attempts[s].count /\ wrong[s] + 1 <= AttemptMax
             /\ \A p \in Requests : req[p].pc = "startAttempts" /\ req[p].sid = s => p = q
        /\ attempts[s].expires # Null => attempts[s].expires >= otp[s]
    BY <2>1, <2>2 DEF Counted
  <2>4. CASE k.count = 1 /\ Goto(r, "startAttempts") /\ UNCHANGED <<matched, wrong>>
    <3>1. wrong[s] = 0 /\ \A q \in Requests : ~ (req[q].pc = "startAttempts" /\ req[q].sid = s)
      BY <1>3, <1>6, <2>3, <2>4
    <3>2. \A q \in Requests : req'[q].pc = "startAttempts" /\ req'[q].sid = s => q = r
      BY <1>1, <2>4, <3>1 DEF Goto
    <3>3. QED
      BY <1>3, <1>5, <1>6, <1>7, <2>3, <2>4, <3>1, <3>2 DEF CountedAt
  <2>5. CASE TooMany(k.count) /\ Goto(r, "lock") /\ UNCHANGED <<matched, wrong>>
    <3>1. \A q \in Requests : req'[q].pc = "startAttempts" => q # r /\ req'[q] = req[q]
      BY <1>1, <2>5 DEF Goto, Request
    <3>2. QED
      BY <1>3, <1>5, <1>6, <1>7, <2>3, <2>5, <3>1 DEF CountedAt
  <2>6. CASE ~ TooMany(k.count) /\ Compare(r)
    <3>1. wrong'[s] = wrong[s] + 1 /\ req' = [req EXCEPT ![r] = Idle]
      BY <1>1, <1>2, <2>1, <2>3, <2>6, CompareCounts
    <3>2. \A q \in Requests : req'[q].pc = "startAttempts" => q # r /\ req'[q] = req[q]
      BY <1>1, <3>1 DEF Idle
    <3>3. k.count <= AttemptMax
      BY <1>3, <1>6, <2>6 DEF TooMany
    <3>4. wrong'[s] <= k.count /\ wrong'[s] <= AttemptMax
      BY <1>3, <1>6, <2>3, <3>1, <3>3
    <3>5. \A q \in Requests : req'[q].pc = "startAttempts" /\ req'[q].sid = s =>
            wrong'[s] + 1 <= k.count /\ wrong'[s] + 1 <= AttemptMax
      BY <1>3, <1>6, <2>3, <3>1, <3>2, <3>3
    <3>6. QED
      BY <1>5, <1>6, <1>7, <2>3, <3>2, <3>4, <3>5 DEF CountedAt
  <2>7. QED
    BY <1>2, <1>4, <2>4, <2>5, <2>6 DEF CountAttempt
<1>10. QED
  BY <1>8, <1>9 DEF Counted, CountedAt

\* EXPIRE gives the counter at least the time the OTP has left.
LEMMA StartCounts ==
  ASSUME Types, Lives, Counted, NEW r \in Requests, StartAttempts(r)
  PROVE  Counted'
<1>1. req \in [Requests -> Request] /\ req[r].sid \in Sids /\ req[r].pc = "startAttempts"
  BY DEF Types, TypeOK, Request, Fits, StartAttempts, Trying
<1>2. PICK s \in Sids : s = req[r].sid
  BY <1>1
<1>3. /\ attempts[s] \in Counter(AttemptMax) /\ wrong[s] \in Nat /\ AttemptMax \in Nat \ {0}
      /\ now \in Nat /\ OtpTTL \in Nat
  BY LimitAssumption DEF Types, TypeOK
<1>4. /\ UNCHANGED otp
      /\ attempts'[s] = Expire(attempts[s], OtpTTL)
      /\ \A x \in Sids \ {s} : attempts'[x] = attempts[x]
  BY <1>2 DEF StartAttempts, Types, TypeOK
<1>5. \A q \in Requests \ {r} : req'[q] = req[q]
  BY OwnStep DEF Step
<1>6. Compare(r) /\ req'[r].pc # "startAttempts"
  BY <1>1 DEF StartAttempts, Compare, Goto, Finish, Idle, Request
<1>7. ASSUME NEW x \in Sids \ {s} PROVE CountedAt(x)'
  <2>1. CountedAt(x)
    BY DEF Counted, CountedAt
  <2>2. matched \subseteq matched' /\ wrong'[x] = wrong[x]
    BY <1>1, <1>2, <1>6, <1>7, CompareMoves
  <2>3. QED
    BY <1>4, <1>5, <1>6, <2>1, <2>2, CountedKept
<1>8. CountedAt(s)'
  <2>1. SUFFICES ASSUME otp[s] # Null, s \notin matched' PROVE CountedAt(s)'
    BY <1>4 DEF CountedAt
  <2>2. s \notin matched
    BY <1>1, <1>2, <1>6, <2>1, CompareMoves
  <2>3. /\ wrong[s] <= AttemptMax
        /\ wrong[s] + 1 <= attempts[s].count /\ wrong[s] + 1 <= AttemptMax
        /\ \A p \in Requests : req[p].pc = "startAttempts" /\ req[p].sid = s => p = r
    BY <1>1, <1>2, <2>1, <2>2 DEF Counted
  <2>4. attempts'[s].count = attempts[s].count /\ attempts'[s].expires = now + OtpTTL
    BY <1>3, <1>4, <2>3 DEF Expire, Counter
  <2>5. otp[s] <= now + OtpTTL
    BY <2>1 DEF Lives
  <2>6. wrong'[s] = wrong[s] + 1
    BY <1>1, <1>2, <1>6, <2>1, <2>3, CompareCounts
  <2>7. \A q \in Requests : ~ (req'[q].pc = "startAttempts" /\ req'[q].sid = s)
    BY <1>5, <1>6, <2>3
  <2>8. QED
    BY <1>4, <2>3, <2>4, <2>5, <2>6, <2>7 DEF CountedAt
<1>9. QED
  BY <1>7, <1>8 DEF Counted, CountedAt

\* A fresh OTP has no attempts.
LEMMA FreshCounts ==
  ASSUME Types, Owned, Counted, NEW r \in Requests, SetOtp(r)
  PROVE  Counted'
<1>1. req \in [Requests -> Request] /\ req[r].sid \in Sids /\ req[r].pc \in Sending
  BY DEF Types, TypeOK, Request, Fits, SetOtp, Sending
<1>2. PICK s \in Sids : s = req[r].sid
  BY <1>1
<1>3. UNCHANGED <<attempts, matched, wrong>> /\ \A x \in Sids \ {s} : otp'[x] = otp[x]
  BY <1>2 DEF SetOtp, history, Types, TypeOK
<1>4. /\ \A q \in Requests \ {r} : req'[q] = req[q]
      /\ req'[r].pc # "startAttempts"
  BY <1>1, OwnStep DEF Step, SetOtp, Goto, Request
<1>5. s \notin told /\ attempts[s] = NoCount /\ wrong[s] = 0
  BY <1>1, <1>2 DEF Owned
<1>6. \A q \in Requests : ~ (req'[q].pc = "startAttempts" /\ req'[q].sid = s)
  BY <1>4, <1>5 DEF Owned, Trying
<1>7. CountedAt(s)'
  BY <1>3, <1>5, <1>6, LimitAssumption DEF CountedAt, NoCount
<1>8. ASSUME NEW x \in Sids \ {s} PROVE CountedAt(x)'
  <2>1. CountedAt(x)
    BY DEF Counted, CountedAt
  <2>2. QED
    BY <1>3, <1>4, <2>1, CountedKept
<1>9. QED
  BY <1>7, <1>8 DEF Counted, CountedAt

\* A counter does not run out before its OTP.
LEMMA TimeCounts ==
  ASSUME Types, Lives, Counted, Tick
  PROVE  Counted'
<1>1. ASSUME NEW s \in Sids PROVE CountedAt(s)'
  <2>1. CountedAt(s)
    BY DEF Counted, CountedAt
  <2>2. UNCHANGED <<req, matched, wrong>>
    BY DEF Tick, history
  <2>3. SUFFICES ASSUME otp'[s] # Null, s \notin matched PROVE CountedAt(s)'
    BY <2>2 DEF CountedAt
  <2>4. otp'[s] = otp[s] /\ otp[s] # now + 1
    BY <2>3 DEF Tick
  <2>5. otp[s] \in Nat /\ now < otp[s] /\ now \in Nat
    BY <2>3, <2>4, LimitAssumption DEF Lives, Types, TypeOK
  <2>6. attempts[s].expires # Null => attempts[s].expires >= otp[s] /\ attempts[s].expires \in Nat
    BY <2>1, <2>3, <2>4 DEF CountedAt, Types, TypeOK, Counter
  <2>7. ~ RunOut(attempts[s])
    BY <2>4, <2>5, <2>6 DEF RunOut
  <2>8. attempts'[s] = attempts[s]
    BY <2>7 DEF Tick
  <2>9. QED
    BY <2>1, <2>2, <2>4, <2>8, CountedKept
<1>2. QED
  BY <1>1 DEF Counted, CountedAt

\* A command carried out twice counts an attempt too many or lengthens the
\* counter's life; neither frees a comparison.
LEMMA LostCounts ==
  ASSUME Types, Begun, Owned, Lives, Counted, NEW r \in Requests, ReplyLost(r)
  PROVE  Counted'
<1>1. UNCHANGED <<req, matched, wrong, now, told>>
  BY DEF ReplyLost, history
<1>2. /\ now \in Nat /\ OtpTTL \in Nat /\ AttemptMax \in Nat
      /\ attempts \in [Sids -> Counter(AttemptMax)] /\ wrong \in [Sids -> 0..(AttemptMax + 1)]
      /\ Fits(req[r])
  BY LimitAssumption DEF Types, TypeOK
<1>3. ASSUME NEW s \in Sids PROVE CountedAt(s)'
  <2>1. CountedAt(s)
    BY DEF Counted, CountedAt
  <2>2. SUFFICES ASSUME otp'[s] # Null, s \notin matched PROVE CountedAt(s)'
    BY <1>1 DEF CountedAt
  <2>3. CASE otp'[s] = otp[s] /\ attempts'[s] = attempts[s]
    BY <1>1, <2>1, <2>3 DEF CountedAt
  <2>4. CASE otp'[s] # otp[s]
    <3>1. req[r].pc = "setOtp" /\ req[r].sid = s /\ attempts' = attempts
      BY <2>2, <2>4 DEF ReplyLost, Types, TypeOK
    <3>2. s \notin told
      BY <3>1 DEF Owned, Sending
    <3>3. attempts[s] = NoCount /\ wrong[s] = 0
          /\ \A q \in Requests : ~ (req[q].pc = "startAttempts" /\ req[q].sid = s)
      BY <3>2 DEF Owned, Trying
    <3>4. QED
      BY <1>1, <1>2, <3>1, <3>3 DEF CountedAt, NoCount
  <2>5. CASE otp'[s] = otp[s] /\ attempts'[s] # attempts[s]
    <3>1. req[r].sid = s /\ req[r].pc \in {"countAttempt", "startAttempts", "clear"}
      BY <2>5 DEF ReplyLost, Types, TypeOK
    <3>2. req[r].pc # "clear"
      BY <2>2, <3>1 DEF Begun
    <3>3. otp[s] <= now + OtpTTL
      BY <2>2, <2>5 DEF Lives
    <3>4. /\ attempts'[s].count >= attempts[s].count
          /\ \/ attempts'[s].expires = attempts[s].expires
             \/ attempts'[s].expires = now + OtpTTL
      <4>1. CASE req[r].pc = "countAttempt"
        <5>1. attempts'[s] = Incr(attempts[s], AttemptMax)
          BY <1>2, <3>1, <4>1 DEF ReplyLost
        <5>2. QED
          BY <1>2, <5>1 DEF Incr, Counter
      <4>2. CASE req[r].pc = "startAttempts"
        <5>1. attempts'[s] = Expire(attempts[s], OtpTTL)
          BY <1>2, <3>1, <4>2 DEF ReplyLost
        <5>2. QED
          BY <1>2, <5>1 DEF Expire, Counter
      <4>3. QED
        BY <3>1, <3>2, <4>1, <4>2
    <3>5. attempts'[s].count \in Nat /\ attempts[s].count \in Nat /\ wrong[s] \in Nat
      <4>1. attempts' \in [Sids -> Counter(AttemptMax)]
        BY LostTypes DEF Types, TypeOK
      <4>2. QED
        BY <1>2, <4>1 DEF Counter
    <3>6. /\ wrong[s] <= AttemptMax /\ wrong[s] <= attempts'[s].count
          /\ attempts'[s].expires # Null => attempts'[s].expires >= otp[s]
      BY <1>2, <2>1, <2>2, <2>5, <3>3, <3>4, <3>5 DEF CountedAt
    <3>7. \A q \in Requests : req[q].pc = "startAttempts" /\ req[q].sid = s =>
            /\ wrong[s] + 1 <= attempts'[s].count /\ wrong[s] + 1 <= AttemptMax
            /\ \A p \in Requests : req[p].pc = "startAttempts" /\ req[p].sid = s => p = q
      BY <1>2, <2>1, <2>2, <2>5, <3>4, <3>5 DEF CountedAt
    <3>8. QED
      BY <1>1, <2>5, <3>6, <3>7 DEF CountedAt
  <2>6. QED
    BY <2>3, <2>4, <2>5
<1>4. QED
  BY <1>3 DEF Counted, CountedAt

\* Every step keeps the comparisons counted.
LEMMA CountedStep ==
  Types /\ Begun /\ Owned /\ Lives /\ Counted /\ [Next]_vars => Counted'
<1> SUFFICES ASSUME Types, Begun, Owned, Lives, Counted, [Next]_vars PROVE Counted'
  OBVIOUS
<1>1. ASSUME NEW r \in Requests, Arrive(r) \/ Step(r) \/ Abort(r) PROVE Counted'
  BY <1>1, OthersCount, AttemptCounts, StartCounts, FreshCounts
<1>2. CASE Tick \/ \E r \in Requests : ReplyLost(r)
  BY <1>2, TimeCounts, LostCounts
<1>3. CASE UNCHANGED vars
  BY <1>3 DEF vars, store, history, Counted
<1>4. QED
  BY <1>1, <1>2, <1>3 DEF Next

-----------------------------------------------------------------------------
(* The limit on requests                                                   *)

\* A set that gains at most one element.
LEMMA OneMore ==
  ASSUME NEW S, IsFiniteSet(S), NEW x, NEW T, T \subseteq S \cup {x}
  PROVE  IsFiniteSet(T) /\ Cardinality(T) <= Cardinality(S) + 1
         /\ Cardinality(S) \in Nat /\ Cardinality(T) \in Nat
<1>1. IsFiniteSet(S \cup {x}) /\ Cardinality(S) \in Nat
      /\ Cardinality(S \cup {x}) <= Cardinality(S) + 1
  <2>1. Cardinality(S) \in Nat
    BY FS_CardinalityType
  <2>2. IsFiniteSet(S \cup {x})
        /\ Cardinality(S \cup {x}) = IF x \in S THEN Cardinality(S) ELSE Cardinality(S) + 1
    BY FS_AddElement
  <2>3. QED
    BY <2>1, <2>2
<1>2. IsFiniteSet(T) /\ Cardinality(T) <= Cardinality(S \cup {x})
  BY <1>1, FS_Subset
<1>3. Cardinality(T) \in Nat /\ Cardinality(S \cup {x}) \in Nat
  BY <1>1, <1>2, FS_CardinalityType
<1>4. QED
  BY <1>1, <1>2, <1>3

\* A set that gains nothing.
LEMMA NoMore ==
  ASSUME NEW S, IsFiniteSet(S), NEW T, T \subseteq S
  PROVE  IsFiniteSet(T) /\ Cardinality(T) <= Cardinality(S)
         /\ Cardinality(S) \in Nat /\ Cardinality(T) \in Nat
<1>1. IsFiniteSet(T) /\ Cardinality(T) <= Cardinality(S)
  BY FS_Subset
<1>2. QED
  BY <1>1, FS_CardinalityType

\* The sets that are counted are finite.
LEMMA PacedSets ==
  ASSUME NEW e \in Emails, Paced(e)
  PROVE  /\ IsFiniteSet(Recent(e)) /\ Cardinality(Recent(e)) \in Nat
         /\ IsFiniteSet(Late(e)) /\ Cardinality(Late(e)) \in Nat
<1>1. Recent(e) \subseteq Sent(e) /\ Late(e) \subseteq Sent(e) /\ IsFiniteSet(Sent(e))
  BY DEF Recent, Sent, Late, Paced
<1>2. QED
  BY <1>1, NoMore

\* What the parts of the proof need of the types.
LEMMA PacedTypes ==
  ASSUME Types, NEW e \in Emails
  PROVE  /\ now \in Nat /\ rate[e].count \in 0..(RateMax + 1)
         /\ rate[e].expires \in Nat \cup {Null}
         /\ RateMax \in Nat \ {0} /\ RateWindow \in Nat \ {0} /\ Null \notin Nat
         /\ Allowed(rate[e]) \in 0..RateMax
         /\ \A s \in Sent(e) : s \in Sids /\ started[s] # Null /\ started[s].at \in Nat
BY LimitAssumption, NullAssumption DEF Types, TypeOK, Counter, Allowed, Sent

\* Nothing that counts for e changes.
LEMMA PacedSame ==
  ASSUME NEW e \in Emails, Paced(e), rate'[e] = rate[e], now' = now, started' = started
  PROVE  Paced(e)'
BY DEF Paced, Sent, Recent, Late, Allowed

\* A request is counted: over the limit it is refused, else one more is let
\* through and the count has grown.
LEMMA CountPaced ==
  ASSUME Types, NEW e \in Emails, Paced(e), NEW r \in Requests, CountSend(r)
  PROVE  Paced(e)'
<1>1. /\ now \in Nat /\ rate[e].count \in 0..(RateMax + 1) /\ rate[e].expires \in Nat \cup {Null}
      /\ RateMax \in Nat \ {0} /\ RateWindow \in Nat \ {0} /\ Null \notin Nat
      /\ Allowed(rate[e]) \in 0..RateMax
  BY PacedTypes
<1>2. req[r].email \in Emails /\ now' = now
  BY DEF CountSend, Types, Fits
<1> DEFINE k == Incr(rate[req[r].email], RateMax)
<1>3. rate' = [rate EXCEPT ![req[r].email] = k] /\ rate \in [Emails -> Counter(RateMax)]
  BY DEF CountSend, Types, TypeOK
<1>4. started \in [Sids -> [email: Emails, at: Nat] \cup {Null}]
  BY DEF Types, TypeOK
<1>5. CASE OverLimit(k.count) /\ started' = started
  <2>1. CASE req[r].email # e
    <3>1. rate'[e] = rate[e]
      BY <1>2, <1>3, <2>1
    <3>2. QED
      BY <1>2, <1>5, <3>1, PacedSame
  <2>2. CASE req[r].email = e
    <3>1. k.expires = rate[e].expires /\ Allowed(k) = Allowed(rate[e])
      BY <1>1, <1>3, <1>5, <2>2 DEF Incr, Counter, OverLimit, Allowed
    <3>2. rate'[e] = k
      BY <1>2, <1>3, <2>2
    <3> HIDE DEF k
    <3>3. Recent(e)' = Recent(e) /\ Sent(e)' = Sent(e) /\ Late(e)' = Late(e)
      BY <1>2, <1>5, <3>1, <3>2 DEF Recent, Sent, Late
    <3>4. QED
      BY <1>2, <1>5, <3>1, <3>2, <3>3 DEF Paced
  <2>3. QED
    BY <2>1, <2>2
<1>6. CASE ~ OverLimit(k.count) /\ started' # started
  <2>1. PICK s \in Sids : /\ started[s] = Null
                          /\ started' = [started EXCEPT ![s] = [email |-> req[r].email, at |-> now]]
    BY <1>6 DEF CountSend
  <2>2. \A x \in Sids : started'[x] = IF x = s THEN [email |-> req[r].email, at |-> now]
                                      ELSE started[x]
    BY <1>4, <2>1
  <2>3. CASE req[r].email # e
    <3>1. rate'[e] = rate[e]
      BY <1>2, <1>3, <2>3
    <3>2. Sent(e)' = Sent(e) /\ \A x \in Sent(e) : x # s /\ started'[x] = started[x]
      BY <2>1, <2>2, <2>3 DEF Sent
    <3>3. Recent(e)' = Recent(e)
      BY <1>2, <2>1, <2>2, <2>3 DEF Recent
    <3>4. Late(e)' = Late(e)
      BY <3>1, <3>2 DEF Late
    <3>5. \A x \in Sent(e) : started'[x].at <= now'
      BY <1>2, <3>2 DEF Paced
    <3>6. QED
      BY <1>2, <3>1, <3>2, <3>3, <3>4, <3>5 DEF Paced
  <2>4. CASE req[r].email = e
    <3>1. k.expires = rate[e].expires /\ Allowed(k) = Allowed(rate[e]) + 1
      BY <1>1, <1>3, <1>6, <2>4 DEF Incr, Counter, OverLimit, Allowed
    <3>2. rate'[e] = k
      BY <1>2, <1>3, <2>4
    <3> HIDE DEF k
    <3>3. /\ Sent(e)' \subseteq Sent(e) \cup {s} /\ Recent(e)' \subseteq Recent(e) \cup {s}
          /\ Late(e)' \subseteq Late(e) \cup {s}
      BY <1>2, <2>2, <3>1, <3>2 DEF Sent, Recent, Late
    <3>4. /\ IsFiniteSet(Sent(e)) /\ IsFiniteSet(Recent(e)) /\ IsFiniteSet(Late(e))
          /\ Cardinality(Recent(e)) \in Nat /\ Cardinality(Late(e)) \in Nat
      BY PacedSets DEF Paced
    <3>5. /\ IsFiniteSet(Sent(e)')
          /\ Cardinality(Recent(e)') <= Cardinality(Recent(e)) + 1 /\ Cardinality(Recent(e)') \in Nat
          /\ Cardinality(Late(e)') <= Cardinality(Late(e)) + 1 /\ Cardinality(Late(e)') \in Nat
      <4>1. QED
        BY <3>3, <3>4, OneMore
    <3>6. \A x \in Sent(e)' : started'[x].at <= now'
      BY <1>1, <1>2, <2>2, <3>3 DEF Paced, Sent
    <3>7. Cardinality(Recent(e)') <= RateMax - 1 + Allowed(rate'[e])
      BY <1>1, <3>1, <3>2, <3>4, <3>5 DEF Paced
    <3>8. rate'[e].expires # Null =>
            now' < rate'[e].expires /\ Cardinality(Late(e)') <= Allowed(rate'[e]) - 1
      BY <1>1, <1>2, <3>1, <3>2, <3>4, <3>5 DEF Paced
    <3>9. QED
      BY <3>5, <3>6, <3>7, <3>8 DEF Paced
  <2>5. QED
    BY <2>3, <2>4
<1>7. (OverLimit(k.count) /\ started' = started) \/ (~ OverLimit(k.count) /\ started' # started)
  <2>1. CASE OverLimit(k.count)
    BY <2>1 DEF CountSend
  <2>2. CASE ~ OverLimit(k.count)
    <3>1. PICK s \in Sids : /\ started[s] = Null
                            /\ started' = [started EXCEPT ![s] = [email |-> req[r].email, at |-> now]]
      BY <2>2 DEF CountSend
    <3>2. started'[s] # Null
      BY <1>1, <1>2, <1>4, <3>1, NullAssumption
    <3>3. QED
      BY <2>2, <3>1, <3>2
  <2>3. QED
    BY <2>1, <2>2
<1>8. QED
  BY <1>5, <1>6, <1>7

\* The TTL is set: nothing was let through after this point in time.
LEMMA StartPaced ==
  ASSUME Types, NEW e \in Emails, Paced(e), NEW r \in Requests, req[r].pc = "startWindow",
         rate' = [rate EXCEPT ![req[r].email] = Expire(@, RateWindow)],
         UNCHANGED <<now, started>>
  PROVE  Paced(e)'
<1>1. /\ now \in Nat /\ rate[e].count \in 0..(RateMax + 1)
      /\ RateMax \in Nat \ {0} /\ RateWindow \in Nat \ {0}
      /\ \A s \in Sent(e) : started[s].at \in Nat
  BY PacedTypes
<1>2. now' = now /\ started' = started /\ req[r].email \in Emails
  BY DEF Types, Fits, Sending
<1>3. CASE rate'[e] = rate[e]
  BY <1>2, <1>3, PacedSame
<1>4. CASE rate'[e] # rate[e]
  <2>1. /\ rate[e].count # 0 /\ rate'[e].count = rate[e].count
        /\ rate'[e].expires = now + RateWindow
    BY <1>2, <1>4 DEF Expire, Types, TypeOK, Counter
  <2>2. Sent(e)' = Sent(e) /\ Recent(e)' = Recent(e)
    BY <1>2 DEF Sent, Recent
  <2>3. Late(e)' = {}
    BY <1>1, <1>2, <2>1, <2>2 DEF Late, Paced
  <2>4. Cardinality(Late(e)') = 0
    BY <2>3, FS_EmptySet
  <2>5. Allowed(rate'[e]) = Allowed(rate[e]) /\ Allowed(rate[e]) >= 1
    BY <1>1, <2>1 DEF Allowed
  <2>6. Cardinality(Late(e)') <= Allowed(rate'[e]) - 1
    BY <1>1, <2>4, <2>5 DEF Allowed
  <2>7. QED
    BY <1>1, <1>2, <2>1, <2>2, <2>5, <2>6 DEF Paced
<1>5. QED
  BY <1>3, <1>4

\* INCR once too often: the count only gets closer to the limit.
LEMMA LostPaced ==
  ASSUME Types, NEW e \in Emails, Paced(e), NEW r \in Requests, req[r].pc = "countSend",
         rate' = [rate EXCEPT ![req[r].email] = Incr(@, RateMax)],
         UNCHANGED <<now, started>>
  PROVE  Paced(e)'
<1>1. /\ rate[e].count \in 0..(RateMax + 1) /\ RateMax \in Nat \ {0}
      /\ Cardinality(Recent(e)) \in Nat /\ Cardinality(Late(e)) \in Nat
  BY PacedTypes, PacedSets
<1>2. CASE rate'[e] = rate[e]
  BY <1>2, PacedSame
<1>3. CASE rate'[e] # rate[e]
  <2>1. rate'[e] = Incr(rate[e], RateMax)
    BY <1>3 DEF Types, TypeOK
  <2>2. /\ rate'[e].expires = rate[e].expires
        /\ Allowed(rate'[e]) >= Allowed(rate[e])
        /\ Allowed(rate'[e]) \in Nat /\ Allowed(rate[e]) \in Nat
    BY <1>1, <2>1 DEF Incr, Allowed, Types, TypeOK, Counter
  <2>3. Recent(e)' = Recent(e) /\ Sent(e)' = Sent(e) /\ Late(e)' = Late(e)
    BY <2>2 DEF Recent, Sent, Late
  <2>4. Cardinality(Recent(e)') <= RateMax - 1 + Allowed(rate'[e])
    BY <1>1, <2>2, <2>3 DEF Paced
  <2>5. rate'[e].expires # Null =>
          now' < rate'[e].expires /\ Cardinality(Late(e)') <= Allowed(rate'[e]) - 1
    BY <1>1, <2>2, <2>3 DEF Paced
  <2>6. QED
    BY <2>3, <2>4, <2>5 DEF Paced
<1>4. QED
  BY <1>2, <1>3

\* Time passes: what was recent gets older, and when the counter runs out only
\* the late ones are recent.
LEMMA TickPaced ==
  ASSUME Types, NEW e \in Emails, Paced(e), Tick
  PROVE  Paced(e)'
<1>1. /\ now \in Nat /\ rate[e].count \in 0..(RateMax + 1) /\ rate[e].expires \in Nat \cup {Null}
      /\ RateMax \in Nat \ {0} /\ RateWindow \in Nat \ {0} /\ Null \notin Nat
      /\ Allowed(rate[e]) \in 0..RateMax
      /\ \A s \in Sent(e) : started[s].at \in Nat
  BY PacedTypes
<1>2. now' = now + 1 /\ started' = started
  BY DEF Tick, history
<1>3. rate'[e] = IF RunOut(rate[e]) THEN NoCount ELSE rate[e]
  BY DEF Tick
<1>4. Sent(e)' = Sent(e) /\ \A s \in Sent(e) : started'[s].at <= now'
  BY <1>1, <1>2 DEF Sent, Paced
<1>5. Recent(e)' \subseteq Recent(e)
  BY <1>1, <1>2 DEF Recent, Sent
<1>6. /\ IsFiniteSet(Recent(e)) /\ Cardinality(Recent(e)) \in Nat
      /\ IsFiniteSet(Late(e)) /\ Cardinality(Late(e)) \in Nat
  BY PacedSets
<1>7. CASE RunOut(rate[e])
  <2>1. rate[e].expires = now + 1
    BY <1>1, <1>7 DEF RunOut, Paced
  <2>2. Recent(e)' \subseteq Late(e)
    BY <1>1, <1>2, <2>1 DEF Recent, Late, Sent
  <2>3. Cardinality(Recent(e)') <= Cardinality(Late(e)) /\ Cardinality(Recent(e)') \in Nat
    <3>1. QED
      BY <1>6, <2>2, NoMore
  <2>4. Cardinality(Late(e)) <= Allowed(rate[e]) - 1
    BY <1>1, <2>1 DEF Paced
  <2>5. rate'[e].expires = Null /\ Allowed(rate'[e]) = 0
    BY <1>1, <1>3, <1>7 DEF NoCount, Allowed
  <2>6. QED
    BY <1>1, <1>4, <1>6, <2>3, <2>4, <2>5 DEF Paced
<1>8. CASE ~ RunOut(rate[e])
  <2>1. Cardinality(Recent(e)') <= Cardinality(Recent(e)) /\ Cardinality(Recent(e)') \in Nat
    <3>1. QED
      BY <1>5, <1>6, NoMore
  <2>2. rate'[e] = rate[e] /\ Late(e)' = Late(e)
    BY <1>2, <1>3, <1>4, <1>8 DEF Late
  <2>3. rate[e].expires # Null => now' < rate[e].expires
    BY <1>1, <1>2, <1>8 DEF RunOut
  <2>4. QED
    BY <1>1, <1>4, <1>6, <2>1, <2>2, <2>3 DEF Paced
<1>9. QED
  BY <1>7, <1>8

\* The other steps touch neither the counters of the emails nor the requests
\* let through.
LEMMA PacedStep ==
  Types /\ (\A e \in Emails : Paced(e)) /\ [Next]_vars => \A e \in Emails : Paced(e)'
<1> SUFFICES ASSUME Types, [Next]_vars, NEW e \in Emails, Paced(e) PROVE Paced(e)'
  OBVIOUS
<1>1. CASE \E r \in Requests : CountSend(r)
  BY <1>1, CountPaced
<1>2. ASSUME NEW r \in Requests, StartWindow(r) PROVE Paced(e)'
  BY <1>2, StartPaced DEF StartWindow, history
<1>3. CASE Tick
  BY <1>3, TickPaced
<1>4. CASE rate' = rate /\ now' = now /\ started' = started
  BY <1>4, PacedSame
<1>5. ASSUME NEW r \in Requests, ReplyLost(r) PROVE Paced(e)'
  <2>1. UNCHANGED <<now, started>>
    BY <1>5 DEF ReplyLost, history
  <2>2. \/ rate' = rate
        \/ /\ req[r].pc = "startWindow"
           /\ rate' = [rate EXCEPT ![req[r].email] = Expire(@, RateWindow)]
        \/ /\ req[r].pc = "countSend"
           /\ rate' = [rate EXCEPT ![req[r].email] = Incr(@, RateMax)]
    BY <1>5 DEF ReplyLost
  <2>3. QED
    BY <2>1, <2>2, PacedSame, StartPaced, LostPaced
<1>6. QED
  BY <1>1, <1>2, <1>3, <1>4, <1>5
  DEF Next, Arrive, Step, SendOtp, SetOtp, SetReg, Publish, PublishFails, Delete, VerifyOtp,
      CountAttempt, StartAttempts, Lock, Clear, GetReg, Create, Abort, store, history, vars

-----------------------------------------------------------------------------
(* The theorems                                                            *)

\* The invariant is inductive, for any limits, TTLs and number of requests.
THEOREM Invariant == Spec => []IInv
<1>1. IInv /\ [Next]_vars => IInv'
  BY TypesStep, BegunStep, OwnedStep, LivesStep, CountedStep DEF IInv
<1>2. QED
  BY <1>1, InitIInv, PTL DEF Spec

\* Every key, row and request has the shape the handlers use.
THEOREM TypeCorrect == Spec => []TypeOK
<1>1. IInv => TypeOK
  BY DEF IInv, Types
<1>2. QED
  BY <1>1, Invariant, PTL

\* verifyAndRegister: no OTP that can still be typed was compared with more than
\* OTP_ATTEMPT_LIMIT wrong ones, whatever requests run in parallel.
THEOREM AttemptsLimited == Spec => []AttemptsBounded
<1>1. IInv => AttemptsBounded
  BY DEF IInv, Counted, AttemptsBounded
<1>2. QED
  BY <1>1, Invariant, PTL

\* sendOtp: the two keys of a session run out together, or the OTP first.
THEOREM RegistrationLives == Spec => []RegistrationOutlivesOtp
<1>1. IInv => RegistrationOutlivesOtp
  BY DEF IInv, Types, TypeOK, Lives, Complete, RegistrationOutlivesOtp
<1>2. QED
  BY <1>1, Invariant, PTL

\* storeOtp: however late EXPIRE comes after INCR, less than twice the limit of
\* requests for an email is let through in any RateWindow.
THEOREM SendsLimited == Spec => []SendsBounded
<1> DEFINE PInv == \A e \in Emails : Paced(e)
<1>1. Init => PInv
  <2> SUFFICES ASSUME Init, NEW e \in Emails PROVE Paced(e)
    OBVIOUS
  <2>1. Sent(e) = {} /\ Recent(e) = {} /\ rate[e] = NoCount
    BY DEF Init, Sent, Recent
  <2>2. IsFiniteSet({}) /\ Cardinality({}) = 0
    BY FS_EmptySet
  <2>3. QED
    BY <2>1, <2>2, LimitAssumption DEF Paced, NoCount, Allowed
<1>2. IInv /\ PInv /\ [Next]_vars => PInv'
  BY PacedStep DEF IInv
<1>3. IInv /\ PInv => SendsBounded
  <2> SUFFICES ASSUME Types, PInv, NEW e \in Emails
               PROVE  Cardinality(Recent(e)) < 2 * RateMax
    BY DEF IInv, SendsBounded
  <2>1. /\ Cardinality(Recent(e)) \in Nat
        /\ Cardinality(Recent(e)) <= RateMax - 1 + Allowed(rate[e])
    BY PacedSets DEF Paced
  <2>2. Allowed(rate[e]) \in 0..RateMax /\ RateMax \in Nat
    BY PacedTypes
  <2>3. QED
    BY <2>1, <2>2
<1>4. QED
  BY <1>1, <1>2, <1>3, Invariant, PTL DEF Spec

\* sendOtp: nobody is told that an OTP is on the way before Kafka has the event.
THEOREM PublishedBeforeTold == Spec => []ToldIsPublished
<1>1. Init => ToldIsPublished
  BY DEF Init, ToldIsPublished
<1>2. ToldIsPublished /\ [Next]_vars => ToldIsPublished'
  BY DEF ToldIsPublished, Next, Arrive, Step, SendOtp, CountSend, StartWindow, SetOtp, SetReg,
         Publish, PublishFails, Delete, VerifyOtp, CountAttempt, StartAttempts, Lock, Clear,
         GetReg, Create, Abort, ReplyLost, Tick, history, vars
<1>3. QED
  BY <1>1, <1>2, PTL DEF Spec

\* createUser: a row comes from a session whose OTP was typed right, for its own
\* email, and is never replaced.
THEOREM UsersMatched == Spec => UserMatchedOtp
<1> DEFINE Match == \A e \in Emails : user'[e] # user[e] =>
       /\ user[e] = Null
       /\ user'[e] \in matched /\ started[user'[e]].email = e
<1>1. ASSUME Types, Begun, NEW r \in Requests, Create(r) PROVE Match
  <2>1. req[r].email \in Emails /\ req[r].sid \in matched
        /\ started[req[r].sid].email = req[r].email
    BY <1>1 DEF Create, Types, Fits, Begun
  <2>2. QED
    BY <1>1, <2>1 DEF Create, EmailTaken, Types, TypeOK
<1>2. Next /\ user' # user => \E r \in Requests : Create(r)
  BY DEF Next, Arrive, Step, SendOtp, CountSend, StartWindow, SetOtp, SetReg, Publish,
         PublishFails, Delete, VerifyOtp, CountAttempt, StartAttempts, Lock, Clear, GetReg,
         Abort, ReplyLost, Tick, store
<1>3. IInv /\ [Next]_vars => [Match]_vars
  <2>1. ASSUME IInv, Next, user' # user PROVE Match
    BY <1>1, <1>2, <2>1 DEF IInv
  <2>2. user' = user => Match
    OBVIOUS
  <2>3. QED
    BY <2>1, <2>2
<1>4. QED
  BY <1>3, Invariant, PTL DEF Spec, UserMatchedOtp
=============================================================================
