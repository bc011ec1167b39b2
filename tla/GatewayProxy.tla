---------------------------- MODULE GatewayProxy ----------------------------
(***************************************************************************)
(* api-gateway: createProxy, a proxied request inside the circuit breaker  *)
(* of its upstream, from its wait for the rate limiter's Redis call on.    *)
(*                                                                         *)
(* Four parties write to one exchange: the upstream through the proxy      *)
(* library, the library itself (its own answer when the upstream cannot be *)
(* reached), the client that leaves, and the handler when execute throws.  *)
(* The library, http-proxy-middleware, is external: it passes the          *)
(* upstream's head and body on, answers 502 or 504 when the request fails  *)
(* before a head, and leaves a response alone that has ended.  A body that *)
(* breaks off is one that never ends.                                      *)
(*                                                                         *)
(* A client that leaves while its request is at the limiter does so before *)
(* createProxy listens for "close".  Nothing that happens to the response  *)
(* afterwards is an event (this is node:http's, external): only the        *)
(* breaker's timer ends the call.                                          *)
(*                                                                         *)
(* A socket's event or a timer settles execute; the handler's continuation *)
(* is a microtask and runs before any other of them (Quiet).               *)
(***************************************************************************)
EXTENDS CircuitBreaker

VARIABLES
  exch,  \* exch[c]: the request in the slot c of the breaker
  dead   \* history: failures of the upstream since it last answered

pvars == <<vars, exch, dead>>

\* pc: where the handler is; outcome: how execute ended; head: who wrote the
\* response's head; res: the response; up: the request to the upstream.
NoExchange ==
  [pc |-> "idle", outcome |-> "none", head |-> "nobody", res |-> "open", up |-> "unasked"]

HeadersSent(c) == exch[c].head # "nobody"

Quiet == \A c \in Calls : exch[c].pc # "settled"

\* The response is open and the upstream at work on it.
Pending(c) == Quiet /\ exch[c].up = "asked" /\ exch[c].res = "open"

-----------------------------------------------------------------------------
(* The rate limiter and the handler                                        *)

\* The request waits for the limiter's Redis call.
Arrive(c) ==
  /\ Quiet /\ exch[c].pc = "idle"
  /\ exch' = [exch EXCEPT ![c].pc = "limiting"]
  /\ UNCHANGED <<vars, dead>>

LeaveEarly(c) ==
  /\ Quiet /\ exch[c].pc = "limiting" /\ exch[c].res = "open"
  /\ exch' = [exch EXCEPT ![c].res = "gone"]
  /\ UNCHANGED <<vars, dead>>

\* The limiter answers 429.
Deny(c) ==
  /\ Quiet /\ exch[c].pc = "limiting"
  /\ exch' = [exch EXCEPT ![c] = NoExchange]
  /\ UNCHANGED <<vars, dead>>

\* Slip: the request is forwarded before the breaker is asked.
RequestForwarding(c) ==
  /\ Quiet /\ exch[c].pc = "limiting"
  /\ Execute(c)
  /\ exch' = [exch EXCEPT ![c] = IF call'[c].kind = "none"
                THEN [exch[c] EXCEPT !.pc = "settled", !.outcome = "open", !.up = "asked"]
                ELSE [exch[c] EXCEPT !.pc = "waiting", !.up = "asked"]]
  /\ UNCHANGED dead

\* The limiter lets it pass (also when Redis fails), and breaker.execute runs up
\* to the call of proxy: either it is forwarded, or execute throws
\* CircuitOpenError.
Request(c) ==
  /\ Quiet /\ exch[c].pc = "limiting"
  /\ Execute(c)
  /\ exch' = [exch EXCEPT ![c] = IF call'[c].kind = "none"
                THEN [exch[c] EXCEPT !.pc = "settled", !.outcome = "open"]
                ELSE [exch[c] EXCEPT !.pc = "waiting", !.up = "asked"]]
  /\ UNCHANGED dead

\* done() on "finish" and "close": execute succeeds, unless it has timed out.
Report(c) ==
  IF exch[c].pc = "waiting" THEN Succeed(c) ELSE UNCHANGED vars

\* What the exchange is after that event.
Reported(c, head, res, up) ==
  exch' = [exch EXCEPT ![c] =
    [pc |-> IF exch[c].pc = "waiting" THEN "settled" ELSE exch[c].pc,
     outcome |-> IF exch[c].pc = "waiting" THEN "ok" ELSE exch[c].outcome,
     head |-> IF HeadersSent(c) THEN exch[c].head ELSE head,
     res |-> res, up |-> up]]

\* proxy gives the request back with an error, before it has asked: done(err).
Refused(c) ==
  /\ Pending(c) /\ exch[c].pc = "waiting" /\ ~ HeadersSent(c)
  /\ Fail(c)
  /\ exch' = [exch EXCEPT ![c].pc = "settled", ![c].outcome = "error", ![c].up = "unasked"]
  /\ UNCHANGED dead

\* withTimeout rejects; the request to the upstream goes on.
TimesOut(c) ==
  /\ Quiet /\ exch[c].pc = "waiting"
  /\ Timeout(c)
  /\ exch' = [exch EXCEPT ![c].pc = "settled", ![c].outcome = "timeout"]
  /\ UNCHANGED dead

\* getState for the log.
Look == GetState \/ (~ Recovered /\ UNCHANGED vars)

\* Slip: a timeout is only logged.
ContinueSilent(c) ==
  /\ exch[c].pc = "settled"
  /\ Look
  /\ exch' = [exch EXCEPT ![c] =
       IF exch[c].outcome \in {"open", "error"} /\ ~ HeadersSent(c)
       THEN [exch[c] EXCEPT !.pc = "over", !.head = "gateway", !.res = "ended"]
       ELSE [exch[c] EXCEPT !.pc = "over"]]
  /\ UNCHANGED dead

\* Slip: res.headersSent is not checked.
ContinueOverwriting(c) ==
  /\ exch[c].pc = "settled"
  /\ Look
  /\ exch' = [exch EXCEPT ![c] =
       IF exch[c].outcome # "ok"
       THEN [exch[c] EXCEPT !.pc = "over", !.head = "gateway", !.res = "ended"]
       ELSE [exch[c] EXCEPT !.pc = "over"]]
  /\ UNCHANGED dead

\* After execute: a log line, and the gateway's own 503, 504 or 500 if execute
\* threw and no head has been sent.
Continue(c) ==
  /\ exch[c].pc = "settled"
  /\ Look
  /\ exch' = [exch EXCEPT ![c] =
       IF exch[c].outcome # "ok" /\ ~ HeadersSent(c)
       THEN [exch[c] EXCEPT !.pc = "over", !.head = "gateway", !.res = "ended"]
       ELSE [exch[c] EXCEPT !.pc = "over"]]
  /\ UNCHANGED dead

\* The exchange is over on both sides.
Leave(c) ==
  /\ Quiet /\ exch[c].pc = "over" /\ exch[c].res # "open"
  /\ exch' = [exch EXCEPT ![c] = NoExchange]
  /\ UNCHANGED <<vars, dead>>

-----------------------------------------------------------------------------
(* The upstream, the library and the client                                *)

UpstreamBegins(c) ==
  /\ Pending(c) /\ ~ HeadersSent(c)
  /\ exch' = [exch EXCEPT ![c].head = "upstream"]
  /\ UNCHANGED <<vars, dead>>

\* The answer is complete, whatever its status.
UpstreamAnswers(c) ==
  /\ Pending(c)
  /\ Report(c)
  /\ Reported(c, "upstream", "ended", "answered")
  /\ dead' = 0

\* The upstream cannot be reached: the library answers in its place.
UpstreamFails(c) ==
  /\ Pending(c) /\ ~ HeadersSent(c)
  /\ Report(c)
  /\ Reported(c, "library", "ended", "failed")
  /\ dead' = SmallerOf(dead + 1, FailureThreshold)

\* Slip: no listener on "close".
ClientLeavesUnnoticed(c) ==
  /\ Pending(c)
  /\ exch' = [exch EXCEPT ![c].res = "gone", ![c].up = "aborted"]
  /\ UNCHANGED <<vars, dead>>

\* The client closes the connection: "close", and the library gives up.
ClientLeaves(c) ==
  /\ Pending(c)
  /\ Report(c)
  /\ Reported(c, "nobody", "gone", "aborted")
  /\ UNCHANGED dead

TimePasses == Quiet /\ Tick /\ UNCHANGED <<exch, dead>>

-----------------------------------------------------------------------------
ProxyInit ==
  /\ Init
  /\ exch = [c \in Calls |-> NoExchange]
  /\ dead = 0

InProgress(c) ==
  \/ LeaveEarly(c) \/ Deny(c) \/ Request(c) \/ Refused(c) \/ TimesOut(c) \/ Continue(c)
  \/ Leave(c) \/ UpstreamBegins(c) \/ UpstreamAnswers(c) \/ UpstreamFails(c)
  \/ ClientLeaves(c)

ProxyNext == (\E c \in Calls : Arrive(c) \/ InProgress(c)) \/ TimePasses

ProxySpec == ProxyInit /\ [][ProxyNext]_pvars

-----------------------------------------------------------------------------
(* Properties                                                              *)

Exchange ==
  [pc: {"idle", "limiting", "waiting", "settled", "over"},
   outcome: {"none", "ok", "open", "timeout", "error"},
   head: {"nobody", "upstream", "library", "gateway"},
   res: {"open", "ended", "gone"},
   up: {"unasked", "asked", "answered", "failed", "aborted"}]

\* The breaker counts a call as out exactly while its handler waits for it.
ProxyTypeOK ==
  /\ TypeOK
  /\ exch \in [Calls -> Exchange]
  /\ dead \in 0..FailureThreshold
  /\ \A c \in Calls : Active(c) <=> exch[c].pc = "waiting"

\* A response that has ended, or whose client is gone, does not keep a place
\* in the breaker until the timer: a probe would block everybody else.  The one
\* exception is a client that had left before the proxy was called.
EndedIsSettled ==
  \A c \in Calls : exch[c].res # "open" /\ Active(c) =>
    exch[c].res = "gone" /\ exch[c].up = "asked"

\* A client gets one answer: when the breaker's timer, the library and the
\* upstream race, nobody writes over a head that was sent.
OneAnswer ==
  [][\A c \in Calls : HeadersSent(c) /\ exch'[c].pc # "idle" =>
       exch'[c].head = exch[c].head]_pvars

\* What the gateway says is true: 503 means the upstream was not asked ("OPEN
\* never makes a network call"), 504 that it was and has not answered.
TrueErrors ==
  \A c \in Calls : exch[c].head = "gateway" =>
    \/ exch[c].outcome = "open" /\ exch[c].up = "unasked"
    \/ exch[c].outcome = "timeout" /\ exch[c].up = "asked"
    \/ exch[c].outcome = "error"

\* The circuit opens only because a call timed out or was refused by the proxy:
\* neither an answer, whatever its status, nor a client that leaves trips it.
OnlyTimeoutsTrip ==
  [][state # "OPEN" /\ state' = "OPEN" =>
       \E c \in Calls : exch[c].pc = "waiting" /\ exch'[c].outcome \in {"timeout", "error"}]_pvars

\* Every client that stays gets the head of an answer, however long the
\* upstream hangs (a request that is denied leaves its slot idle).
EverybodyAnswered ==
  \A c \in Calls : exch[c].pc \in {"limiting", "waiting"} ~>
    exch[c].pc = "idle" \/ HeadersSent(c) \/ exch[c].res = "gone"

\* What plan.md expects of a stopped upstream: after failureThreshold failures
\* in a row "the breaker tripped and is now failing fast".
DeadUpstreamTrips == dead >= FailureThreshold => state # "CLOSED"

\* What plan.md expects of the timeout: "a slow upstream counts as a failure
\* (otherwise the breaker is useless against hangs)", so that a half-open
\* circuit does not close on a request the upstream left hanging.
HangProvesNothing ==
  [][state = "HALF_OPEN" /\ state' = "CLOSED" =>
       \A c \in Calls : exch[c].res = exch'[c].res \/ exch'[c].res = "ended"]_pvars
=============================================================================
