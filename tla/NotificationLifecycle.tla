------------------------ MODULE NotificationLifecycle ------------------------
(***************************************************************************)
(* notification-service: one process from its boot to its exit.            *)
(*                                                                         *)
(* The boot is a sequence: the producer, Redis, both consumers, the health *)
(* server.  The consumers handle messages as soon as each has started,     *)
(* which is before a signal can ask the process to stop.  The teardown     *)
(* closes the server, then one consumer after the other, then what their   *)
(* handlers use; one that begins during the boot, for an exception nobody  *)
(* catches, knows of no server and no consumers yet.  kafkajs is external: *)
(* disconnect fetches no more messages, waits for the handler at work, and *)
(* rejects if leaving the group fails.                                     *)
(***************************************************************************)
CONSTANT NoReason \* shutdown was not called

ASSUME NoReasonAssumption == NoReason \notin {"no", "ok", "error"}

\* One consumer per topic; shutdown disconnects that of the OTPs first.
Topics == {"otp", "login"}
Shared == {"producer", "redis"}

VARIABLES
  boot,      \* what startServer waits for, or "up"
  conn,      \* conn[d]: the connection of the producer and of Redis
  consumer,  \* consumer[t]: the consumer of the topic t
  handling,  \* handling[t]: a message of t is in its handler
  shutdown,  \* what shutdown waits for
  reason,    \* the exit code shutdown was called with
  tearing,   \* shared connections whose disconnect has not settled
  stuck,     \* what could not be disconnected
  early,     \* history: shutdown was called before startServer was done
  exited     \* how the process ended

vars == <<boot, conn, consumer, handling, shutdown, reason, tearing, stuck, early, exited>>

Alive == exited = "no"

Exit(how) == exited' = how

-----------------------------------------------------------------------------
(* startServer and bootstrap                                               *)

ProducerConnected ==
  /\ Alive /\ boot = "producer"
  /\ conn' = [conn EXCEPT !["producer"] = "ready"]
  /\ boot' = "redis"
  /\ UNCHANGED <<consumer, handling, shutdown, reason, tearing, stuck, early, exited>>

\* ioredis connects from the import on, however often it has to try, until it
\* is told to quit.
RedisConnected ==
  /\ Alive /\ conn["redis"] = "connecting" /\ "redis" \notin tearing
  /\ conn' = [conn EXCEPT !["redis"] = "ready"]
  /\ UNCHANGED <<boot, consumer, handling, shutdown, reason, tearing, stuck, early, exited>>

\* Slip: Redis is not awaited.
RedisUnawaited ==
  /\ Alive /\ boot = "redis"
  /\ boot' = "consumers"
  /\ consumer' = [t \in Topics |-> "starting"]
  /\ UNCHANGED <<conn, handling, shutdown, reason, tearing, stuck, early, exited>>

\* initRedis is fulfilled, at once if Redis was ready before.
RedisAwaited ==
  /\ Alive /\ boot = "redis" /\ conn["redis"] = "ready"
  /\ boot' = "consumers"
  /\ consumer' = [t \in Topics |-> "starting"]
  /\ UNCHANGED <<conn, handling, shutdown, reason, tearing, stuck, early, exited>>

\* The runner has connected, subscribed and begun to fetch.
Started(t) ==
  /\ Alive /\ consumer[t] = "starting"
  /\ consumer' = [consumer EXCEPT ![t] = "running"]
  /\ UNCHANGED <<boot, conn, handling, shutdown, reason, tearing, stuck, early, exited>>

\* Something startServer waits for is rejected: initRedis on the first error or
\* after five seconds.
BootFails ==
  /\ Alive
  /\ \/ boot = "producer"
     \/ boot = "redis" /\ conn["redis"] # "ready"
     \/ boot = "consumers" /\ \E t \in Topics : consumer[t] = "starting"
  /\ Exit("error")
  /\ UNCHANGED <<boot, conn, consumer, handling, shutdown, reason, tearing, stuck, early>>

\* bootstrap is fulfilled: app.listen, and the handlers of signals.
Listen ==
  /\ Alive /\ boot = "consumers"
  /\ \A t \in Topics : consumer[t] = "running"
  /\ boot' = "up"
  /\ UNCHANGED <<conn, consumer, handling, shutdown, reason, tearing, stuck, early, exited>>

-----------------------------------------------------------------------------
(* Messages                                                                *)

\* A message is fetched; disconnect stops that.
Handle(t) ==
  /\ Alive /\ consumer[t] = "running" /\ ~ handling[t] /\ shutdown # t
  /\ handling' = [handling EXCEPT ![t] = TRUE]
  /\ UNCHANGED <<boot, conn, consumer, shutdown, reason, tearing, stuck, early, exited>>

\* handle returns or throws.
Handled(t) ==
  /\ Alive /\ handling[t]
  /\ handling' = [handling EXCEPT ![t] = FALSE]
  /\ UNCHANGED <<boot, conn, consumer, shutdown, reason, tearing, stuck, early, exited>>

-----------------------------------------------------------------------------
(* shutdown                                                                *)

\* Up to the first await: the first caller decides on the exit code.  server and
\* the consumers are undefined until startServer has assigned them, and
\* disconnectKafka does nothing before the producer has connected.
BeginShutdown(how) ==
  IF shutdown # "no" THEN UNCHANGED <<shutdown, reason, tearing, early>>
  ELSE /\ reason' = how
       /\ \/ /\ boot = "up"
             /\ shutdown' = "http"
             /\ UNCHANGED <<tearing, early>>
          \/ /\ boot # "up"
             /\ shutdown' = "shared" /\ early' = TRUE
             /\ tearing' = {d \in Shared : d = "producer" => conn[d] = "ready"}

\* SIGTERM or SIGINT.  Before the handlers are registered it kills the process.
Signal ==
  /\ Alive
  /\ IF boot = "up" THEN BeginShutdown("ok") /\ UNCHANGED exited
     ELSE Exit("killed") /\ UNCHANGED <<shutdown, reason, tearing, early>>
  /\ UNCHANGED <<boot, conn, consumer, handling, stuck>>

\* An exception nobody catches, as when the port is taken; the handler is there
\* from the start.
Uncaught ==
  /\ Alive
  /\ BeginShutdown("error")
  /\ UNCHANGED <<boot, conn, consumer, handling, stuck, exited>>

\* server.close calls back, with or without an error.
HttpClosed ==
  /\ Alive /\ shutdown = "http"
  /\ shutdown' = "otp"
  /\ UNCHANGED <<boot, conn, consumer, handling, reason, tearing, stuck, early, exited>>

\* The next consumer, or all shared connections at once.  The telemetry, which
\* no handler waits for, is left out.
GoOn(t) ==
  IF t = "otp" THEN shutdown' = "login" /\ UNCHANGED tearing
  ELSE shutdown' = "shared" /\ tearing' = Shared

\* Slip: the handler is not waited for.
ConsumerCutOff(t) ==
  /\ Alive /\ shutdown = t
  /\ consumer' = [consumer EXCEPT ![t] = "closed"]
  /\ GoOn(t)
  /\ UNCHANGED <<boot, conn, handling, reason, stuck, early, exited>>

\* disconnect is fulfilled, after the handler.
ConsumerClosed(t) ==
  /\ Alive /\ shutdown = t /\ ~ handling[t]
  /\ consumer' = [consumer EXCEPT ![t] = "closed"]
  /\ GoOn(t)
  /\ UNCHANGED <<boot, conn, handling, reason, stuck, early, exited>>

\* Slip: no try around disconnect.
ConsumerFailsUncaught(t) ==
  /\ Alive /\ shutdown = t
  /\ stuck' = stuck \cup {t} /\ shutdown' = "nowhere"
  /\ UNCHANGED <<boot, conn, consumer, handling, reason, tearing, early, exited>>

\* disconnect is rejected: an error is logged.  What the consumer goes on doing
\* is not known.
ConsumerFails(t) ==
  /\ Alive /\ shutdown = t
  /\ stuck' = stuck \cup {t}
  /\ GoOn(t)
  /\ UNCHANGED <<boot, conn, consumer, handling, reason, early, exited>>

\* disconnectKafka or disconnectRedis settles; a Redis still connecting gives up
\* and answers OK.
SharedSettles(d) ==
  /\ Alive /\ d \in tearing
  /\ tearing' = tearing \ {d}
  /\ \/ conn' = [conn EXCEPT ![d] = "closed"] /\ UNCHANGED stuck
     \/ conn[d] = "ready" /\ stuck' = stuck \cup {d} /\ UNCHANGED conn
  /\ UNCHANGED <<boot, consumer, handling, shutdown, reason, early, exited>>

ShutdownEnds ==
  /\ Alive /\ shutdown = "shared" /\ tearing = {}
  /\ Exit(reason)
  /\ UNCHANGED <<boot, conn, consumer, handling, shutdown, reason, tearing, stuck, early>>

-----------------------------------------------------------------------------
Init ==
  /\ boot = "producer"
  /\ conn = [d \in Shared |-> "connecting"]
  /\ consumer = [t \in Topics |-> "none"]
  /\ handling = [t \in Topics |-> FALSE]
  /\ shutdown = "no" /\ reason = NoReason
  /\ tearing = {} /\ stuck = {} /\ early = FALSE /\ exited = "no"

Next ==
  \/ ProducerConnected \/ RedisConnected \/ RedisAwaited \/ BootFails \/ Listen
  \/ \E t \in Topics :
       Started(t) \/ Handle(t) \/ Handled(t) \/ ConsumerClosed(t) \/ ConsumerFails(t)
  \/ Signal \/ Uncaught \/ HttpClosed
  \/ \E d \in Shared : SharedSettles(d)
  \/ ShutdownEnds

Spec == Init /\ [][Next]_vars

\* The event loop; handlers return, and disconnects settle.
Fairness ==
  /\ WF_vars(HttpClosed) /\ WF_vars(ShutdownEnds)
  /\ \A t \in Topics : WF_vars(Handled(t)) /\ WF_vars(ConsumerClosed(t) \/ ConsumerFails(t))
  /\ \A d \in Shared : WF_vars(SharedSettles(d))

FairSpec == Spec /\ Fairness

-----------------------------------------------------------------------------
(* Properties                                                              *)

\* A process that is up has both consumers, so that shutdown finds them; one that
\* is not has nothing to wait for.
TypeOK ==
  /\ boot \in {"producer", "redis", "consumers", "up"}
  /\ conn \in [Shared -> {"connecting", "ready", "closed"}]
  /\ consumer \in [Topics -> {"none", "starting", "running", "closed"}]
  /\ handling \in [Topics -> BOOLEAN]
  /\ shutdown \in {"no", "http", "shared"} \cup Topics
  /\ reason \in {NoReason, "ok", "error"}
  /\ tearing \subseteq Shared /\ stuck \subseteq Shared \cup Topics
  /\ early \in BOOLEAN /\ exited \in {"no", "ok", "error", "killed"}
  /\ boot = "up" => \A t \in Topics : consumer[t] \in {"running", "closed"}
  /\ shutdown # "no" => reason # NoReason
  /\ shutdown \in {"http"} \cup Topics => boot = "up"

\* A handler finds Redis connected, during the boot and while the process shuts
\* down; only a consumer whose disconnect has failed may lose it, and one that
\* was started behind the back of a shutdown during the boot.
HandlersHaveRedis ==
  Alive /\ ~ early =>
    \A t \in Topics : handling[t] => conn["redis"] = "ready" \/ t \in stuck

\* A shutdown of a process that is up cuts no handler off, between the email and
\* its marker for instance; only the handler of a consumer whose disconnect has
\* failed.
NothingCutOff ==
  ~ Alive /\ shutdown # "no" /\ ~ early => \A t \in Topics : handling[t] => t \in stuck

\* Whoever asks the process to stop sees it stop, whatever fails on the way.
ShutdownTerminates == shutdown # "no" ~> ~ Alive
=============================================================================
