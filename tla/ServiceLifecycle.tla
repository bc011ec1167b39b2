-------------------------- MODULE ServiceLifecycle --------------------------
(***************************************************************************)
(* user-service: one process from its imports to its exit.                 *)
(*                                                                         *)
(* Three threads of promises run in it: startServer, which awaits the      *)
(* connections and then listens; the auth container, which auth.routes     *)
(* starts while it is imported and whose controller the requests await;    *)
(* and shutdown.  startServer and the container both ask                   *)
(* KafkaProducerManager for the producer before the first has connected.   *)
(***************************************************************************)
CONSTANTS
  Deps,     \* what startServer connects itself: prisma and redis
  Redis,    \* the ioredis client among them
  Requests, \* requests to the auth routes in flight
  NoCaller  \* null

\* Who calls getProducer: the auth container and initKafka.
Callers == {"routes", "boot"}

ASSUME NoneAssumption == NoCaller \notin Callers /\ "kafka" \notin Deps
ASSUME RedisAssumption == Redis \in Deps

VARIABLES
  conn,      \* conn[d]: the connection of d
  prod,      \* prod[p]: the producer p has created
  instance,  \* KafkaProducerManager.instance
  http,      \* server
  shutdown,  \* where shutdown is: "no", "closing" or "down"
  tearing,   \* disconnects that have not settled
  target,    \* the producer shutdown disconnects
  stuck,     \* disconnects that were rejected
  early,     \* history: shutdown found no server
  exited,    \* how the process ended
  req        \* req[r]: a request

vars == <<conn, prod, instance, http, shutdown, tearing, target, stuck, early, exited, req>>

Alive == exited = "no"

Exit(how) == exited' = how

\* The controller was built: authControllerPromise is fulfilled.
Built == prod["routes"] \in {"connected", "closed"}

NobodyWaits == \A r \in Requests : req[r] # "waiting"

Drained == \A r \in Requests : req[r] = "idle"

-----------------------------------------------------------------------------
(* shutdown                                                                *)

\* All disconnects are called in one turn; without an instance that of Kafka
\* has nothing to do.
TearDown ==
  /\ shutdown' = "down"
  /\ tearing' = Deps \cup (IF instance = NoCaller THEN {} ELSE {"kafka"})
  /\ target' = instance

\* Slip: server.close is not awaited.
BeginShutdownHurried ==
  IF shutdown # "no" THEN UNCHANGED <<http, shutdown, tearing, target, early>>
  ELSE TearDown /\ early' = (http = "none") /\ http' = IF http = "none" THEN http ELSE "closed"

\* Up to the first await: isShuttingDown, and server.close if there is a server.
BeginShutdown ==
  IF shutdown # "no" THEN UNCHANGED <<http, shutdown, tearing, target, early>>
  ELSE IF http = "none"
  THEN TearDown /\ early' = TRUE /\ UNCHANGED http
  ELSE /\ shutdown' = "closing" /\ http' = "closed"
       /\ UNCHANGED <<tearing, target, early>>

\* SIGTERM or SIGINT.  Before the handlers are registered it kills the process.
Signal ==
  /\ Alive
  /\ IF http = "none"
     THEN Exit("killed") /\ UNCHANGED <<http, shutdown, tearing, target, early>>
     ELSE UNCHANGED exited /\ BeginShutdown
  /\ UNCHANGED <<conn, prod, instance, stuck, req>>

\* An exception nobody catches; the handler is there from the start.
Uncaught ==
  /\ Alive
  /\ BeginShutdown
  /\ UNCHANGED <<conn, prod, instance, stuck, exited, req>>

\* The last connection has ended.
HttpClosed ==
  /\ Alive /\ shutdown = "closing" /\ Drained
  /\ TearDown
  /\ UNCHANGED <<conn, prod, instance, http, stuck, early, exited, req>>

\* Called while connecting, $disconnect waits for the connection; quit gives it
\* up and answers OK.
Disconnected(d) ==
  /\ Alive /\ d \in tearing \cap Deps
  /\ \/ conn[d] # "connecting" /\ conn' = [conn EXCEPT ![d] = "closed"]
     \/ conn[d] = "connecting" /\ d = Redis /\ conn' = [conn EXCEPT ![d] = "cancelled"]
  /\ tearing' = tearing \ {d}
  /\ UNCHANGED <<prod, instance, http, shutdown, target, stuck, early, exited, req>>

\* The instance is forgotten, even if it is another one by now.
ProducerDisconnected ==
  /\ Alive /\ "kafka" \in tearing
  /\ prod' = [prod EXCEPT ![target] = "closed"]
  /\ instance' = NoCaller
  /\ tearing' = tearing \ {"kafka"}
  /\ UNCHANGED <<conn, http, shutdown, target, stuck, early, exited, req>>

\* Slip: Promise.all for Promise.allSettled, in a try.
DisconnectFailsAll(d) ==
  /\ Alive /\ d \in tearing /\ (d \in Deps => conn[d] # "connecting")
  /\ tearing' = {} /\ stuck' = stuck \cup {d}
  /\ UNCHANGED <<conn, prod, instance, http, shutdown, target, early, exited, req>>

DisconnectFails(d) ==
  /\ Alive /\ d \in tearing /\ (d \in Deps => conn[d] # "connecting")
  /\ tearing' = tearing \ {d} /\ stuck' = stuck \cup {d}
  /\ UNCHANGED <<conn, prod, instance, http, shutdown, target, early, exited, req>>

\* Slip: Promise.all for Promise.allSettled: shutdown rejects, and the handler
\* of unhandled rejections returns at isShuttingDown.
ShutdownEndsUnlessStuck ==
  /\ Alive /\ shutdown = "down" /\ tearing = {} /\ stuck = {}
  /\ Exit("ok")
  /\ UNCHANGED <<conn, prod, instance, http, shutdown, tearing, target, stuck, early, req>>

ShutdownEnds ==
  /\ Alive /\ shutdown = "down" /\ tearing = {}
  /\ Exit("ok")
  /\ UNCHANGED <<conn, prod, instance, http, shutdown, tearing, target, stuck, early, req>>

-----------------------------------------------------------------------------
(* startServer and the auth container                                      *)

Ready(d) ==
  /\ Alive /\ conn[d] = "connecting" /\ ~ (d = Redis /\ d \in tearing)
  /\ conn' = [conn EXCEPT ![d] = "ready"]
  /\ UNCHANGED <<prod, instance, http, shutdown, tearing, target, stuck, early, exited, req>>

\* $connect or initRedis rejects, the latter also after five seconds.
NotReady(d) ==
  /\ Alive /\ conn[d] \in {"connecting", "cancelled"}
  /\ Exit("error")
  /\ UNCHANGED <<conn, prod, instance, http, shutdown, tearing, target, stuck, early, req>>

\* getProducer goes on after connect: the last one is the instance.
Connected(p) ==
  /\ Alive /\ prod[p] = "connecting"
  /\ prod' = [prod EXCEPT ![p] = "connected"]
  /\ instance' = p
  /\ UNCHANGED <<conn, http, shutdown, tearing, target, stuck, early, exited, req>>

\* initKafka rejects.
BootProducerFails ==
  /\ Alive /\ prod["boot"] = "connecting"
  /\ prod' = [prod EXCEPT !["boot"] = "failed"]
  /\ Exit("error")
  /\ UNCHANGED <<conn, instance, http, shutdown, tearing, target, stuck, early, req>>

\* authControllerPromise is rejected.  If no request awaits it, that is an
\* unhandled rejection, which shuts down.
RoutesProducerFails ==
  /\ Alive /\ prod["routes"] = "connecting"
  /\ prod' = [prod EXCEPT !["routes"] = "failed"]
  /\ IF NobodyWaits THEN BeginShutdown
     ELSE UNCHANGED <<http, shutdown, tearing, target, early>>
  /\ UNCHANGED <<conn, instance, stuck, exited, req>>

\* Promise.all is fulfilled: app.listen, and the handlers of signals.
Listen ==
  /\ Alive /\ http = "none"
  /\ \A d \in Deps : conn[d] \notin {"connecting", "cancelled"}
  /\ prod["boot"] # "connecting"
  /\ http' = "listening"
  /\ UNCHANGED <<conn, prod, instance, shutdown, tearing, target, stuck, early, exited, req>>

-----------------------------------------------------------------------------
(* Requests                                                                *)

Accept(r) ==
  /\ Alive /\ http = "listening" /\ req[r] = "idle"
  /\ req' = [req EXCEPT ![r] = "waiting"]
  /\ UNCHANGED <<conn, prod, instance, http, shutdown, tearing, target, stuck, early, exited>>

\* authControllerPromise settles for r: the handler, or an error.
Resume(r) ==
  /\ Alive /\ req[r] = "waiting" /\ prod["routes"] # "connecting"
  /\ req' = [req EXCEPT ![r] = IF Built THEN "working" ELSE "idle"]
  /\ UNCHANGED <<conn, prod, instance, http, shutdown, tearing, target, stuck, early, exited>>

Respond(r) ==
  /\ Alive /\ req[r] = "working"
  /\ req' = [req EXCEPT ![r] = "idle"]
  /\ UNCHANGED <<conn, prod, instance, http, shutdown, tearing, target, stuck, early, exited>>

-----------------------------------------------------------------------------
\* The imports are done: all connections have been asked for.
Init ==
  /\ conn = [d \in Deps |-> "connecting"]
  /\ prod = [p \in Callers |-> "connecting"]
  /\ instance = NoCaller
  /\ http = "none"
  /\ shutdown = "no" /\ tearing = {} /\ target = NoCaller /\ stuck = {}
  /\ early = FALSE /\ exited = "no"
  /\ req = [r \in Requests |-> "idle"]

Next ==
  \/ Signal \/ HttpClosed \/ ProducerDisconnected \/ ShutdownEnds
  \/ \E d \in Deps : Disconnected(d) \/ Ready(d) \/ NotReady(d)
  \/ \E d \in Deps \cup {"kafka"} : DisconnectFails(d)
  \/ \E p \in Callers : Connected(p)
  \/ BootProducerFails \/ RoutesProducerFails \/ Listen
  \/ \E r \in Requests : Accept(r) \/ Resume(r) \/ Respond(r)
  \/ Uncaught

Spec == Init /\ [][Next]_vars

\* Connections settle (kafkajs, pg and initRedis give up after a time),
\* disconnects settle, requests are answered, and the event loop goes on.
\* Signals, exceptions and requests need not come.
Fairness ==
  /\ WF_vars(HttpClosed) /\ WF_vars(ShutdownEnds) /\ WF_vars(Listen)
  /\ WF_vars(ProducerDisconnected \/ DisconnectFails("kafka"))
  /\ \A d \in Deps : WF_vars(Ready(d) \/ NotReady(d))
  /\ \A d \in Deps : WF_vars(Disconnected(d) \/ DisconnectFails(d))
  /\ WF_vars(Connected("boot") \/ BootProducerFails)
  /\ WF_vars(Connected("routes") \/ RoutesProducerFails)
  /\ \A r \in Requests : WF_vars(Resume(r)) /\ WF_vars(Respond(r))

FairSpec == Spec /\ Fairness

-----------------------------------------------------------------------------
(* Properties                                                              *)

\* isConnected "only ever returns true when the producer has a live broker
\* connection": the instance is a connected producer, whichever it is.
TypeOK ==
  /\ conn \in [Deps -> {"connecting", "ready", "closed", "cancelled"}]
  /\ prod \in [Callers -> {"connecting", "connected", "failed", "closed"}]
  /\ instance \in Callers \cup {NoCaller}
  /\ instance # NoCaller => prod[instance] = "connected"
  /\ http \in {"none", "listening", "closed"}
  /\ shutdown \in {"no", "closing", "down"}
  /\ tearing \subseteq Deps \cup {"kafka"} /\ stuck \subseteq Deps \cup {"kafka"}
  /\ target \in Callers \cup {NoCaller}
  /\ "kafka" \in tearing => target # NoCaller
  /\ early \in BOOLEAN
  /\ exited \in {"no", "ok", "error", "killed"}
  /\ req \in [Requests -> {"idle", "waiting", "working"}]

\* An open request finds Prisma, Redis and a producer connected, also while the
\* server drains, unless shutdown began before there was a server.
ServesConnected ==
  ~ early /\ ~ Drained => (\A d \in Deps : conn[d] = "ready") /\ instance # NoCaller

\* An orderly exit has tried every disconnect, also that of the producer there
\* was, and those that failed have not kept the others from succeeding.
EveryDisconnectTried ==
  exited = "ok" =>
    /\ \A d \in Deps : conn[d] \in {"closed", "cancelled"} \/ d \in stuck
    /\ target # NoCaller => prod[target] = "closed" \/ "kafka" \in stuck

\* Whoever asks the process to stop sees it stop, whatever fails on the way.
ShutdownTerminates == shutdown # "no" ~> exited # "no"

\* What auth.routes.ts says of the controller's promise: "this resolves before
\* any request".
ControllerBeforeRequests == \A r \in Requests : req[r] = "waiting" => Built

\* What the README says of the boot: "the service never accepts traffic with a
\* broken dependency".
NeverServesBroken ==
  [][\A r \in Requests : req[r] = "idle" /\ req'[r] = "waiting" =>
       \A d \in Deps : conn[d] = "ready"]_vars

\* What the README says of the boot: it "fails fast if any of Prisma/Redis/Kafka
\* is not ready".  The producer of the auth container is one of them.
FailsFast == prod["routes"] = "failed" ~> exited # "no"

\* What the comment in shutdown is after: the pod does not "exit with live
\* connections still open" when no disconnect has failed.
NoLiveConnections ==
  exited = "ok" /\ stuck = {} => \A p \in Callers : prod[p] # "connected"
=============================================================================
