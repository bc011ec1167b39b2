---------------------------- MODULE GatewayDrain ----------------------------
(***************************************************************************)
(* api-gateway/server.ts around GatewayProxy: the boot, the process and    *)
(* the drain.                                                              *)
(*                                                                         *)
(* server.close lets no request in and waits for the connections that have *)
(* a response open; then Redis and the telemetry are closed, both tried,   *)
(* and the process exits.  shutdown is called by a signal, once the server *)
(* listens, and by an exception nobody catches, also before that.          *)
(***************************************************************************)
EXTENDS GatewayProxy

VARIABLES
  redis,    \* the connection to Redis
  http,     \* the server
  stage,    \* of shutdown: "no", "closing" the server, "down"
  tearing,  \* the teardowns that have not settled
  exited

server == <<redis, http, stage, tearing, exited>>
dvars == <<pvars, server>>

Alive == exited = "no"

\* A client waits for the answer.
Open(c) == exch[c].pc # "idle" /\ exch[c].res = "open"

\* Slip: a request that is still at the limiter does not count.
DrainedProxied == \A c \in Calls : Open(c) => exch[c].pc = "limiting"

Drained == \A c \in Calls : ~ Open(c)

-----------------------------------------------------------------------------
(* server.ts                                                               *)

Exit(how) == exited' = how

\* initRedis resolves, and startServer goes on to listen and to register the
\* handlers of the signals.  A client told to quit before does not connect.
Listen ==
  /\ Alive /\ http = "none" /\ stage = "no"
  /\ redis' = "ready" /\ http' = "listening"
  /\ UNCHANGED <<pvars, stage, tearing, exited>>

\* initRedis rejects: an error, or five seconds.
BootFails ==
  /\ Alive /\ http = "none"
  /\ Exit("error")
  /\ UNCHANGED <<pvars, redis, http, stage, tearing>>

TearDown == stage' = "down" /\ tearing' = {"redis", "telemetry"}

\* shutdown up to its first await, once; it closes the server if there is one.
BeginShutdown ==
  \/ stage # "no" /\ UNCHANGED <<http, stage, tearing>>
  \/ /\ stage = "no" /\ http = "listening"
     /\ stage' = "closing" /\ http' = "closed"
     /\ UNCHANGED tearing
  \/ stage = "no" /\ http = "none" /\ TearDown /\ UNCHANGED http

\* A signal that comes before its handler kills the process.
Signal ==
  /\ Alive /\ Quiet
  /\ IF http = "none"
     THEN Exit("killed") /\ UNCHANGED <<http, stage, tearing>>
     ELSE UNCHANGED exited /\ BeginShutdown
  /\ UNCHANGED <<pvars, redis>>

\* unhandledRejection and uncaughtException, whose handlers are there from the
\* start.
Uncaught ==
  /\ Alive /\ Quiet
  /\ BeginShutdown
  /\ UNCHANGED <<pvars, redis, exited>>

\* The last connection has ended.
HttpClosed ==
  /\ Alive /\ Quiet /\ stage = "closing" /\ Drained
  /\ TearDown
  /\ UNCHANGED <<pvars, redis, http, exited>>

\* A teardown settles, either way.
TornDown(d) ==
  /\ Alive /\ d \in tearing
  /\ tearing' = tearing \ {d}
  /\ redis' \in IF d = "redis" THEN {redis, "closed"} ELSE {redis}
  /\ UNCHANGED <<pvars, http, stage, exited>>

ShutdownEnds ==
  /\ Alive /\ stage = "down" /\ tearing = {}
  /\ Exit("ok")
  /\ UNCHANGED <<pvars, redis, http, stage, tearing>>

-----------------------------------------------------------------------------
DrainInit ==
  /\ ProxyInit
  /\ redis = "connecting" /\ http = "none"
  /\ stage = "no" /\ tearing = {} /\ exited = "no"

\* A request comes in while the server listens; the rest goes on until the exit.
Serve ==
  /\ Alive
  /\ \/ http = "listening" /\ \E c \in Calls : Arrive(c)
     \/ \E c \in Calls : InProgress(c)
     \/ TimePasses
  /\ UNCHANGED server

DrainNext ==
  \/ Serve
  \/ Listen \/ BootFails \/ Signal \/ Uncaught \/ HttpClosed
  \/ \E d \in {"redis", "telemetry"} : TornDown(d)
  \/ ShutdownEnds

DrainSpec == DrainInit /\ [][DrainNext]_dvars

\* The event loop: continuations run, and every turn of it looks at the clock
\* and fires the timers that are due, however many sockets have events (hence
\* the strong fairness).  The limiter's call, the boot and the teardowns settle
\* (ioredis gives a command up after three retries, initRedis after five
\* seconds, the telemetry's exporter has a timeout).  Nothing is asked of the
\* upstream or the client.
DrainFairness ==
  /\ SF_dvars(Alive /\ TimePasses /\ UNCHANGED server)
  /\ \A c \in Calls :
       /\ SF_dvars(Alive /\ (Deny(c) \/ Request(c)) /\ UNCHANGED server)
       /\ SF_dvars(Alive /\ TimesOut(c) /\ UNCHANGED server)
       /\ WF_dvars(Alive /\ Continue(c) /\ UNCHANGED server)
  /\ WF_dvars(Listen \/ BootFails)
  /\ SF_dvars(HttpClosed)
  /\ \A d \in {"redis", "telemetry"} : WF_dvars(TornDown(d))
  /\ WF_dvars(ShutdownEnds)

FairDrainSpec == DrainSpec /\ DrainFairness

-----------------------------------------------------------------------------
(* Properties                                                              *)

\* A shutdown cuts nobody off: while a client waits, at the limiter or for the
\* upstream, Redis is there and the process lives.
NothingCutOff == \A c \in Calls : Open(c) => redis = "ready" /\ Alive

\* An answer whose body the upstream does not finish: no timer covers it.
Unfinished(c) ==
  exch[c].pc = "over" /\ exch[c].head = "upstream" /\ exch[c].res = "open"

\* A shutdown ends, unless a body that never ends keeps a connection open.
ShutdownEndsUnlessHeld ==
  stage # "no" ~> ~ Alive \/ \E c \in Calls : Unfinished(c)

\* What a graceful stop is expected to be: it ends.
ShutdownTerminates == stage # "no" ~> ~ Alive
=============================================================================
