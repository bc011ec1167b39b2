---------------------- MODULE ServiceLifecycle_proofs ----------------------
(* Theorems about ServiceLifecycle, for any dependencies and requests.     *)
EXTENDS ServiceLifecycle, TLAPS

\* The types hold in every reachable state; in particular the instance of the
\* producer manager is a connected producer.
THEOREM TypeCorrect == Spec => []TypeOK
<1>1. Init => TypeOK
  BY NoneAssumption DEF Init, TypeOK, Callers
<1>2. TypeOK /\ [Next]_vars => TypeOK'
  <2>. SUFFICES ASSUME TypeOK, [Next]_vars PROVE TypeOK'
    OBVIOUS
  <2>. USE NoneAssumption DEF TypeOK, Callers
  <2>1. CASE Signal
    BY <2>1 DEF Signal, Exit, BeginShutdown, TearDown
  <2>15. CASE Uncaught
    BY <2>15 DEF Uncaught, BeginShutdown, TearDown
  <2>2. CASE HttpClosed
    BY <2>2 DEF HttpClosed, TearDown
  <2>3. CASE ProducerDisconnected
    BY <2>3 DEF ProducerDisconnected
  <2>4. CASE ShutdownEnds
    BY <2>4 DEF ShutdownEnds, Exit
  <2>5. ASSUME NEW d \in Deps, Disconnected(d) PROVE TypeOK'
    BY <2>5 DEF Disconnected
  <2>6. ASSUME NEW d \in Deps, Ready(d) PROVE TypeOK'
    BY <2>6 DEF Ready
  <2>7. ASSUME NEW d \in Deps, NotReady(d) PROVE TypeOK'
    BY <2>7 DEF NotReady, Exit
  <2>8. ASSUME NEW d \in Deps \cup {"kafka"}, DisconnectFails(d) PROVE TypeOK'
    BY <2>8 DEF DisconnectFails
  <2>9. ASSUME NEW p \in Callers, Connected(p) PROVE TypeOK'
    BY <2>9 DEF Connected
  <2>10. CASE BootProducerFails
    BY <2>10 DEF BootProducerFails, Exit
  <2>11. CASE RoutesProducerFails
    BY <2>11 DEF RoutesProducerFails, BeginShutdown, TearDown
  <2>12. CASE Listen
    BY <2>12 DEF Listen
  <2>13. ASSUME NEW r \in Requests, Accept(r) \/ Resume(r) \/ Respond(r) PROVE TypeOK'
    BY <2>13 DEF Accept, Resume, Respond
  <2>14. CASE UNCHANGED vars
    BY <2>14 DEF vars
  <2>. QED
    BY <2>1, <2>2, <2>3, <2>4, <2>5, <2>6, <2>7, <2>8, <2>9, <2>10, <2>11, <2>12,
       <2>13, <2>14, <2>15 DEF Next
<1>. QED
  BY <1>1, <1>2, PTL DEF Spec

-----------------------------------------------------------------------------
(* What a request and an orderly exit may rely on                          *)

\* Before shutdown nothing is torn down, and before the teardown the server is
\* closed, if there was one.
Phases ==
  /\ shutdown = "no" => ~ early /\ http # "closed"
  /\ shutdown = "closing" => ~ early
  /\ shutdown # "no" /\ ~ early => http = "closed"
  /\ shutdown # "down" => tearing = {}
  /\ exited = "ok" => shutdown = "down" /\ tearing = {}

\* The server listens after everything has connected, and what has connected
\* stays so until the teardown.
Connections ==
  /\ http # "none" => /\ prod["boot"] # "connecting"
                      /\ \A d \in Deps : conn[d] \in {"ready", "closed"}
  /\ prod["boot"] = "failed" => ~ Alive
  /\ http # "none" => prod["boot"] # "failed"
  /\ shutdown # "down" => /\ \A d \in Deps : conn[d] \notin {"closed", "cancelled"}
                          /\ prod["boot"] # "closed"
                          /\ prod["boot"] = "connected" => instance # NoCaller

\* Requests come after the server, and are gone before the teardown.
Served ==
  /\ http = "none" => Drained
  /\ shutdown = "down" /\ ~ early => Drained

\* Every disconnect has settled, or is still to.
Torn ==
  shutdown = "down" =>
    /\ \A d \in Deps : d \in tearing \/ conn[d] \in {"closed", "cancelled"} \/ d \in stuck
    /\ target # NoCaller => "kafka" \in tearing \/ prod[target] = "closed" \/ "kafka" \in stuck

LifecycleInv == TypeOK /\ Phases /\ Connections /\ Served /\ Torn

LEMMA LifecycleInit == Init => LifecycleInv
  BY NoneAssumption DEF Init, LifecycleInv, TypeOK, Callers, Phases, Connections, Served,
     Drained, Torn, Alive

LEMMA LifecycleStep ==
  ASSUME TypeOK', Phases, Connections, Served, Torn, TypeOK, [Next]_vars
  PROVE  LifecycleInv'
<1>. USE NoneAssumption DEF TypeOK, Callers, LifecycleInv, Phases, Connections, Served,
     Drained, Torn, Alive
<1>1. CASE Signal
  BY <1>1 DEF Signal, Exit, BeginShutdown, TearDown
<1>16. CASE Uncaught
  BY <1>16 DEF Uncaught, BeginShutdown, TearDown
<1>2. CASE HttpClosed
  BY <1>2 DEF HttpClosed, TearDown
<1>3. CASE ProducerDisconnected
  BY <1>3 DEF ProducerDisconnected
<1>4. CASE ShutdownEnds
  BY <1>4 DEF ShutdownEnds, Exit
<1>5. ASSUME NEW d \in Deps, Disconnected(d) PROVE LifecycleInv'
  BY <1>5 DEF Disconnected
<1>6. ASSUME NEW d \in Deps, Ready(d) PROVE LifecycleInv'
  BY <1>6 DEF Ready
<1>7. ASSUME NEW d \in Deps, NotReady(d) PROVE LifecycleInv'
  BY <1>7 DEF NotReady, Exit
<1>8. ASSUME NEW d \in Deps \cup {"kafka"}, DisconnectFails(d) PROVE LifecycleInv'
  BY <1>8 DEF DisconnectFails
<1>9. ASSUME NEW p \in Callers, Connected(p) PROVE LifecycleInv'
  BY <1>9 DEF Connected
<1>10. CASE BootProducerFails
  BY <1>10 DEF BootProducerFails, Exit
<1>11. CASE RoutesProducerFails
  BY <1>11 DEF RoutesProducerFails, BeginShutdown, TearDown
<1>12. CASE Listen
  BY <1>12 DEF Listen
<1>13. ASSUME NEW r \in Requests, Accept(r) PROVE LifecycleInv'
  BY <1>13 DEF Accept
<1>14. ASSUME NEW r \in Requests, Resume(r) \/ Respond(r) PROVE LifecycleInv'
  BY <1>14 DEF Resume, Respond
<1>15. CASE UNCHANGED vars
  BY <1>15 DEF vars
<1>. QED
  BY <1>1, <1>2, <1>3, <1>4, <1>5, <1>6, <1>7, <1>8, <1>9, <1>10, <1>11, <1>12,
     <1>13, <1>14, <1>15, <1>16 DEF Next

\* The inductive invariant of the process.
THEOREM LifecycleInvariant == Spec => []LifecycleInv
<1>1. TypeOK /\ TypeOK' /\ LifecycleInv /\ [Next]_vars => LifecycleInv'
  BY LifecycleStep DEF LifecycleInv
<1>. QED
  BY <1>1, LifecycleInit, TypeCorrect, PTL DEF Spec

\* An open request finds everything it uses connected, also while the server
\* drains, unless shutdown began before there was a server.
THEOREM RequestsServed == Spec => []ServesConnected
<1>1. LifecycleInv => ServesConnected
  BY NoneAssumption DEF LifecycleInv, TypeOK, Callers, Phases, Connections, Served, Drained,
     ServesConnected
<1>. QED
  BY <1>1, LifecycleInvariant, PTL

\* An orderly exit has tried every disconnect.
THEOREM DisconnectsTried == Spec => []EveryDisconnectTried
<1>1. LifecycleInv => EveryDisconnectTried
  BY DEF LifecycleInv, TypeOK, Phases, Torn, EveryDisconnectTried
<1>. QED
  BY <1>1, LifecycleInvariant, PTL
=============================================================================
