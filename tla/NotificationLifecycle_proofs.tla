-------------------- MODULE NotificationLifecycle_proofs --------------------
(* Theorems about NotificationLifecycle.                                   *)
EXTENDS NotificationLifecycle, TLAPS

\* The types hold in every reachable state; in particular a process that waits
\* for its server or a consumer to close has both consumers.
THEOREM TypeCorrect == Spec => []TypeOK
<1>. USE NoReasonAssumption DEF Topics, Shared
<1>1. Init => TypeOK
  BY DEF Init, TypeOK
<1>2. TypeOK /\ [Next]_vars => TypeOK'
  <2>. SUFFICES ASSUME TypeOK, [Next]_vars PROVE TypeOK'
    OBVIOUS
  <2>. USE DEF TypeOK
  <2>1. CASE ProducerConnected
    BY <2>1 DEF ProducerConnected
  <2>2. CASE RedisConnected
    BY <2>2 DEF RedisConnected
  <2>3. CASE RedisAwaited
    BY <2>3 DEF RedisAwaited
  <2>4. CASE BootFails
    BY <2>4 DEF BootFails, Exit
  <2>5. CASE Listen
    BY <2>5 DEF Listen
  <2>6. ASSUME NEW t \in Topics, Started(t) PROVE TypeOK'
    BY <2>6 DEF Started
  <2>7. ASSUME NEW t \in Topics, Handle(t) \/ Handled(t) PROVE TypeOK'
    <3>1. handling' \in [Topics -> BOOLEAN]
      BY <2>7 DEF Handle, Handled
    <3>2. UNCHANGED <<boot, conn, consumer, shutdown, reason, tearing, stuck, early, exited>>
      BY <2>7 DEF Handle, Handled
    <3>. QED
      BY <3>1, <3>2
  <2>8. ASSUME NEW t \in Topics, ConsumerClosed(t) PROVE TypeOK'
    BY <2>8 DEF ConsumerClosed, GoOn
  <2>9. ASSUME NEW t \in Topics, ConsumerFails(t) PROVE TypeOK'
    BY <2>9 DEF ConsumerFails, GoOn
  <2>10. CASE Signal
    BY <2>10 DEF Signal, BeginShutdown, Exit
  <2>11. CASE Uncaught
    BY <2>11 DEF Uncaught, BeginShutdown
  <2>12. CASE HttpClosed
    BY <2>12 DEF HttpClosed
  <2>13. ASSUME NEW d \in Shared, SharedSettles(d) PROVE TypeOK'
    BY <2>13 DEF SharedSettles
  <2>14. CASE ShutdownEnds
    BY <2>14 DEF ShutdownEnds, Exit
  <2>15. CASE UNCHANGED vars
    BY <2>15 DEF vars
  <2>. QED
    BY <2>1, <2>2, <2>3, <2>4, <2>5, <2>6, <2>7, <2>8, <2>9, <2>10, <2>11, <2>12,
       <2>13, <2>14, <2>15 DEF Next
<1>. QED
  BY <1>1, <1>2, PTL DEF Spec

-----------------------------------------------------------------------------
(* What a handler may rely on                                              *)

\* There are consumers only once Redis has connected, and handlers only of
\* consumers that run.
Booted ==
  /\ boot \in {"producer", "redis"} => \A t \in Topics : consumer[t] = "none"
  /\ boot \notin {"producer", "redis"} => conn["redis"] # "connecting"
  /\ \A t \in Topics : handling[t] => consumer[t] = "running"

Done(t) == consumer[t] = "closed" \/ t \in stuck

\* The shared connections are closed last, and the process exits after that.
LastOfAll ==
  /\ shutdown = "login" => Done("otp")
  /\ shutdown = "shared" /\ ~ early => \A t \in Topics : Done(t)
  /\ conn["redis"] = "closed" \/ tearing # {} => shutdown = "shared"
  /\ ~ Alive /\ shutdown # "no" => shutdown = "shared"
  /\ early => shutdown = "shared"

NotificationInv == TypeOK /\ Booted /\ LastOfAll

LEMMA NotificationInit == Init => NotificationInv
  BY NoReasonAssumption DEF Topics, Shared, Init, NotificationInv, TypeOK, Booted, LastOfAll,
     Done, Alive

LEMMA NotificationStep ==
  ASSUME NotificationInv, TypeOK', [Next]_vars
  PROVE  NotificationInv'
<1>. USE NoReasonAssumption DEF Topics, Shared, NotificationInv, TypeOK, Booted, LastOfAll,
     Done, Alive
<1>1. CASE ProducerConnected
  BY <1>1 DEF ProducerConnected
<1>2. CASE RedisConnected
  BY <1>2 DEF RedisConnected
<1>3. CASE RedisAwaited
  BY <1>3 DEF RedisAwaited
<1>4. CASE BootFails
  BY <1>4 DEF BootFails, Exit
<1>5. CASE Listen
  BY <1>5 DEF Listen
<1>6. ASSUME NEW t \in Topics, Started(t) PROVE NotificationInv'
  BY <1>6 DEF Started
<1>7. ASSUME NEW t \in Topics, Handle(t) \/ Handled(t) PROVE NotificationInv'
  BY <1>7 DEF Handle, Handled
<1>8. ASSUME NEW t \in Topics, ConsumerClosed(t) PROVE NotificationInv'
  BY <1>8 DEF ConsumerClosed, GoOn
<1>9. ASSUME NEW t \in Topics, ConsumerFails(t) PROVE NotificationInv'
  BY <1>9 DEF ConsumerFails, GoOn
<1>10. CASE Signal
  BY <1>10 DEF Signal, BeginShutdown, Exit
<1>11. CASE Uncaught
  BY <1>11 DEF Uncaught, BeginShutdown
<1>12. CASE HttpClosed
  BY <1>12 DEF HttpClosed
<1>13. ASSUME NEW d \in Shared, SharedSettles(d) PROVE NotificationInv'
  BY <1>13 DEF SharedSettles
<1>14. CASE ShutdownEnds
  BY <1>14 DEF ShutdownEnds, Exit
<1>15. CASE UNCHANGED vars
  BY <1>15 DEF vars
<1>. QED
  BY <1>1, <1>2, <1>3, <1>4, <1>5, <1>6, <1>7, <1>8, <1>9, <1>10, <1>11, <1>12,
     <1>13, <1>14, <1>15 DEF Next

\* The inductive invariant of the process.
THEOREM NotificationInvariant == Spec => []NotificationInv
<1>1. TypeOK' /\ NotificationInv /\ [Next]_vars => NotificationInv'
  BY NotificationStep
<1>. QED
  BY <1>1, NotificationInit, TypeCorrect, PTL DEF Spec

\* A handler finds Redis connected, but for that of a consumer whose disconnect
\* has failed.
THEOREM RedisOutlivesHandlers == Spec => []HandlersHaveRedis
<1>1. NotificationInv => HandlersHaveRedis
  BY DEF NotificationInv, TypeOK, Booted, LastOfAll, Done, Topics, Shared, HandlersHaveRedis
<1>. QED
  BY <1>1, NotificationInvariant, PTL

\* A shutdown of a process that is up waits for every handler, but for that of a
\* consumer whose disconnect has failed.
THEOREM ShutdownWaits == Spec => []NothingCutOff
<1>1. NotificationInv => NothingCutOff
  BY DEF NotificationInv, TypeOK, Booted, LastOfAll, Done, Topics, NothingCutOff
<1>. QED
  BY <1>1, NotificationInvariant, PTL
=============================================================================
