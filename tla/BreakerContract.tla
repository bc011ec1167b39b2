--------------------------- MODULE BreakerContract ---------------------------
(***************************************************************************)
(* What a circuit breaker promises its callers, without counters or clocks *)
(* of calls: a circuit that opened is tried again only after it has        *)
(* recovered, and then at most Trials calls are out until one of them says *)
(* whether the service is back.                                            *)
(***************************************************************************)
EXTENDS Integers

CONSTANT Trials   \* calls that may test a recovering service at a time

VARIABLES
  circuit,  \* "CLOSED", "OPEN" or "HALF_OPEN"
  probes    \* test calls out since the circuit became half open

cvars == <<circuit, probes>>

CInit == circuit = "CLOSED" /\ probes = 0

\* Enough calls failed.
Trip ==
  /\ circuit = "CLOSED"
  /\ circuit' = "OPEN" /\ probes' = 0

\* The service was left alone for long enough; the first test call may go
\* out at once.
Recover ==
  /\ circuit = "OPEN"
  /\ circuit' = "HALF_OPEN" /\ probes' \in {0, 1}

Probe ==
  /\ circuit = "HALF_OPEN" /\ probes < Trials
  /\ probes' = probes + 1 /\ circuit' = circuit

\* A test call of this half-open period came back and decides.
Decide ==
  /\ circuit = "HALF_OPEN" /\ probes > 0
  /\ circuit' \in {"CLOSED", "OPEN"} /\ probes' = 0

CNext == Trip \/ Recover \/ Probe \/ Decide

CSpec == CInit /\ [][CNext]_cvars
=============================================================================
