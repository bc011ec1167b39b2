--------------------------- MODULE CircuitBreaker ---------------------------
(***************************************************************************)
(* packages/resilience: CircuitBreaker.execute around concurrent calls.    *)
(*                                                                         *)
(* The breaker is an object of a single-threaded Node process: a call      *)
(* enters execute, runs to its first await (Execute), and continues when   *)
(* its promise or its timer has settled (Succeed, Fail, Timeout).  Each of *)
(* those stretches is one action; any number of calls may be between them. *)
(*                                                                         *)
(* Date.now() is only ever compared with openedAt: openAge is their        *)
(* difference, capped where the comparison no longer changes.  A call's    *)
(* age is kept the same way against timeoutMs.                             *)
(***************************************************************************)
EXTENDS Integers, FiniteSets

CONSTANTS
  Calls,              \* slots for calls in flight
  FailureThreshold,   \* failureThreshold
  HalfOpenMaxTrials,  \* halfOpenMaxTrials
  RecoveryTimeout,    \* recoveryTimeoutMs, in ticks
  CallTimeout         \* timeoutMs, in ticks; 0 means none

\* What the constructor accepts.
ASSUME OptionsAssumption ==
  /\ FailureThreshold \in Nat \ {0} /\ HalfOpenMaxTrials \in Nat \ {0}
  /\ RecoveryTimeout \in Nat /\ CallTimeout \in Nat

ASSUME CallsAssumption == IsFiniteSet(Calls)

VARIABLES
  state,           \* the breaker's fields, as in the source
  failureCount,
  openAge,         \* Date.now() - openedAt, at most RecoveryTimeout
  inFlightProbes,
  call             \* call[c]: the isProbe local of the call in slot c, and its age

vars == <<state, failureCount, openAge, inFlightProbes, call>>

States == {"CLOSED", "OPEN", "HALF_OPEN"}

NoCall == [kind |-> "none", age |-> 0]

Active(c) == call[c].kind # "none"

Probes == {c \in Calls : call[c].kind = "probe"}

SmallerOf(a, b) == IF a <= b THEN a ELSE b

-----------------------------------------------------------------------------
(* transitionTo                                                            *)

\* Entering OPEN keeps inFlightProbes and stamps openedAt.
ToOpen ==
  /\ state' = "OPEN" /\ openAge' = 0 /\ failureCount' = 0

ToClosed ==
  /\ state' = "CLOSED" /\ openAge' = 0 /\ failureCount' = 0 /\ inFlightProbes' = 0

-----------------------------------------------------------------------------
(* execute                                                                 *)

\* checkRecoveryTimeout, run first: the state and the probe count it leaves.
Recovered == state = "OPEN" /\ openAge >= RecoveryTimeout
\* Slip: execute does not look at the clock.
StateUnchecked == state
StateNow == IF Recovered THEN "HALF_OPEN" ELSE state
ProbesNow == IF Recovered THEN 0 ELSE inFlightProbes

\* Slip: one probe too many.
MayProbeOffByOne == ProbesNow <= HalfOpenMaxTrials

MayProbe == ProbesNow < HalfOpenMaxTrials

\* execute up to the call of fn: rejected when OPEN or when HALF_OPEN and full.
Execute(c) ==
  /\ ~ Active(c)
  /\ state' = StateNow
  /\ UNCHANGED <<failureCount, openAge>>
  /\ \/ /\ StateNow = "CLOSED"
        /\ call' = [call EXCEPT ![c] = [kind |-> "plain", age |-> 0]]
        /\ inFlightProbes' = ProbesNow
     \/ /\ StateNow = "HALF_OPEN" /\ MayProbe
        /\ call' = [call EXCEPT ![c] = [kind |-> "probe", age |-> 0]]
        /\ inFlightProbes' = ProbesNow + 1
     \/ /\ StateNow = "OPEN" \/ (StateNow = "HALF_OPEN" /\ ~ MayProbe)
        /\ inFlightProbes' = ProbesNow
        /\ UNCHANGED call

\* getState: the recovery check alone.
GetState ==
  /\ Recovered
  /\ state' = "HALF_OPEN" /\ inFlightProbes' = 0
  /\ UNCHANGED <<failureCount, openAge, call>>

-----------------------------------------------------------------------------
(* handleSuccess and handleFailure                                         *)

\* Math.max(0, inFlightProbes - 1)
Released == IF inFlightProbes > 0 THEN inFlightProbes - 1 ELSE 0

Settled(c) == call' = [call EXCEPT ![c] = NoCall]

\* Slip: a probe that succeeds does not close the circuit.
ProbeSucceedsUnnoticed ==
  /\ inFlightProbes' = Released
  /\ UNCHANGED <<state, failureCount, openAge>>

ProbeSucceeds ==
  \/ state = "HALF_OPEN" /\ ToClosed
  \/ /\ state # "HALF_OPEN"
     /\ inFlightProbes' = Released
     /\ UNCHANGED <<state, failureCount, openAge>>

\* Slip: any success closes the circuit.
PlainSucceedsClosing ==
  \/ state = "CLOSED" /\ failureCount' = 0 /\ UNCHANGED <<state, openAge, inFlightProbes>>
  \/ state # "CLOSED" /\ ToClosed

PlainSucceeds ==
  /\ failureCount' = IF state = "CLOSED" THEN 0 ELSE failureCount
  /\ UNCHANGED <<state, openAge, inFlightProbes>>

Succeed(c) ==
  /\ Active(c)
  /\ IF call[c].kind = "probe" THEN ProbeSucceeds ELSE PlainSucceeds
  /\ Settled(c)

\* A failure counted while CLOSED.
CountFailure ==
  \/ /\ failureCount + 1 >= FailureThreshold
     /\ ToOpen
  \/ /\ failureCount + 1 < FailureThreshold
     /\ failureCount' = failureCount + 1
     /\ UNCHANGED <<state, openAge>>

ProbeFails ==
  /\ inFlightProbes' = Released
  /\ \/ state = "HALF_OPEN" /\ ToOpen
     \/ state = "CLOSED" /\ CountFailure
     \/ state = "OPEN" /\ UNCHANGED <<state, failureCount, openAge>>

PlainFails ==
  /\ UNCHANGED inFlightProbes
  /\ \/ state = "CLOSED" /\ CountFailure
     \/ state # "CLOSED" /\ UNCHANGED <<state, failureCount, openAge>>

\* The call's own promise rejects.
Fail(c) ==
  /\ Active(c)
  /\ IF call[c].kind = "probe" THEN ProbeFails ELSE PlainFails
  /\ Settled(c)

\* withTimeout: the timer wins the race and the failure is counted.
Timeout(c) ==
  /\ CallTimeout > 0 /\ call[c].age = CallTimeout
  /\ Fail(c)

\* Time passes.  Timers may run late: a call can grow older than CallTimeout.
Tick ==
  /\ openAge' = IF state = "OPEN" THEN SmallerOf(openAge + 1, RecoveryTimeout) ELSE openAge
  /\ call' = [c \in Calls |-> IF Active(c)
                THEN [call[c] EXCEPT !.age = SmallerOf(@ + 1, CallTimeout)] ELSE call[c]]
  /\ UNCHANGED <<state, failureCount, inFlightProbes>>

-----------------------------------------------------------------------------
Init ==
  /\ state = "CLOSED" /\ failureCount = 0 /\ openAge = 0 /\ inFlightProbes = 0
  /\ call = [c \in Calls |-> NoCall]

Next ==
  \/ \E c \in Calls : Execute(c) \/ Succeed(c) \/ Fail(c) \/ Timeout(c)
  \/ GetState
  \/ Tick

Spec == Init /\ [][Next]_vars

\* Timers fire and time passes (the event loop), and clients keep calling.
Fairness ==
  /\ WF_vars(Tick)
  /\ WF_vars(\E c \in Calls : Execute(c))
  /\ \A c \in Calls : WF_vars(Timeout(c))

FairSpec == Spec /\ Fairness

-----------------------------------------------------------------------------
(* Properties                                                              *)

\* The fields keep the ranges the options give them.
TypeOK ==
  /\ state \in States
  /\ failureCount \in 0..(FailureThreshold - 1)
  /\ openAge \in 0..RecoveryTimeout
  /\ inFlightProbes \in 0..HalfOpenMaxTrials
  /\ call \in [Calls -> [kind: {"none", "plain", "probe"}, age: 0..CallTimeout]]

\* At most halfOpenMaxTrials probes are out at a time, counted by the calls
\* themselves and not by the breaker's counter (the text of CircuitOpenError in
\* execute: "has reached maximum concurrent probes").
ProbeBound == Cardinality(Probes) <= HalfOpenMaxTrials

Contract == INSTANCE BreakerContract WITH
  Trials <- HalfOpenMaxTrials, circuit <- state, probes <- Cardinality(Probes)

\* The breaker keeps its contract: a result only decides the half-open period
\* its call was admitted in, however late other results arrive.
KeepsContract == Contract!CSpec

\* An open circuit is eventually probed, as long as clients keep calling.
OpenIsProbed == state = "OPEN" ~> Probes # {}

\* A half-open circuit does not stay half open: a probe goes out and its
\* result, or its timer, decides.
HalfOpenResolves == state = "HALF_OPEN" ~> state # "HALF_OPEN"
=============================================================================
