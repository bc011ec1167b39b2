--------------------------- MODULE Gateway_proofs ---------------------------
(***************************************************************************)
(* What CircuitBreaker, GatewayProxy and GatewayDrain guarantee for any    *)
(* number of requests in flight and any options of the breaker.            *)
(*                                                                         *)
(* Three layers, each implementing the one below: a step of the gateway's  *)
(* process is a step of the proxy or changes none of its variables, and a  *)
(* step of the proxy is a step of the breaker or changes none of its.  So  *)
(* an invariant is proved where it belongs and holds above: the breaker's  *)
(* (IInv), what a request has gone through (PInv), and when nobody waits   *)
(* for an answer (DInv).                                                   *)
(***************************************************************************)
EXTENDS GatewayDrain, TLAPS, FiniteSetTheorems

-----------------------------------------------------------------------------
(* CircuitBreaker.  TypeCorrect holds for every option; the probe bound    *)
(* and the contract are proved for halfOpenMaxTrials = 1, the value every  *)
(* breaker of the repository is built with (with 2, a late probe of an     *)
(* earlier period is counted in a later one).                              *)
(*                                                                         *)
(* The argument: with one trial the counter inFlightProbes is exact.  A    *)
(* probe is only out while HALF_OPEN, because its result, the only one     *)
(* that can change a half-open circuit, leaves that state and there is no  *)
(* second probe to be left behind.                                         *)

\* The counter is the number of probes, and no probe outlives its period.
ProbesTracked ==
  /\ inFlightProbes = 0 => Probes = {}
  /\ inFlightProbes = 1 => \E c \in Calls : Probes = {c}
  /\ state # "HALF_OPEN" => inFlightProbes = 0

IInv == TypeOK /\ ProbesTracked

-----------------------------------------------------------------------------
(* Types                                                                   *)

\* Initially every field has its type.
LEMMA InitType == Init => TypeOK
BY OptionsAssumption DEF Init, TypeOK, NoCall, States

\* Counting a failure keeps the count below the threshold.
LEMMA CountFailureType ==
  ASSUME TypeOK, CountFailure
  PROVE  state' \in States /\ failureCount' \in 0..(FailureThreshold - 1)
         /\ openAge' \in 0..RecoveryTimeout
BY OptionsAssumption DEF TypeOK, CountFailure, ToOpen, States

\* Letting a slot go keeps the slots' type.
LEMMA SettledType ==
  ASSUME TypeOK, NEW c \in Calls, Settled(c)
  PROVE  call' \in [Calls -> [kind: {"none", "plain", "probe"}, age: 0..CallTimeout]]
BY OptionsAssumption DEF TypeOK, Settled, NoCall

\* execute's start keeps the types.
LEMMA ExecuteType == ASSUME TypeOK, NEW c \in Calls, Execute(c) PROVE TypeOK'
<1>1. state' \in States
  BY DEF TypeOK, Execute, StateNow, Recovered, States
<1>2. ProbesNow \in 0..HalfOpenMaxTrials
  BY OptionsAssumption DEF TypeOK, ProbesNow
<1>3. inFlightProbes' \in 0..HalfOpenMaxTrials
  BY <1>2, OptionsAssumption DEF Execute, MayProbe
<1>4. call' \in [Calls -> [kind: {"none", "plain", "probe"}, age: 0..CallTimeout]]
  BY OptionsAssumption DEF TypeOK, Execute
<1>5. QED
  BY <1>1, <1>3, <1>4 DEF TypeOK, Execute

\* A success keeps the types.
LEMMA SucceedType == ASSUME TypeOK, NEW c \in Calls, Succeed(c) PROVE TypeOK'
<1>1. call' \in [Calls -> [kind: {"none", "plain", "probe"}, age: 0..CallTimeout]]
  BY SettledType DEF Succeed
<1>2. CASE call[c].kind = "probe"
  <2>1. ProbeSucceeds
    BY <1>2 DEF Succeed
  <2>2. QED
    BY <1>1, <2>1, OptionsAssumption
    DEF TypeOK, ProbeSucceeds, ToClosed, Released, States
<1>3. CASE call[c].kind # "probe"
  <2>1. PlainSucceeds
    BY <1>3 DEF Succeed
  <2>2. QED
    BY <1>1, <2>1, OptionsAssumption DEF TypeOK, PlainSucceeds, States
<1>4. QED
  BY <1>2, <1>3

\* A failure keeps the types.
LEMMA FailType == ASSUME TypeOK, NEW c \in Calls, Fail(c) PROVE TypeOK'
<1>1. call' \in [Calls -> [kind: {"none", "plain", "probe"}, age: 0..CallTimeout]]
  BY SettledType DEF Fail
<1>2. CASE CountFailure /\ inFlightProbes' \in {Released, inFlightProbes}
  <2>1. inFlightProbes' \in 0..HalfOpenMaxTrials
    BY <1>2, OptionsAssumption DEF TypeOK, Released
  <2>2. QED
    BY <1>1, <1>2, <2>1, CountFailureType DEF TypeOK
<1>3. CASE ~ CountFailure
  <2>1. /\ inFlightProbes' \in {Released, inFlightProbes}
        /\ ToOpen \/ UNCHANGED <<state, failureCount, openAge>>
    BY <1>3 DEF Fail, ProbeFails, PlainFails
  <2>2. QED
    BY <1>1, <2>1, OptionsAssumption DEF TypeOK, ToOpen, Released, States
<1>4. inFlightProbes' \in {Released, inFlightProbes}
  BY DEF Fail, ProbeFails, PlainFails
<1>5. QED
  BY <1>2, <1>3, <1>4

\* Time keeps the types.
LEMMA TickType == ASSUME TypeOK, Tick PROVE TypeOK'
<1>1. openAge' \in 0..RecoveryTimeout
  BY OptionsAssumption DEF TypeOK, Tick, SmallerOf
<1>2. ASSUME NEW c \in Calls
      PROVE  call'[c] \in [kind: {"none", "plain", "probe"}, age: 0..CallTimeout]
  <2>1. call[c] \in [kind: {"none", "plain", "probe"}, age: 0..CallTimeout]
    BY DEF TypeOK
  <2>2. SmallerOf(call[c].age + 1, CallTimeout) \in 0..CallTimeout
    BY <2>1, OptionsAssumption DEF SmallerOf
  <2>3. call'[c] \in {call[c], [call[c] EXCEPT !.age = SmallerOf(@ + 1, CallTimeout)]}
    BY DEF Tick
  <2>4. QED
    BY <2>1, <2>2, <2>3
<1>3. DOMAIN call' = Calls /\ call' = [c \in Calls |-> call'[c]]
  BY DEF Tick
<1>4. call' \in [Calls -> [kind: {"none", "plain", "probe"}, age: 0..CallTimeout]]
  BY <1>2, <1>3
<1>5. QED
  BY <1>1, <1>4 DEF TypeOK, Tick

\* Every step keeps the types.
LEMMA NextType == TypeOK /\ [Next]_vars => TypeOK'
<1> SUFFICES ASSUME TypeOK, [Next]_vars PROVE TypeOK'
  OBVIOUS
<1>1. ASSUME NEW c \in Calls, Execute(c) PROVE TypeOK'
  BY <1>1, ExecuteType
<1>2. ASSUME NEW c \in Calls, Succeed(c) PROVE TypeOK'
  BY <1>2, SucceedType
<1>3. ASSUME NEW c \in Calls, Fail(c) PROVE TypeOK'
  BY <1>3, FailType
<1>4. ASSUME NEW c \in Calls, Timeout(c) PROVE TypeOK'
  BY <1>4, FailType DEF Timeout
<1>5. CASE GetState
  BY <1>5, OptionsAssumption DEF GetState, TypeOK, States
<1>6. CASE Tick
  BY <1>6, TickType
<1>7. CASE UNCHANGED vars
  BY <1>7 DEF vars, TypeOK
<1>8. QED
  BY <1>1, <1>2, <1>3, <1>4, <1>5, <1>6, <1>7 DEF Next

\* The breaker's fields keep the ranges of the options: in particular
\* inFlightProbes never exceeds halfOpenMaxTrials, however calls overlap.
THEOREM TypeCorrect == Spec => []TypeOK
<1>1. Init => TypeOK
  BY InitType
<1>2. TypeOK /\ [Next]_vars => TypeOK'
  BY NextType
<1>3. QED
  BY <1>1, <1>2, PTL DEF Spec
-----------------------------------------------------------------------------
(* Probes                                                                  *)

\* A call that settles is no longer a probe, and no other call changes.
LEMMA ProbesSettled ==
  ASSUME TypeOK, NEW c \in Calls, Settled(c)
  PROVE  Probes' = Probes \ {c}
BY DEF TypeOK, Settled, Probes, NoCall

\* execute's start adds the call to the probes, or leaves them alone.
LEMMA ProbesExecuted ==
  ASSUME TypeOK, NEW c \in Calls, Execute(c)
  PROVE  \/ Probes' = Probes /\ inFlightProbes' = ProbesNow
         \/ /\ StateNow = "HALF_OPEN" /\ ProbesNow < HalfOpenMaxTrials
            /\ Probes' = Probes \cup {c} /\ inFlightProbes' = ProbesNow + 1
<1>1. call[c].kind = "none"
  BY DEF Execute, Active
<1>2. CASE call' = [call EXCEPT ![c] = [kind |-> "plain", age |-> 0]]
           /\ inFlightProbes' = ProbesNow
  BY <1>1, <1>2 DEF TypeOK, Probes
<1>3. CASE /\ StateNow = "HALF_OPEN" /\ MayProbe
           /\ call' = [call EXCEPT ![c] = [kind |-> "probe", age |-> 0]]
           /\ inFlightProbes' = ProbesNow + 1
  BY <1>1, <1>3 DEF TypeOK, Probes, MayProbe
<1>4. CASE inFlightProbes' = ProbesNow /\ UNCHANGED call
  BY <1>4 DEF Probes
<1>5. QED
  BY <1>2, <1>3, <1>4 DEF Execute

\* Time leaves the probes alone.
LEMMA ProbesTick == ASSUME TypeOK, Tick PROVE Probes' = Probes
<1>1. ASSUME NEW c \in Calls PROVE call'[c].kind = call[c].kind
  <2>1. call[c] \in [kind: {"none", "plain", "probe"}, age: 0..CallTimeout]
    BY DEF TypeOK
  <2>2. call'[c] \in {call[c], [call[c] EXCEPT !.age = SmallerOf(@ + 1, CallTimeout)]}
    BY DEF Tick
  <2>3. QED
    BY <2>1, <2>2
<1>2. QED
  BY <1>1 DEF Probes

\* With one trial, recovering starts from no probes.
LEMMA NoneWhileOpen ==
  ASSUME IInv, HalfOpenMaxTrials = 1
  PROVE  /\ ProbesNow \in {0, 1}
         /\ ProbesNow = 0 <=> Probes = {}
         /\ ProbesNow = 1 <=> \E c \in Calls : Probes = {c}
         /\ StateNow # "HALF_OPEN" => ProbesNow = 0
<1>1. inFlightProbes \in {0, 1}
  BY DEF IInv, TypeOK
<1>2. QED
  BY <1>1 DEF IInv, ProbesTracked, ProbesNow, StateNow, Recovered

\* When a call settles with one trial: the counter Math.max(0, n - 1) is 0 if
\* it was the probe, and unchanged if it was not.
LEMMA ReleasedIsExact ==
  ASSUME IInv, HalfOpenMaxTrials = 1, NEW c \in Calls, call[c].kind = "probe"
  PROVE  /\ state = "HALF_OPEN" /\ inFlightProbes = 1 /\ Probes = {c}
         /\ Released = 0
<1>1. c \in Probes
  BY DEF Probes
<1>2. inFlightProbes \in {0, 1}
  BY DEF IInv, TypeOK
<1>3. inFlightProbes = 1
  BY <1>1, <1>2 DEF IInv, ProbesTracked
<1>4. QED
  BY <1>1, <1>3 DEF IInv, ProbesTracked, Released

-----------------------------------------------------------------------------
(* The invariant, and one contract step per action                         *)

\* What a step does to the abstract breaker: it keeps the counter exact, and is
\* a step of BreakerContract or leaves its variables alone.
Good == ProbesTracked' /\ [Contract!CNext]_(Contract!cvars)

\* execute's start probes, recovers, or changes nothing the contract sees.
LEMMA ExecuteGood ==
  ASSUME IInv, HalfOpenMaxTrials = 1, NEW c \in Calls, Execute(c)
  PROVE  Good
<1>1. state' = StateNow /\ state \in States
  BY DEF Execute, IInv, TypeOK
<1>2. CASE Probes' = Probes /\ inFlightProbes' = ProbesNow
  <2>1. ProbesTracked'
    BY <1>1, <1>2, NoneWhileOpen DEF ProbesTracked
  <2>2. CASE state' = state
    BY <1>2, <2>1, <2>2 DEF Good, Contract!cvars
  <2>3. CASE state' # state
    <3>1. state = "OPEN" /\ state' = "HALF_OPEN"
      BY <1>1, <2>3 DEF StateNow, Recovered
    <3>2. Probes = {}
      BY <3>1 DEF IInv, ProbesTracked
    <3>3. Cardinality(Probes)' = 0
      BY <1>2, <3>2, FS_EmptySet
    <3>4. Contract!Recover
      BY <3>1, <3>3 DEF Contract!Recover
    <3>5. QED
      BY <2>1, <3>4 DEF Good, Contract!CNext
  <2>4. QED
    BY <2>2, <2>3
<1>3. CASE /\ StateNow = "HALF_OPEN" /\ ProbesNow < HalfOpenMaxTrials
           /\ Probes' = Probes \cup {c} /\ inFlightProbes' = ProbesNow + 1
  <2>1. ProbesNow = 0 /\ Probes = {}
    BY <1>3, NoneWhileOpen
  <2>2. Probes' = {c} /\ inFlightProbes' = 1 /\ state' = "HALF_OPEN"
    BY <1>1, <1>3, <2>1
  <2>3. ProbesTracked'
    BY <2>2 DEF ProbesTracked
  <2>4. Cardinality(Probes) = 0 /\ Cardinality(Probes)' = 1
    BY <2>1, <2>2, FS_EmptySet, FS_Singleton
  <2>5. CASE state = "HALF_OPEN"
    <3>1. Contract!Probe
      BY <2>2, <2>4, <2>5 DEF Contract!Probe
    <3>2. QED
      BY <2>3, <3>1 DEF Good, Contract!CNext
  <2>6. CASE state # "HALF_OPEN"
    <3>1. state = "OPEN"
      BY <1>3, <2>6 DEF StateNow, Recovered
    <3>2. Contract!Recover
      BY <2>2, <2>4, <3>1 DEF Contract!Recover
    <3>3. QED
      BY <2>3, <3>2 DEF Good, Contract!CNext
  <2>7. QED
    BY <2>5, <2>6
<1>4. QED
  BY <1>2, <1>3, ProbesExecuted DEF IInv

\* The probe's result decides: the half-open period ends with no probe out.
LEMMA ProbeSettlesGood ==
  ASSUME IInv, HalfOpenMaxTrials = 1, NEW c \in Calls, call[c].kind = "probe",
         Settled(c), state' \in {"CLOSED", "OPEN"}, inFlightProbes' = 0
  PROVE  Good
<1>1. state = "HALF_OPEN" /\ Probes = {c}
  BY ReleasedIsExact
<1>2. Probes' = {}
  BY <1>1, ProbesSettled DEF IInv
<1>3. ProbesTracked'
  BY <1>2 DEF ProbesTracked
<1>4. Cardinality(Probes) = 1 /\ Cardinality(Probes)' = 0
  BY <1>1, <1>2, FS_EmptySet, FS_Singleton
<1>5. Contract!Decide
  BY <1>1, <1>4 DEF Contract!Decide
<1>6. QED
  BY <1>3, <1>5 DEF Good, Contract!CNext

\* Any other result leaves the probes alone; it may only trip a closed circuit.
LEMMA PlainSettlesGood ==
  ASSUME IInv, HalfOpenMaxTrials = 1, NEW c \in Calls, call[c].kind # "probe",
         Settled(c), inFlightProbes' = inFlightProbes,
         state' = state \/ (state = "CLOSED" /\ state' = "OPEN")
  PROVE  Good
<1>1. Probes' = Probes
  BY ProbesSettled DEF IInv, Probes
<1>2. ProbesTracked'
  BY <1>1 DEF IInv, ProbesTracked
<1>3. CASE state' = state
  BY <1>1, <1>2, <1>3 DEF Good, Contract!cvars
<1>4. CASE state = "CLOSED" /\ state' = "OPEN"
  <2>1. Probes = {}
    BY <1>4 DEF IInv, ProbesTracked
  <2>2. Cardinality(Probes)' = 0
    BY <1>1, <2>1, FS_EmptySet
  <2>3. Contract!Trip
    BY <1>4, <2>2 DEF Contract!Trip
  <2>4. QED
    BY <1>2, <2>3 DEF Good, Contract!CNext
<1>5. QED
  BY <1>3, <1>4

\* A success closes a half-open circuit if it is the probe's.
LEMMA SucceedGood ==
  ASSUME IInv, HalfOpenMaxTrials = 1, NEW c \in Calls, Succeed(c)
  PROVE  Good
<1>1. Settled(c)
  BY DEF Succeed
<1>2. CASE call[c].kind = "probe"
  <2>1. state = "HALF_OPEN" /\ ProbeSucceeds
    BY <1>2, ReleasedIsExact DEF Succeed
  <2>2. state' = "CLOSED" /\ inFlightProbes' = 0
    BY <2>1 DEF ProbeSucceeds, ToClosed
  <2>3. QED
    BY <1>1, <1>2, <2>2, ProbeSettlesGood
<1>3. CASE call[c].kind # "probe"
  <2>1. state' = state /\ inFlightProbes' = inFlightProbes
    BY <1>3 DEF Succeed, PlainSucceeds
  <2>2. QED
    BY <1>1, <1>3, <2>1, PlainSettlesGood
<1>4. QED
  BY <1>2, <1>3

\* A failure reopens a half-open circuit if it is the probe's, and may trip a
\* closed one.
LEMMA FailGood ==
  ASSUME IInv, HalfOpenMaxTrials = 1, NEW c \in Calls, Fail(c)
  PROVE  Good
<1>1. Settled(c)
  BY DEF Fail
<1>2. CASE call[c].kind = "probe"
  <2>1. state = "HALF_OPEN" /\ Released = 0 /\ ProbeFails
    BY <1>2, ReleasedIsExact DEF Fail
  <2>2. state' = "OPEN" /\ inFlightProbes' = 0
    BY <2>1 DEF ProbeFails, ToOpen
  <2>3. QED
    BY <1>1, <1>2, <2>2, ProbeSettlesGood
<1>3. CASE call[c].kind # "probe"
  <2>1. PlainFails
    BY <1>3 DEF Fail
  <2>2. inFlightProbes' = inFlightProbes
    BY <2>1 DEF PlainFails
  <2>3. state' = state \/ (state = "CLOSED" /\ state' = "OPEN")
    BY <2>1 DEF PlainFails, CountFailure, ToOpen
  <2>4. QED
    BY <1>1, <1>3, <2>2, <2>3, PlainSettlesGood
<1>4. QED
  BY <1>2, <1>3

\* getState may be what notices that the circuit has recovered.
LEMMA GetStateGood ==
  ASSUME IInv, HalfOpenMaxTrials = 1, GetState
  PROVE  Good
<1>1. state = "OPEN" /\ state' = "HALF_OPEN" /\ inFlightProbes' = 0
  BY DEF GetState, Recovered
<1>2. Probes = {} /\ Probes' = Probes
  BY <1>1 DEF IInv, ProbesTracked, GetState, Probes
<1>3. ProbesTracked'
  BY <1>1, <1>2 DEF ProbesTracked
<1>4. Cardinality(Probes)' = 0
  BY <1>2, FS_EmptySet
<1>5. Contract!Recover
  BY <1>1, <1>4 DEF Contract!Recover
<1>6. QED
  BY <1>3, <1>5 DEF Good, Contract!CNext

\* Every step keeps the invariant and is a contract step or a stutter.
LEMMA NextGood ==
  ASSUME HalfOpenMaxTrials = 1
  PROVE  IInv /\ [Next]_vars => IInv' /\ [Contract!CNext]_(Contract!cvars)
<1> SUFFICES ASSUME IInv, [Next]_vars PROVE TypeOK' /\ Good
  BY DEF IInv, Good
<1>1. TypeOK'
  BY NextType DEF IInv
<1>2. ASSUME NEW c \in Calls, Execute(c) PROVE Good
  BY <1>2, ExecuteGood
<1>3. ASSUME NEW c \in Calls, Succeed(c) PROVE Good
  BY <1>3, SucceedGood
<1>4. ASSUME NEW c \in Calls, Fail(c) PROVE Good
  BY <1>4, FailGood
<1>5. ASSUME NEW c \in Calls, Timeout(c) PROVE Good
  BY <1>5, FailGood DEF Timeout
<1>6. CASE GetState
  BY <1>1, <1>6, GetStateGood
<1>7. CASE Tick
  <2>1. Probes' = Probes /\ UNCHANGED <<state, inFlightProbes>>
    BY <1>7, ProbesTick DEF IInv, Tick
  <2>2. QED
    BY <1>1, <2>1 DEF Good, IInv, ProbesTracked, Contract!cvars
<1>8. CASE UNCHANGED vars
  BY <1>1, <1>8 DEF Good, IInv, ProbesTracked, Probes, vars, Contract!cvars
<1>9. QED
  BY <1>1, <1>2, <1>3, <1>4, <1>5, <1>6, <1>7, <1>8 DEF Next

\* Initially the counter is exact and the contract's initial state holds.
LEMMA InitGood == Init => IInv /\ Contract!CInit
<1> SUFFICES ASSUME Init PROVE IInv /\ Contract!CInit
  OBVIOUS
<1>1. Probes = {}
  BY DEF Init, Probes, NoCall
<1>2. Cardinality(Probes) = 0
  BY <1>1, FS_EmptySet
<1>3. QED
  BY <1>1, <1>2, InitType DEF Init, IInv, ProbesTracked, Contract!CInit

\* With one trial, no more than one probe is ever out: a probe left over from
\* an earlier half-open period does not exist.
THEOREM SingleProbe ==
  ASSUME HalfOpenMaxTrials = 1
  PROVE  Spec => []ProbeBound
<1>1. Init => IInv
  BY InitGood
<1>2. IInv /\ [Next]_vars => IInv'
  BY NextGood
<1>3. IInv => ProbeBound
  <2> SUFFICES ASSUME IInv PROVE Cardinality(Probes) <= 1
    BY DEF ProbeBound
  <2>1. inFlightProbes \in {0, 1}
    BY DEF IInv, TypeOK
  <2>2. CASE Probes = {}
    BY <2>2, FS_EmptySet
  <2>3. CASE \E c \in Calls : Probes = {c}
    BY <2>3, FS_Singleton
  <2>4. QED
    BY <2>1, <2>2, <2>3 DEF IInv, ProbesTracked
<1>4. QED
  BY <1>1, <1>2, <1>3, PTL DEF Spec

\* With one trial, the breaker implements its contract: a half-open circuit
\* is decided by the probe of that period and by nothing else.
THEOREM ImplementsContract ==
  ASSUME HalfOpenMaxTrials = 1
  PROVE  Spec => KeepsContract
<1>1. Init => IInv /\ Contract!CInit
  BY InitGood
<1>2. IInv /\ [Next]_vars => IInv' /\ [Contract!CNext]_(Contract!cvars)
  BY NextGood
<1>3. QED
  BY <1>1, <1>2, PTL DEF Spec, KeepsContract, Contract!CSpec

-----------------------------------------------------------------------------
(* GatewayProxy and GatewayDrain.                                          *)

\* What the fields of one exchange say of each other, at every point of its
\* life.
Consistent(e) ==
  /\ e.pc = "idle" => e = NoExchange
  /\ e.pc = "limiting" =>
       e.outcome = "none" /\ e.head = "nobody" /\ e.up = "unasked" /\ e.res # "ended"
  /\ e.pc = "waiting" =>
       e.outcome = "none" /\ e.head \in {"nobody", "upstream"} /\ e.up = "asked"
       /\ e.res # "ended"
  /\ e.outcome = "open" => e.up = "unasked"
  /\ e.pc = "settled" /\ e.outcome = "timeout" => e.up = "asked"
  /\ e.pc = "settled" => e.outcome # "none"
  /\ e.head = "gateway" =>
       /\ e.pc = "over" /\ e.res = "ended"
       /\ e.outcome \in {"open", "timeout", "error"}
       /\ e.outcome = "timeout" => e.up = "asked"

Sound(e) == e \in Exchange /\ Consistent(e)

\* The breaker's slot and the exchange agree.
Agree(k, e) == k.kind # "none" <=> e.pc = "waiting"

PInv ==
  /\ exch \in [Calls -> Exchange]
  /\ dead \in 0..FailureThreshold
  /\ \A c \in Calls : Consistent(exch[c]) /\ Agree(call[c], exch[c])

\* The server: a teardown, an exit or a server that has not listened yet finds
\* no client waiting; Redis is there from the boot to the teardowns.
DInv ==
  /\ http = "none" \/ stage = "down" \/ ~ Alive => Drained
  /\ http # "none" /\ stage # "down" => redis = "ready"
  /\ http = "listening" => stage = "no"
  /\ tearing # {} => stage = "down"

-----------------------------------------------------------------------------
(* The breaker inside the proxy                                            *)

\* A request's step is one of the breaker's, or does not touch it.
LEMMA RequestStep ==
  ASSUME NEW c \in Calls, Arrive(c) \/ InProgress(c)
  PROVE  [Next]_vars
<1>1. Request(c) => Execute(c)
  BY DEF Request
<1>2. Refused(c) => Fail(c)
  BY DEF Refused
<1>3. TimesOut(c) => Timeout(c)
  BY DEF TimesOut
<1>4. Continue(c) => GetState \/ UNCHANGED vars
  BY DEF Continue, Look
<1>5. UpstreamAnswers(c) \/ UpstreamFails(c) \/ ClientLeaves(c) => Succeed(c) \/ UNCHANGED vars
  BY DEF UpstreamAnswers, UpstreamFails, ClientLeaves, Report
<1>6. Arrive(c) \/ LeaveEarly(c) \/ Deny(c) \/ Leave(c) \/ UpstreamBegins(c) => UNCHANGED vars
  BY DEF Arrive, LeaveEarly, Deny, Leave, UpstreamBegins
<1>7. QED
  BY <1>1, <1>2, <1>3, <1>4, <1>5, <1>6 DEF InProgress, Next

\* So is every step of the proxy.
LEMMA ProxyStep == [ProxyNext]_pvars => [Next]_vars
<1>1. TimePasses => Tick
  BY DEF TimePasses
<1>2. UNCHANGED pvars => UNCHANGED vars
  BY DEF pvars
<1>3. QED
  BY <1>1, <1>2, RequestStep DEF ProxyNext, Next

\* The breaker of an upstream, used by createProxy with the clients, the
\* upstream and the timers racing for its calls, is the breaker alone: what is
\* proved of CircuitBreaker holds inside the gateway.
THEOREM ProxyUsesBreaker == ProxySpec => Spec
<1>1. ProxyInit => Init
  BY DEF ProxyInit
<1>2. QED
  BY <1>1, ProxyStep, PTL DEF ProxySpec, Spec

-----------------------------------------------------------------------------
(* An exchange                                                             *)

\* Initially no exchange has begun.
LEMMA PInvInit == ProxyInit => PInv
BY OptionsAssumption
DEF ProxyInit, Init, PInv, NoExchange, NoCall, Exchange, Consistent, Agree

\* A step that concerns one request alone keeps PInv if it leaves that request's
\* exchange consistent and in agreement with the breaker.
LEMMA OneRequest ==
  ASSUME PInv, NEW c \in Calls, NEW e \in Exchange,
         exch' = [exch EXCEPT ![c] = e], Consistent(e),
         \A d \in Calls \ {c} : call'[d] = call[d], Agree(call'[c], e),
         dead' \in 0..FailureThreshold
  PROVE  PInv'
<1>1. exch' \in [Calls -> Exchange]
  BY DEF PInv
<1>2. exch'[c] = e /\ \A d \in Calls \ {c} : exch'[d] = exch[d]
  BY DEF PInv
<1>3. ASSUME NEW d \in Calls PROVE Consistent(exch'[d]) /\ Agree(call'[d], exch'[d])
  <2>1. CASE d = c
    BY <2>1, <1>2
  <2>2. CASE d # c
    BY <2>2, <1>2 DEF PInv
  <2>3. QED
    BY <2>1, <2>2
<1>4. QED
  BY <1>1, <1>3 DEF PInv

\* execute's start touches the slot of its call alone, which it fills or leaves
\* empty.
LEMMA ExecuteSlot ==
  ASSUME TypeOK, NEW c \in Calls, Execute(c)
  PROVE  /\ \A d \in Calls \ {c} : call'[d] = call[d]
         /\ call'[c].kind \in {"none", "plain", "probe"}
BY DEF TypeOK, Execute, Active

\* A call that settles empties its slot, and touches no other.
LEMMA SettledSlot ==
  ASSUME TypeOK, NEW c \in Calls, Settled(c)
  PROVE  /\ \A d \in Calls \ {c} : call'[d] = call[d]
         /\ call'[c].kind = "none"
BY DEF TypeOK, Settled, NoCall

\* The request comes, leaves the limiter or is denied.
LEMMA LimiterKeeps ==
  ASSUME PInv, NEW c \in Calls, Arrive(c) \/ LeaveEarly(c) \/ Deny(c) \/ Leave(c)
  PROVE  PInv'
<1> DEFINE old == exch[c]
<1>1. old \in Exchange /\ Consistent(old) /\ Agree(call[c], old)
  BY DEF PInv
<1>2. UNCHANGED <<call, dead>>
  BY DEF Arrive, LeaveEarly, Deny, Leave, vars
<1>3. CASE Arrive(c)
  <2>1. PICK e \in Exchange : e = [old EXCEPT !.pc = "limiting"]
    BY <1>1 DEF Exchange
  <2>2. exch' = [exch EXCEPT ![c] = e] /\ old.pc = "idle"
    BY <1>3, <2>1 DEF Arrive
  <2>3. Consistent(e) /\ Agree(call[c], e)
    BY <1>1, <2>1, <2>2 DEF Consistent, Exchange, NoExchange, Agree
  <2>4. QED
    BY <1>2, <2>2, <2>3, OneRequest DEF PInv
<1>4. CASE LeaveEarly(c)
  <2>1. PICK e \in Exchange : e = [old EXCEPT !.res = "gone"]
    BY <1>1 DEF Exchange
  <2>2. exch' = [exch EXCEPT ![c] = e] /\ old.pc = "limiting"
    BY <1>4, <2>1 DEF LeaveEarly
  <2>3. Consistent(e) /\ Agree(call[c], e)
    BY <1>1, <2>1, <2>2 DEF Consistent, Exchange, Agree
  <2>4. QED
    BY <1>2, <2>2, <2>3, OneRequest DEF PInv
<1>5. CASE Deny(c) \/ Leave(c)
  <2>1. PICK e \in Exchange : e = NoExchange
    BY DEF Exchange, NoExchange
  <2>2. exch' = [exch EXCEPT ![c] = e] /\ old.pc # "waiting"
    BY <1>5, <2>1 DEF Deny, Leave
  <2>3. Consistent(e) /\ Agree(call[c], e)
    BY <1>1, <2>1, <2>2 DEF Consistent, NoExchange, Agree
  <2>4. QED
    BY <1>2, <2>2, <2>3, OneRequest DEF PInv
<1>6. QED
  BY <1>3, <1>4, <1>5

\* The request is forwarded or turned away by the breaker.
LEMMA RequestKeeps == ASSUME TypeOK, PInv, NEW c \in Calls, Request(c) PROVE PInv'
<1> DEFINE old == exch[c]
<1>1. old \in Exchange /\ Consistent(old) /\ old.pc = "limiting"
  BY DEF PInv, Request
<1>2. \A d \in Calls \ {c} : call'[d] = call[d]
  BY ExecuteSlot DEF Request
<1>3. PICK e \in Exchange :
        e = IF call'[c].kind = "none"
            THEN [old EXCEPT !.pc = "settled", !.outcome = "open"]
            ELSE [old EXCEPT !.pc = "waiting", !.up = "asked"]
  BY <1>1 DEF Exchange
<1>4. exch' = [exch EXCEPT ![c] = e] /\ dead' = dead
  BY <1>3 DEF Request
<1>5. Consistent(e) /\ Agree(call'[c], e)
  BY <1>1, <1>3 DEF Consistent, Exchange, Agree
<1>6. QED
  BY <1>2, <1>4, <1>5, OneRequest DEF PInv

\* The proxy gives the request back, or the timer fires.
LEMMA FailureKeeps ==
  ASSUME TypeOK, PInv, NEW c \in Calls, Refused(c) \/ TimesOut(c) PROVE PInv'
<1> DEFINE old == exch[c]
<1>1. old \in Exchange /\ Consistent(old) /\ old.pc = "waiting"
  BY DEF PInv, Refused, TimesOut
<1>2. /\ \A d \in Calls \ {c} : call'[d] = call[d]
      /\ call'[c].kind = "none"
  <2>1. Settled(c)
    BY DEF Refused, TimesOut, Timeout, Fail
  <2>2. QED
    BY <2>1, SettledSlot
<1>3. PICK e \in Exchange :
        /\ exch' = [exch EXCEPT ![c] = e]
        /\ e \in {[old EXCEPT !.pc = "settled", !.outcome = "error", !.up = "unasked"],
                  [old EXCEPT !.pc = "settled", !.outcome = "timeout"]}
  <2>1. CASE Refused(c)
    <3>1. exch' = [exch EXCEPT ![c] = [old EXCEPT !.pc = "settled", !.outcome = "error",
                                                  !.up = "unasked"]]
      BY <2>1 DEF Refused, PInv
    <3>2. QED
      BY <1>1, <3>1 DEF Exchange
  <2>2. CASE TimesOut(c)
    <3>1. exch' = [exch EXCEPT ![c] = [old EXCEPT !.pc = "settled", !.outcome = "timeout"]]
      BY <2>2 DEF TimesOut, PInv
    <3>2. QED
      BY <1>1, <3>1 DEF Exchange
  <2>3. QED
    BY <2>1, <2>2
<1>4. dead' = dead
  BY DEF Refused, TimesOut
<1>5. Consistent(e) /\ Agree(call'[c], e)
  BY <1>1, <1>2, <1>3 DEF Consistent, Exchange, Agree
<1>6. QED
  BY <1>2, <1>3, <1>4, <1>5, OneRequest DEF PInv

\* The handler's continuation.
LEMMA ContinueKeeps == ASSUME PInv, NEW c \in Calls, Continue(c) PROVE PInv'
<1> DEFINE old == exch[c]
<1>1. old \in Exchange /\ Consistent(old) /\ Agree(call[c], old) /\ old.pc = "settled"
  BY DEF PInv, Continue
<1>2. UNCHANGED <<call, dead>>
  BY DEF Continue, Look, GetState, vars
<1>3. PICK e \in Exchange :
        e = IF old.outcome # "ok" /\ old.head = "nobody"
            THEN [old EXCEPT !.pc = "over", !.head = "gateway", !.res = "ended"]
            ELSE [old EXCEPT !.pc = "over"]
  BY <1>1 DEF Exchange
<1>4. exch' = [exch EXCEPT ![c] = e]
  BY <1>3 DEF Continue, HeadersSent
<1>5. Consistent(e) /\ Agree(call[c], e)
  BY <1>1, <1>3 DEF Consistent, Exchange, Agree
<1>6. QED
  BY <1>2, <1>4, <1>5, OneRequest DEF PInv

\* The upstream sends the head of its answer.
LEMMA BeginsKeeps == ASSUME PInv, NEW c \in Calls, UpstreamBegins(c) PROVE PInv'
<1> DEFINE old == exch[c]
<1>1. old \in Exchange /\ Consistent(old) /\ Agree(call[c], old)
  BY DEF PInv
<1>2. UNCHANGED <<call, dead>> /\ old.head = "nobody" /\ old.up = "asked"
      /\ old.pc # "settled"
  BY DEF UpstreamBegins, vars, HeadersSent, Pending, Quiet
<1>3. PICK e \in Exchange : e = [old EXCEPT !.head = "upstream"]
  BY <1>1 DEF Exchange
<1>4. exch' = [exch EXCEPT ![c] = e]
  BY <1>3 DEF UpstreamBegins
<1>5. Consistent(e) /\ Agree(call[c], e)
  BY <1>1, <1>2, <1>3 DEF Consistent, Exchange, Agree, NoExchange
<1>6. QED
  BY <1>2, <1>4, <1>5, OneRequest DEF PInv

\* The answer ends, the library answers, or the client leaves.
LEMMA EndKeeps ==
  ASSUME TypeOK, PInv, NEW c \in Calls,
         UpstreamAnswers(c) \/ UpstreamFails(c) \/ ClientLeaves(c)
  PROVE  PInv'
<1> DEFINE old == exch[c]
           done(head, res, up) ==
             [pc |-> IF old.pc = "waiting" THEN "settled" ELSE old.pc,
              outcome |-> IF old.pc = "waiting" THEN "ok" ELSE old.outcome,
              head |-> IF HeadersSent(c) THEN old.head ELSE head,
              res |-> res, up |-> up]
<1>1. old \in Exchange /\ Consistent(old) /\ Agree(call[c], old)
  BY DEF PInv
<1>2. old.res = "open" /\ old.up = "asked" /\ old.pc # "settled" /\ Report(c)
  BY DEF UpstreamAnswers, UpstreamFails, ClientLeaves, Pending, Quiet
<1>3. /\ \A d \in Calls \ {c} : call'[d] = call[d]
      /\ call'[c].kind = IF old.pc = "waiting" THEN "none" ELSE call[c].kind
  <2>1. CASE old.pc = "waiting"
    BY <1>2, <2>1, SettledSlot DEF Report, Succeed
  <2>2. CASE old.pc # "waiting"
    BY <1>2, <2>2 DEF Report, vars
  <2>3. QED
    BY <2>1, <2>2
<1>4. PICK h \in {"upstream", "library", "nobody"}, r \in {"ended", "gone"},
           u \in {"answered", "failed", "aborted"} :
        exch' = [exch EXCEPT ![c] = done(h, r, u)]
  BY DEF UpstreamAnswers, UpstreamFails, ClientLeaves, Reported
<1>5. PICK e \in Exchange : e = done(h, r, u)
  <2>1. done(h, r, u) \in Exchange
    BY <1>1 DEF Exchange
  <2>2. QED
    BY <2>1
<1>6. Consistent(e)
  BY <1>1, <1>2, <1>5 DEF Consistent, Exchange, HeadersSent, NoExchange
<1>7. Agree(call'[c], e)
  BY <1>1, <1>2, <1>3, <1>5 DEF Agree
<1>8. dead' \in 0..FailureThreshold
  BY OptionsAssumption
  DEF UpstreamAnswers, UpstreamFails, ClientLeaves, SmallerOf, PInv
<1>9. QED
  BY <1>3, <1>4, <1>5, <1>6, <1>7, <1>8, OneRequest

\* Time leaves every slot filled or empty as it was.
LEMMA TimeKeeps == ASSUME TypeOK, PInv, TimePasses PROVE PInv'
<1>1. ASSUME NEW c \in Calls PROVE call'[c].kind = call[c].kind
  <2>1. call[c] \in [kind: {"none", "plain", "probe"}, age: 0..CallTimeout]
    BY DEF TypeOK
  <2>2. call'[c] = IF Active(c) THEN [call[c] EXCEPT !.age = SmallerOf(@ + 1, CallTimeout)]
                                ELSE call[c]
    BY DEF TimePasses, Tick
  <2>3. QED
    BY <2>1, <2>2
<1>2. UNCHANGED <<exch, dead>>
  BY DEF TimePasses
<1>3. QED
  BY <1>1, <1>2 DEF PInv, Agree

\* Every step keeps what is known of the exchanges.
LEMMA PInvStep == TypeOK /\ PInv /\ [ProxyNext]_pvars => PInv'
<1> SUFFICES ASSUME TypeOK, PInv, [ProxyNext]_pvars PROVE PInv'
  OBVIOUS
<1>1. ASSUME NEW c \in Calls, Arrive(c) \/ InProgress(c) PROVE PInv'
  BY <1>1, LimiterKeeps, RequestKeeps, FailureKeeps, ContinueKeeps, BeginsKeeps, EndKeeps
  DEF InProgress
<1>2. CASE TimePasses
  BY <1>2, TimeKeeps
<1>3. CASE UNCHANGED pvars
  BY <1>3 DEF pvars, vars, PInv
<1>4. QED
  BY <1>1, <1>2, <1>3 DEF ProxyNext

\* An exchange is consistent at every moment, for any number of requests.
THEOREM Exchanges == ProxySpec => [](TypeOK /\ PInv)
<1>1. ProxyInit => PInv
  BY PInvInit
<1>2. TypeOK /\ PInv /\ [ProxyNext]_pvars => PInv'
  BY PInvStep
<1>3. QED
  BY <1>1, <1>2, ProxyUsesBreaker, TypeCorrect, PTL DEF ProxySpec

\* The breaker counts a call as out exactly while its handler waits for it, for
\* any number of requests.
THEOREM ProxyTypeCorrect == ProxySpec => []ProxyTypeOK
<1>1. TypeOK /\ PInv => ProxyTypeOK
  BY DEF PInv, ProxyTypeOK, Agree, Active
<1>2. QED
  BY <1>1, Exchanges, PTL

\* createProxy's listeners on "finish" and "close": no response that has ended
\* keeps a place in the breaker, and one whose client is gone keeps it only if
\* the client had left before the proxy was called.
THEOREM EndedSettled == ProxySpec => []EndedIsSettled
<1>1. TypeOK /\ PInv => EndedIsSettled
  BY DEF PInv, Agree, Active, Consistent, Exchange, EndedIsSettled
<1>2. QED
  BY <1>1, Exchanges, PTL

\* The gateway's own answers say what happened to the upstream.
THEOREM ErrorsTrue == ProxySpec => []TrueErrors
<1>1. PInv => TrueErrors
  BY DEF PInv, Consistent, Exchange, TrueErrors
<1>2. QED
  BY <1>1, Exchanges, PTL

-----------------------------------------------------------------------------
(* What a step may not do                                                  *)

\* A head that was sent stays until the slot is free again.
LEMMA HeadKept ==
  ASSUME PInv, NEW c \in Calls, Arrive(c) \/ InProgress(c),
         NEW d \in Calls, HeadersSent(d), exch'[d].pc # "idle"
  PROVE  exch'[d].head = exch[d].head
<1>1. exch[d] \in Exchange /\ exch[c] \in Exchange /\ exch \in [Calls -> Exchange]
  BY DEF PInv
<1>2. CASE Arrive(c) \/ LeaveEarly(c) \/ Deny(c) \/ Leave(c)
  BY <1>1, <1>2 DEF Arrive, LeaveEarly, Deny, Leave, NoExchange, Exchange
<1>3. CASE Request(c) \/ Refused(c) \/ TimesOut(c)
  <2>1. \A e \in Calls \ {c} : exch'[e] = exch[e]
    BY <1>1, <1>3 DEF Request, Refused, TimesOut
  <2>2. exch'[c].head = exch[c].head
    <3>1. CASE Request(c)
      BY <1>1, <3>1 DEF Request, Exchange
    <3>2. CASE Refused(c)
      BY <1>1, <3>2 DEF Refused, Exchange
    <3>3. CASE TimesOut(c)
      BY <1>1, <3>3 DEF TimesOut, Exchange
    <3>4. QED
      BY <1>3, <3>1, <3>2, <3>3
  <2>3. QED
    BY <2>1, <2>2
<1>4. CASE Continue(c) \/ UpstreamBegins(c)
  BY <1>1, <1>4 DEF Continue, UpstreamBegins, HeadersSent, Exchange
<1>5. CASE UpstreamAnswers(c) \/ UpstreamFails(c) \/ ClientLeaves(c)
  BY <1>1, <1>5 DEF UpstreamAnswers, UpstreamFails, ClientLeaves, Reported, HeadersSent
<1>6. QED
  BY <1>2, <1>3, <1>4, <1>5 DEF InProgress

\* A client gets one answer, however its upstream, the library and the breaker's
\* timer race.
THEOREM AnsweredOnce == ProxySpec => OneAnswer
<1> DEFINE Kept == \A c \in Calls :
      HeadersSent(c) /\ exch'[c].pc # "idle" => exch'[c].head = exch[c].head
<1>1. PInv /\ [ProxyNext]_pvars => [Kept]_pvars
  BY HeadKept DEF ProxyNext, TimePasses
<1>2. QED
  BY <1>1, Exchanges, PTL DEF ProxySpec, OneAnswer

\* Of a request's steps, only a failure opens the circuit.
LEMMA Trips ==
  ASSUME TypeOK, PInv, NEW c \in Calls, Arrive(c) \/ InProgress(c),
         state # "OPEN", state' = "OPEN"
  PROVE  exch[c].pc = "waiting" /\ exch'[c].outcome \in {"timeout", "error"}
<1>1. ~ Execute(c)
  BY DEF Execute, StateNow, Recovered
<1>2. ~ Succeed(c)
  BY DEF Succeed, ProbeSucceeds, PlainSucceeds, ToClosed
<1>3. ~ GetState /\ ~ UNCHANGED vars
  BY DEF GetState, vars
<1>4. Refused(c) \/ TimesOut(c)
  BY <1>1, <1>2, <1>3
  DEF InProgress, Arrive, LeaveEarly, Deny, Leave, Request, Continue, Look,
      UpstreamBegins, UpstreamAnswers, UpstreamFails, ClientLeaves, Report
<1>5. exch[c] \in Exchange /\ exch \in [Calls -> Exchange]
  BY DEF PInv
<1>6. QED
  BY <1>4, <1>5 DEF Refused, TimesOut, Exchange

\* Neither an answer, whatever its status, nor a client that leaves a request
\* that is being proxied trips the circuit.
THEOREM OnlyFailuresTrip == ProxySpec => OnlyTimeoutsTrip
<1> DEFINE ByFailure == state # "OPEN" /\ state' = "OPEN" =>
      \E c \in Calls : exch[c].pc = "waiting" /\ exch'[c].outcome \in {"timeout", "error"}
<1>1. TimePasses => state' = state
  BY DEF TimePasses, Tick
<1>2. TypeOK /\ PInv /\ [ProxyNext]_pvars => [ByFailure]_pvars
  BY <1>1, Trips DEF ProxyNext
<1>3. QED
  BY <1>2, Exchanges, PTL DEF ProxySpec, OnlyTimeoutsTrip

-----------------------------------------------------------------------------
(* The process around it                                                   *)

\* Every step of the process is one of the proxy, or leaves it alone.
LEMMA DrainStep == [DrainNext]_dvars => [ProxyNext]_pvars
<1>1. Serve => ProxyNext
  BY DEF Serve, ProxyNext
<1>2. \/ Listen \/ BootFails \/ Signal \/ Uncaught \/ HttpClosed \/ ShutdownEnds
      \/ (\E d \in {"redis", "telemetry"} : TornDown(d))
      => UNCHANGED pvars
  BY DEF Listen, BootFails, Signal, Uncaught, HttpClosed, ShutdownEnds, TornDown
<1>3. UNCHANGED dvars => UNCHANGED pvars
  BY DEF dvars
<1>4. QED
  BY <1>1, <1>2, <1>3 DEF DrainNext

\* The gateway's process, with its boot, its signals and its drain, implements
\* the proxy: what is proved of ProxySpec holds of it.
THEOREM DrainKeepsProxy == DrainSpec => ProxySpec
<1>1. DrainInit => ProxyInit
  BY DEF DrainInit
<1>2. QED
  BY <1>1, DrainStep, PTL DEF DrainSpec, ProxySpec

\* Only Arrive makes a client wait.
LEMMA NobodyBegins ==
  ASSUME PInv, NEW c \in Calls, InProgress(c), Drained
  PROVE  Drained'
<1>1. exch[c] \in Exchange /\ exch \in [Calls -> Exchange]
  BY DEF PInv
<1>2. ~ Open(c) /\ \A d \in Calls \ {c} : exch'[d] = exch[d]
  BY <1>1
  DEF Drained, InProgress, LeaveEarly, Deny, Leave, Request, Refused, TimesOut, Continue,
      UpstreamBegins, UpstreamAnswers, UpstreamFails, ClientLeaves, Reported
<1>3. exch[c].pc # "idle" => exch[c].res # "open"
  BY <1>2 DEF Open
<1>4. ~ Open(c)'
  <2>1. CASE Deny(c) \/ Leave(c)
    BY <1>1, <2>1 DEF Deny, Leave, NoExchange, Open
  <2>2. CASE Request(c) \/ Refused(c) \/ TimesOut(c) \/ Continue(c)
    <3>1. exch[c].pc # "idle"
      BY <2>2 DEF Request, Refused, TimesOut, Continue
    <3>2. CASE Request(c) \/ Continue(c)
      <4>1. exch'[c].res \in {exch[c].res, "ended"}
        <5>1. CASE Request(c)
          BY <1>1, <5>1 DEF Request, Exchange
        <5>2. CASE Continue(c)
          BY <1>1, <5>2 DEF Continue, Exchange
        <5>3. QED
          BY <3>2, <5>1, <5>2
      <4>2. QED
        BY <1>3, <3>1, <4>1 DEF Open
    <3>3. CASE Refused(c) \/ TimesOut(c)
      <4>1. exch'[c].res = exch[c].res
        BY <1>1, <3>3 DEF Refused, TimesOut, Exchange
      <4>2. QED
        BY <1>3, <3>1, <4>1 DEF Open
    <3>4. QED
      BY <2>2, <3>2, <3>3
  <2>3. CASE LeaveEarly(c) \/ UpstreamBegins(c) \/ UpstreamAnswers(c) \/ UpstreamFails(c)
             \/ ClientLeaves(c)
    <3>1. exch[c].pc = "idle" /\ exch[c].up = "asked"
      BY <1>3, <2>3
      DEF LeaveEarly, UpstreamBegins, UpstreamAnswers, UpstreamFails, ClientLeaves, Pending
    <3>2. QED
      BY <3>1 DEF PInv, Consistent, NoExchange
  <2>4. QED
    BY <2>1, <2>2, <2>3 DEF InProgress
<1>5. QED
  BY <1>2, <1>4 DEF Drained, Open

\* Every step keeps the server's bookkeeping.
LEMMA DInvStep == PInv /\ DInv /\ [DrainNext]_dvars => DInv'
<1> SUFFICES ASSUME PInv, DInv, [DrainNext]_dvars PROVE DInv'
  OBVIOUS
<1>1. CASE Serve
  <2>1. UNCHANGED server
    BY <1>1 DEF Serve
  <2>2. CASE \E c \in Calls : InProgress(c)
    BY <2>1, <2>2, NobodyBegins DEF DInv, server, Alive
  <2>3. CASE http = "listening" /\ \E c \in Calls : Arrive(c)
    BY <1>1, <2>1, <2>3 DEF Serve, DInv, server, Alive
  <2>4. CASE TimePasses
    BY <2>1, <2>4 DEF TimePasses, DInv, server, Alive, Drained, Open
  <2>5. QED
    BY <1>1, <2>2, <2>3, <2>4 DEF Serve
<1>2. CASE UNCHANGED exch
  <2>1. Drained' = Drained
    BY <1>2 DEF Drained, Open
  <2>2. CASE Listen
    BY <2>1, <2>2 DEF Listen, DInv, Alive
  <2>3. CASE BootFails
    BY <2>1, <2>3 DEF BootFails, Exit, DInv, Alive
  <2>4. CASE Signal
    BY <2>1, <2>4 DEF Signal, Exit, BeginShutdown, TearDown, DInv, Alive
  <2>5. CASE Uncaught
    BY <2>1, <2>5 DEF Uncaught, BeginShutdown, TearDown, DInv, Alive
  <2>6. CASE HttpClosed
    BY <2>1, <2>6 DEF HttpClosed, TearDown, DInv, Alive
  <2>7. ASSUME NEW d \in {"redis", "telemetry"}, TornDown(d) PROVE DInv'
    BY <2>1, <2>7 DEF TornDown, DInv, Alive
  <2>8. CASE ShutdownEnds
    BY <2>1, <2>8 DEF ShutdownEnds, Exit, DInv, Alive
  <2>9. CASE UNCHANGED dvars
    BY <2>1, <2>9 DEF dvars, server, DInv, Alive
  <2>10. QED
    BY <1>1, <2>2, <2>3, <2>4, <2>5, <2>6, <2>7, <2>8, <2>9 DEF DrainNext
<1>3. Serve \/ UNCHANGED exch
  BY DEF DrainNext, Listen, BootFails, Signal, Uncaught, HttpClosed, TornDown, ShutdownEnds,
         dvars, pvars
<1>4. QED
  BY <1>1, <1>2, <1>3

\* Whoever waits for an answer, when a signal or an uncaught exception stops the
\* gateway, finds Redis connected and the process alive until the answer is
\* out, for any number of requests.
THEOREM DrainCutsNobodyOff == DrainSpec => []NothingCutOff
<1>1. DrainInit => DInv
  BY DEF DrainInit, ProxyInit, DInv, Alive, Drained, Open, NoExchange
<1>2. PInv /\ DInv /\ [DrainNext]_dvars => DInv'
  BY DInvStep
<1>3. DInv => NothingCutOff
  BY DEF DInv, NothingCutOff, Drained, Alive
<1>4. QED
  BY <1>1, <1>2, <1>3, DrainKeepsProxy, Exchanges, PTL DEF DrainSpec
=============================================================================
