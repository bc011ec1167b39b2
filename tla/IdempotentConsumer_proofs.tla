---------------------- MODULE IdempotentConsumer_proofs ----------------------
(***************************************************************************)
(* What the idempotency key guarantees for any number of pods, events and  *)
(* faults, and any TTLs.                                                   *)
(*                                                                         *)
(* The argument: while no handler has outlived its reservation (its lease  *)
(* ran out, or ioredis sent its release again), a pod at work owns the key *)
(* of its event: the key holds PROCESSING with the expiry the pod itself   *)
(* set.  SET NX then keeps every other pod out, and release and            *)
(* markProcessed only touch the pod's own reservation.                     *)
(***************************************************************************)
EXTENDS IdempotentConsumer, TLAPS

\* A handler's message is in the log.
Offsets == \A p \in Pods : AtWork(p) => pod[p].offset \in 1..Len(log)

\* Whoever is about to mark an event has sent it.
SentBeforeMark == \A p \in Pods : pod[p].pc = "mark" => sent[pod[p].event] > 0

\* p's reservation is the one p made, and still lives.
Owner(p) ==
  /\ key[pod[p].event].state = "PROCESSING"
  /\ key[pod[p].event].expires = pod[p].until
  /\ pod[p].until > now

\* A pod at work owns its event's key, and nobody else works on the event.
Owns == ~ lapsed => /\ \A p \in Pods : AtWork(p) => Owner(p)
                     /\ ExclusiveWhilePrompt

KeyType == [state: {"ABSENT", "PROCESSING", "PROCESSED"}, expires: Nat]

-----------------------------------------------------------------------------
(* Types                                                                   *)

\* Initially everything has its type.
LEMMA InitType == Init => TypeOK /\ Offsets
<1> SUFFICES ASSUME Init PROVE TypeOK /\ Offsets
  OBVIOUS
<1>1. log \in Seq(Message) /\ Len(log) = 0
  BY DEF Init
<1>2. \A p \in Pods : ~ AtWork(p)
  BY DEF Init, Waiting, AtWork
<1>3. pod \in [Pods -> Handler]
  BY DEF Init, Waiting, Handler
<1>4. key \in [Events -> KeyType]
  BY DEF Init, NoKey, KeyType
<1>5. sent \in [Events -> Nat] /\ committed = 0 /\ owner = NoPod /\ position = 0 /\ now = 0
      /\ faults = 0 /\ lapsed \in BOOLEAN /\ unmarked = {} /\ doubtful = {}
      /\ abandoned = {} /\ skipped = {} /\ forgotten = {} /\ start = 0
  BY DEF Init
<1>6. committed \in Nat /\ position \in Nat /\ start \in Nat /\ now \in Nat /\ faults \in Nat
      /\ committed <= Len(log) /\ position <= Len(log)
  BY <1>1, <1>5
<1>7. unmarked \subseteq Events /\ doubtful \subseteq Events /\ owner \in Pods \cup {NoPod}
      /\ abandoned \subseteq Events /\ skipped \subseteq Events /\ forgotten \subseteq Events
  BY <1>5
<1>8. TypeOK
  BY <1>1, <1>2, <1>3, <1>4, <1>5, <1>6, <1>7 DEF TypeOK, KeyType
<1>9. Offsets
  BY <1>2 DEF Offsets
<1>10. QED
  BY <1>8, <1>9

\* The parts of the state every step but a few leaves alone.
Bounds ==
  /\ committed \in Nat /\ committed <= Len(log)
  /\ position \in Nat /\ position <= Len(log)
  /\ owner \in Pods \cup {NoPod} /\ start \in Nat

Handlers ==
  /\ pod \in [Pods -> Handler]
  /\ \A p \in Pods : AtWork(p) => pod[p].event \in Events /\ pod[p].offset \in 1..Len(log)

Counts ==
  /\ sent \in [Events -> Nat] /\ now \in Nat /\ faults \in Nat /\ lapsed \in BOOLEAN
  /\ unmarked \subseteq Events /\ doubtful \subseteq Events /\ forgotten \subseteq Events

Gone == abandoned \subseteq Events /\ skipped \subseteq Events

\* TypeOK in the parts the steps below deal with.
LEMMA TypeParts ==
  (TypeOK /\ Offsets) <=> (/\ log \in Seq(Message) /\ Bounds /\ Handlers
                          /\ key \in [Events -> KeyType] /\ Counts /\ Gone)
BY DEF TypeOK, Offsets, Bounds, Handlers, Counts, Gone, KeyType

\* Every step keeps the log, and the offsets within it.
LEMMA BoundsStep ==
  ASSUME TypeOK, Offsets, [Next]_vars
  PROVE  log' \in Seq(Message) /\ Len(log') >= Len(log) /\ Bounds'
<1> USE TypeParts DEF Bounds, Handlers
<1>0. Len(log) \in Nat
  OBVIOUS
<1>1. ASSUME NEW m \in Message, Publish(m)
      PROVE  log' \in Seq(Message) /\ Len(log') >= Len(log) /\ Bounds'
  <2>1. log' \in Seq(Message) /\ Len(log') = Len(log) + 1
    BY <1>1 DEF Publish
  <2>2. QED
    BY <1>0, <1>1, <2>1 DEF Publish
<1>2. ASSUME NEW p \in Pods, Assign(p)
      PROVE  log' \in Seq(Message) /\ Len(log') >= Len(log) /\ Bounds'
  BY <1>0, <1>2 DEF Assign, From
<1>3. ASSUME NEW p \in Pods, Done(p), AtWork(p), UNCHANGED <<log, committed, owner, start>>
      PROVE  log' \in Seq(Message) /\ Len(log') >= Len(log) /\ Bounds'
  <2>1. pod[p].offset \in 1..Len(log)
    BY <1>3
  <2>2. position' \in Nat /\ position' <= Len(log)
    BY <1>0, <1>3, <2>1 DEF Done
  <2>3. QED
    BY <1>0, <1>3, <2>2
<1>4. ASSUME NEW p \in Pods, Skip(p) \/ Duplicate(p) \/ ReserveFails(p)
      PROVE  log' \in Seq(Message) /\ Len(log') >= Len(log) /\ Bounds'
  BY <1>0, <1>4 DEF Skip, Duplicate, ReserveFails, Delivered
<1>5. CASE UNCHANGED <<log, committed, owner, position, start>>
  BY <1>0, <1>5
<1>6. CASE Commit
  BY <1>0, <1>6 DEF Commit
<1>7. ASSUME NEW p \in Pods, Crash(p)
      PROVE  log' \in Seq(Message) /\ Len(log') >= Len(log) /\ Bounds'
  BY <1>0, <1>7 DEF Crash
<1>8. QED
  <2>1. CASE UNCHANGED vars \/ Tick
    BY <1>5, <2>1 DEF vars, kafka, Tick
  <2>2. CASE \E p \in Pods : Join(p) \/ Rebalance(p)
    BY <1>2, <2>2 DEF Join, Rebalance
  <2>3. CASE \E p \in Pods : Step(p)
    <3>1. PICK p \in Pods : Step(p)
      BY <2>3
    <3>2. CASE Skip(p) \/ Duplicate(p)
      BY <1>4, <3>2
    <3>3. CASE Mark(p)
      BY <1>3, <3>3 DEF Mark, AtWork
    <3>4. CASE Reserve(p) \/ Send(p) \/ Release(p)
      BY <1>5, <3>4 DEF Reserve, Send, Release, Throw, kafka
    <3>5. QED
      BY <3>1, <3>2, <3>3, <3>4 DEF Step
  <2>4. CASE \E p \in Pods : \/ SendFails(p) \/ MarkFails(p) \/ ReleaseLost(p)
                             \/ ReleaseFails(p)
    BY <1>5, <2>4 DEF SendFails, MarkFails, ReleaseLost, ReleaseFails, Throw, kafka
  <2>5. QED
    BY <1>1, <1>4, <1>6, <1>7, <2>1, <2>2, <2>3, <2>4 DEF Next

\* Every step keeps the handlers' shapes, and their messages in the log.
LEMMA HandlersStep ==
  ASSUME TypeOK, Offsets, [Next]_vars
  PROVE  Handlers'
<1>0. /\ Len(log) \in Nat /\ Len(log') \in Nat /\ Len(log') >= Len(log)
      /\ log \in Seq(Message) /\ Bounds /\ Handlers /\ Counts
  BY TypeParts, BoundsStep
<1>a. LeaseTTL \in Nat /\ now \in Nat
  BY <1>0, TtlAssumption DEF Counts
<1>1. ASSUME NEW p \in Pods, NEW h \in Handler, pod' = [pod EXCEPT ![p] = h],
             h.pc # "waiting" => h.event \in Events /\ h.offset \in 1..Len(log)
      PROVE  Handlers'
  <2>1. pod' \in [Pods -> Handler]
    BY <1>0, <1>1 DEF Handlers
  <2>2. ASSUME NEW q \in Pods, AtWork(q)'
        PROVE  pod'[q].event \in Events /\ pod'[q].offset \in 1..Len(log)
    <3>1. CASE q = p
      <4>1. pod'[q] = h
        BY <1>0, <1>1, <3>1 DEF Handlers
      <4>2. QED
        BY <1>1, <2>2, <4>1 DEF AtWork
    <3>2. CASE q # p
      <4>1. pod'[q] = pod[q]
        BY <1>0, <1>1, <3>2 DEF Handlers
      <4>2. QED
        BY <1>0, <2>2, <4>1 DEF AtWork, Handlers
    <3>3. QED
      BY <3>1, <3>2
  <2>3. 1..Len(log) \subseteq 1..Len(log')
    BY <1>0
  <2>4. QED
    BY <2>1, <2>2, <2>3 DEF Handlers
<1>2. CASE UNCHANGED pod
  <2>1. 1..Len(log) \subseteq 1..Len(log')
    BY <1>0
  <2>2. QED
    BY <1>0, <1>2, <2>1 DEF Handlers, AtWork
<1>3. ASSUME NEW p \in Pods, pod' = [pod EXCEPT ![p] = Waiting]
      PROVE  Handlers'
  <2>1. Waiting \in Handler /\ Waiting.pc = "waiting"
    BY DEF Waiting, Handler
  <2>2. QED
    BY <1>1, <1>3, <2>1
<1>4. ASSUME NEW p \in Pods, NEW l \in {"mark", "release"}, AtWork(p), Goto(p, l)
      PROVE  Handlers'
  <2> DEFINE h == [pod[p] EXCEPT !.pc = l]
  <2>1. pod[p] \in Handler /\ pod[p].event \in Events /\ pod[p].offset \in 1..Len(log)
    BY <1>0, <1>4 DEF Handlers
  <2>2. h \in Handler /\ h.event \in Events /\ h.offset \in 1..Len(log)
    BY <2>1 DEF Handler
  <2>3. pod' = [pod EXCEPT ![p] = h]
    BY <1>4 DEF Goto
  <2>4. QED
    BY <1>1, <2>2, <2>3
<1>5. ASSUME NEW p \in Pods, Reserve(p)
      PROVE  Handlers'
  <2>1. PICK m \in Message :
          /\ Delivered(p, m)
          /\ pod' = [pod EXCEPT ![p] = [pc |-> "send", event |-> m.event,
                                        offset |-> position + 1, until |-> now + LeaseTTL]]
    BY <1>5 DEF Reserve
  <2> DEFINE h == [pc |-> "send", event |-> m.event,
                   offset |-> position + 1, until |-> now + LeaseTTL]
  <2>2. position + 1 \in 1..Len(log) /\ now + LeaseTTL \in Nat /\ m.event \in Events
    BY <1>0, <1>a, <2>1 DEF Delivered, Bounds, Message
  <2>3. h \in Handler /\ h.event \in Events /\ h.offset \in 1..Len(log)
    BY <2>2 DEF Handler
  <2>4. QED
    BY <1>1, <2>1, <2>3
<1>6. QED
  <2>1. CASE UNCHANGED vars \/ Tick \/ Commit \/ \E m \in Message : Publish(m)
    BY <1>2, <2>1 DEF vars, Tick, Commit, Publish
  <2>2. CASE \E p \in Pods : Join(p) \/ Rebalance(p) \/ ReserveFails(p) \/ ReleaseLost(p)
    BY <1>2, <2>2 DEF Join, Rebalance, Assign, ReserveFails, ReleaseLost
  <2>3. CASE \E p \in Pods : Crash(p) \/ MarkFails(p) \/ ReleaseFails(p)
    BY <1>3, <2>3 DEF Crash, MarkFails, ReleaseFails, Throw
  <2>4. CASE \E p \in Pods : SendFails(p)
    BY <1>4, <2>4 DEF SendFails, AtWork
  <2>5. CASE \E p \in Pods : Step(p)
    <3>1. PICK p \in Pods : Step(p)
      BY <2>5
    <3>2. CASE Skip(p) \/ Duplicate(p)
      BY <1>2, <3>2 DEF Skip, Duplicate
    <3>3. CASE Mark(p) \/ Release(p)
      BY <1>3, <3>3 DEF Mark, Done, Release, Throw
    <3>4. CASE Send(p)
      BY <1>4, <3>4 DEF Send, AtWork
    <3>5. QED
      BY <1>5, <3>1, <3>2, <3>3, <3>4 DEF Step
  <2>6. QED
    BY <2>1, <2>2, <2>3, <2>4, <2>5 DEF Next

\* Every step keeps the keys' shapes.
LEMMA KeyStep ==
  ASSUME TypeOK, Offsets, [Next]_vars
  PROVE  key' \in [Events -> KeyType]
<1>0. key \in [Events -> KeyType] /\ Bounds /\ Handlers /\ Counts
  BY TypeParts
<1>1. /\ now \in Nat /\ now + LeaseTTL \in Nat /\ now + ProcessedTTL \in Nat
      /\ NoKey \in KeyType
  BY <1>0, TtlAssumption DEF Counts, NoKey, KeyType
<1>2. ASSUME NEW e, NEW k \in KeyType, key' = [key EXCEPT ![e] = k]
      PROVE  key' \in [Events -> KeyType]
  BY <1>0, <1>2
<1>3. CASE UNCHANGED key
  BY <1>0, <1>3
<1>4. ASSUME NEW e, Reserved(e)
      PROVE  key' \in [Events -> KeyType]
  <2>1. [state |-> "PROCESSING", expires |-> now + LeaseTTL] \in KeyType
    BY <1>1 DEF KeyType
  <2>2. QED
    BY <1>2, <1>4, <2>1 DEF Reserved
<1>5. ASSUME NEW p \in Pods, Mark(p)
      PROVE  key' \in [Events -> KeyType]
  <2>1. [state |-> "PROCESSED", expires |-> now + ProcessedTTL] \in KeyType
    BY <1>1 DEF KeyType
  <2>2. QED
    BY <1>2, <1>5, <2>1 DEF Mark
<1>6. ASSUME NEW p \in Pods, Release(p) \/ ReleaseLost(p)
      PROVE  key' \in [Events -> KeyType]
  <2>1. pod[p].event \in Events
    BY <1>0, <1>6 DEF Release, ReleaseLost, AtWork, Handlers
  <2>2. Dropped(pod[p].event) \in KeyType
    BY <1>0, <1>1, <2>1 DEF Dropped
  <2>3. QED
    BY <1>2, <1>6, <2>2 DEF Release, ReleaseLost
<1>7. CASE Tick
  <2>1. key' = [e \in Events |-> IF key[e].expires <= now + 1 THEN NoKey ELSE key[e]]
    BY <1>7 DEF Tick
  <2>2. QED
    BY <1>0, <1>1, <2>1
<1>8. QED
  <2>1. CASE UNCHANGED vars \/ Commit \/ \E m \in Message : Publish(m)
    BY <1>3, <2>1 DEF vars, Commit, Publish
  <2>2. CASE \E p \in Pods : \/ Join(p) \/ Rebalance(p) \/ Crash(p)
                             \/ SendFails(p) \/ MarkFails(p) \/ ReleaseFails(p)
    BY <1>3, <2>2 DEF Join, Rebalance, Assign, Crash, SendFails, MarkFails, ReleaseFails
  <2>3. CASE \E p \in Pods : ReserveFails(p)
    BY <1>4, <2>3 DEF ReserveFails
  <2>4. CASE \E p \in Pods : Step(p)
    <3>1. PICK p \in Pods : Step(p)
      BY <2>4
    <3>2. CASE Skip(p) \/ Duplicate(p) \/ Send(p)
      BY <1>3, <3>2 DEF Skip, Duplicate, Send
    <3>3. CASE Reserve(p)
      BY <1>4, <3>3 DEF Reserve
    <3>4. QED
      BY <1>5, <1>6, <3>1, <3>2, <3>3 DEF Step
  <2>5. QED
    BY <1>6, <1>7, <2>1, <2>2, <2>3, <2>4 DEF Next

\* Every step counts on: an email sent is never unsent.
LEMMA CountsStep ==
  ASSUME TypeOK, Offsets, [Next]_vars
  PROVE  Counts' /\ \A e \in Events : sent'[e] >= sent[e]
<1>0. Handlers /\ Counts
  BY TypeParts
<1>1. MaxFaults \in Nat /\ MaxTime \in Nat /\ \A e \in Events : sent[e] >= sent[e]
  BY <1>0, BoundAssumption DEF Counts
<1>2. ASSUME NEW e \in Events, sent' = [sent EXCEPT ![e] = @ + 1]
      PROVE  sent' \in [Events -> Nat] /\ \A x \in Events : sent'[x] >= sent[x]
  BY <1>0, <1>2 DEF Counts
<1>3. CASE UNCHANGED <<sent, now, lapsed, unmarked, doubtful, forgotten>> /\ (UNCHANGED faults \/ Fault)
  BY <1>0, <1>1, <1>3 DEF Counts, Fault
<1>4. ASSUME NEW p \in Pods, Crash(p) \/ MarkFails(p)
      PROVE  Counts' /\ \A e \in Events : sent'[e] >= sent[e]
  <2>1. pod[p].pc = "mark" => pod[p].event \in Events
    BY <1>0 DEF Handlers, AtWork
  <2>2. unmarked' \subseteq Events
    BY <1>0, <1>4, <2>1 DEF Counts, Crash, MarkFails
  <2>3. UNCHANGED <<sent, now, lapsed, doubtful, forgotten>> /\ faults' = faults + 1
    BY <1>4 DEF Crash, MarkFails, Fault
  <2>4. QED
    BY <1>0, <1>1, <2>2, <2>3 DEF Counts
<1>5. ASSUME NEW p \in Pods, Send(p)
      PROVE  Counts' /\ \A e \in Events : sent'[e] >= sent[e]
  <2>1. pod[p].event \in Events
    BY <1>0, <1>5 DEF Send, Handlers, AtWork
  <2>2. sent' \in [Events -> Nat] /\ \A x \in Events : sent'[x] >= sent[x]
    BY <1>2, <1>5, <2>1 DEF Send
  <2>3. UNCHANGED <<now, faults, lapsed, unmarked, doubtful, forgotten>>
    BY <1>5 DEF Send, history
  <2>4. QED
    BY <1>0, <2>2, <2>3 DEF Counts
<1>6. ASSUME NEW p \in Pods, SendFails(p)
      PROVE  Counts' /\ \A e \in Events : sent'[e] >= sent[e]
  <2>1. pod[p].event \in Events
    BY <1>0, <1>6 DEF SendFails, Handlers, AtWork
  <2>2. sent' \in [Events -> Nat] /\ \A x \in Events : sent'[x] >= sent[x]
    <3>1. CASE sent' = sent
      BY <1>0, <1>1, <3>1 DEF Counts
    <3>2. CASE sent' = [sent EXCEPT ![pod[p].event] = @ + 1]
      BY <1>2, <2>1, <3>2
    <3>3. QED
      BY <1>6, <3>1, <3>2 DEF SendFails
  <2>3. doubtful' \subseteq Events
    BY <1>0, <1>6, <2>1 DEF SendFails, Counts
  <2>4. UNCHANGED <<now, lapsed, unmarked, forgotten>> /\ faults' = faults + 1
    BY <1>6 DEF SendFails, Fault
  <2>5. QED
    BY <1>0, <2>2, <2>3, <2>4 DEF Counts
<1>7. CASE Tick
  <2>1. lapsed' \in BOOLEAN
    BY <1>7 DEF Tick
  <2>2. /\ UNCHANGED <<sent, faults, unmarked, doubtful>> /\ now' = now + 1
        /\ forgotten' \subseteq forgotten \cup Events
    BY <1>7 DEF Tick
  <2>3. QED
    BY <1>0, <1>1, <2>1, <2>2 DEF Counts
<1>8. ASSUME NEW p \in Pods, ReleaseLost(p)
      PROVE  Counts' /\ \A e \in Events : sent'[e] >= sent[e]
  BY <1>0, <1>1, <1>8 DEF ReleaseLost, Counts, Fault
<1>9. QED
  <2>1. CASE UNCHANGED vars \/ Commit \/ \E m \in Message : Publish(m)
    BY <1>3, <2>1 DEF vars, history, Commit, Publish
  <2>2. CASE \E p \in Pods : Join(p) \/ Rebalance(p) \/ ReserveFails(p) \/ ReleaseFails(p)
    BY <1>3, <2>2 DEF Join, Rebalance, Assign, ReserveFails, ReleaseFails, history
  <2>3. CASE \E p \in Pods : Step(p)
    <3>1. PICK p \in Pods : Step(p)
      BY <2>3
    <3>2. CASE Skip(p) \/ Duplicate(p) \/ Reserve(p) \/ Mark(p) \/ Release(p)
      BY <1>3, <3>2 DEF Skip, Duplicate, Reserve, Mark, Release, history
    <3>3. QED
      BY <1>5, <3>1, <3>2 DEF Step
  <2>4. QED
    BY <1>4, <1>6, <1>7, <1>8, <2>1, <2>2, <2>3 DEF Next

\* Every step only gives up events there are.
LEMMA GoneStep ==
  ASSUME TypeOK, Offsets, [Next]_vars
  PROVE  Gone'
<1>0. log \in Seq(Message) /\ Bounds /\ Handlers /\ Gone
  BY TypeParts
<1>1. CASE UNCHANGED <<abandoned, skipped>>
  BY <1>0, <1>1 DEF Gone
<1>2. ASSUME NEW p \in Pods, Assign(p), UNCHANGED abandoned
      PROVE  Gone'
  <2>1. EventsAt(position + 1 .. Len(log)) \subseteq Events
    <3>1. ASSUME NEW i \in position + 1 .. Len(log) PROVE log[i].event \in Events
      <4>1. i \in 1..Len(log)
        BY <1>0 DEF Bounds
      <4>2. log[i] \in Message
        BY <1>0, <4>1
      <4>3. QED
        BY <4>2 DEF Message
    <3>2. QED
      BY <3>1 DEF EventsAt
  <2>2. QED
    BY <1>0, <1>2, <2>1 DEF Assign, Gone
<1>3. ASSUME NEW p \in Pods, ReserveFails(p)
      PROVE  Gone'
  BY <1>0, <1>3 DEF ReserveFails, Gone, Message
<1>4. ASSUME NEW p \in Pods, Crash(p) \/ Release(p) \/ ReleaseFails(p)
      PROVE  Gone'
  <2>1. AtWork(p) => pod[p].event \in Events
    BY <1>0 DEF Handlers
  <2>2. abandoned' = abandoned \/ (AtWork(p) /\ abandoned' = abandoned \cup {pod[p].event})
    BY <1>4 DEF Crash, Release, ReleaseFails, AtWork
  <2>3. skipped' = skipped
    BY <1>4 DEF Crash, Release, ReleaseFails
  <2>4. QED
    BY <1>0, <2>1, <2>2, <2>3 DEF Gone
<1>5. QED
  <2>1. CASE UNCHANGED vars \/ Tick \/ Commit \/ \E m \in Message : Publish(m)
    BY <1>1, <2>1 DEF vars, history, Tick, Commit, Publish
  <2>2. CASE \E p \in Pods : Join(p) \/ Rebalance(p)
    BY <1>2, <2>2 DEF Join, Rebalance, Assign
  <2>3. CASE \E p \in Pods : SendFails(p) \/ MarkFails(p) \/ ReleaseLost(p)
    BY <1>1, <2>3 DEF SendFails, MarkFails, ReleaseLost
  <2>4. CASE \E p \in Pods : Step(p)
    <3>1. PICK p \in Pods : Step(p)
      BY <2>4
    <3>2. CASE Skip(p) \/ Duplicate(p) \/ Reserve(p) \/ Send(p) \/ Mark(p)
      BY <1>1, <3>2 DEF Skip, Duplicate, Reserve, Send, Mark, history
    <3>3. QED
      BY <1>4, <3>1, <3>2 DEF Step
  <2>5. QED
    BY <1>3, <1>4, <2>1, <2>2, <2>3, <2>4 DEF Next

\* The types and the offsets are kept by every step.
LEMMA TypeStep ==
  ASSUME TypeOK, Offsets, [Next]_vars
  PROVE  TypeOK' /\ Offsets'
<1>1. log' \in Seq(Message) /\ Bounds' /\ Handlers' /\ key' \in [Events -> KeyType] /\ Counts'
      /\ Gone'
  BY BoundsStep, HandlersStep, KeyStep, CountsStep, GoneStep
<1>2. QED
  BY <1>1 DEF TypeOK, Offsets, Bounds, Handlers, Counts, Gone, KeyType

\* TypeOK holds in every run: offsets within the log, keys and handlers in shape.
THEOREM TypeCorrect == Spec => []TypeOK
<1>1. Init => TypeOK /\ Offsets
  BY InitType
<1>2. (TypeOK /\ Offsets) /\ [Next]_vars => (TypeOK /\ Offsets)'
  BY TypeStep
<1>3. QED
  BY <1>1, <1>2, PTL DEF Spec

-----------------------------------------------------------------------------
(* One pod at a time                                                       *)

\* A step that leaves the reservations at work alone, and alive, keeps Owns.
LEMMA OwnsKept ==
  ASSUME Owns, ~ lapsed,
         \A q \in Pods : AtWork(q)' =>
           /\ AtWork(q)
           /\ pod'[q].event = pod[q].event /\ pod'[q].until = pod[q].until
           /\ key'[pod[q].event] = key[pod[q].event]
           /\ pod[q].until > now'
  PROVE  Owns'
<1>1. ASSUME NEW p \in Pods, AtWork(p)' PROVE Owner(p)'
  BY <1>1 DEF Owns, Owner
<1>2. ASSUME NEW p \in Pods, NEW q \in Pods, p # q, AtWork(p)', AtWork(q)'
      PROVE  pod'[p].event # pod'[q].event
  BY <1>2 DEF Owns, ExclusiveWhilePrompt
<1>3. QED
  BY <1>1, <1>2 DEF Owns, ExclusiveWhilePrompt

\* A handler keeps its event and its deadline until it ends.
LEMMA HandlerKept ==
  ASSUME TypeOK, Offsets, [Next]_vars, NEW q \in Pods, AtWork(q)', AtWork(q)
  PROVE  pod'[q].event = pod[q].event /\ pod'[q].until = pod[q].until
<1>0. pod \in [Pods -> Handler]
  BY DEF TypeOK
<1>1. ASSUME NEW p \in Pods, NEW l, Goto(p, l)
      PROVE  pod'[q].event = pod[q].event /\ pod'[q].until = pod[q].until
  <2>1. pod[q] \in [pc: {"waiting", "send", "mark", "release"}, event: Events \cup {NoEvent},
                    offset: Nat, until: Nat]
    BY <1>0 DEF Handler
  <2>2. pod'[q] = pod[q] \/ pod'[q] = [pod[q] EXCEPT !.pc = l]
    BY <1>0, <1>1 DEF Goto
  <2>3. QED
    BY <2>1, <2>2
<1>2. ASSUME NEW p \in Pods, pod' = [pod EXCEPT ![p] = Waiting]
      PROVE  pod'[q] = pod[q]
  <2>1. pod'[p] = Waiting /\ \A r \in Pods : r # p => pod'[r] = pod[r]
    BY <1>0, <1>2
  <2>2. q # p
    BY <2>1 DEF AtWork, Waiting
  <2>3. QED
    BY <2>1, <2>2
<1>3. ASSUME NEW p \in Pods, Reserve(p)
      PROVE  pod'[q] = pod[q]
  <2>1. ~ AtWork(p)
    BY <1>3 DEF Reserve, Delivered
  <2>2. q # p
    BY <2>1
  <2>3. PICK h : pod' = [pod EXCEPT ![p] = h]
    BY <1>3 DEF Reserve
  <2>4. QED
    BY <1>0, <2>2, <2>3
<1>4. QED
  <2>1. CASE UNCHANGED vars \/ Tick \/ Commit \/ \E m \in Message : Publish(m)
    BY <2>1 DEF vars, Tick, Commit, Publish
  <2>2. CASE \E p \in Pods : Join(p) \/ Rebalance(p) \/ ReserveFails(p) \/ ReleaseLost(p)
    BY <2>2 DEF Join, Rebalance, Assign, ReserveFails, ReleaseLost
  <2>3. CASE \E p \in Pods : Crash(p) \/ MarkFails(p) \/ ReleaseFails(p)
    BY <1>2, <2>3 DEF Crash, MarkFails, ReleaseFails, Throw
  <2>4. CASE \E p \in Pods : SendFails(p)
    BY <1>1, <2>4 DEF SendFails
  <2>5. CASE \E p \in Pods : Step(p)
    <3>1. PICK p \in Pods : Step(p)
      BY <2>5
    <3>2. CASE Skip(p) \/ Duplicate(p)
      BY <3>2 DEF Skip, Duplicate
    <3>3. CASE Mark(p) \/ Release(p)
      BY <1>2, <3>3 DEF Mark, Done, Release, Throw
    <3>4. CASE Send(p)
      BY <1>1, <3>4 DEF Send
    <3>5. QED
      BY <1>3, <3>1, <3>2, <3>3, <3>4 DEF Step
  <2>6. QED
    BY <2>1, <2>2, <2>3, <2>4, <2>5 DEF Next

\* Only Reserve puts a pod to work.
LEMMA StartsByReserve ==
  ASSUME TypeOK, Offsets, [Next]_vars, NEW q \in Pods, AtWork(q)', ~ AtWork(q)
  PROVE  Reserve(q)
<1>0. pod \in [Pods -> Handler]
  BY DEF TypeOK
<1>1. ASSUME NEW p \in Pods, NEW l, AtWork(p), Goto(p, l)
      PROVE  FALSE
  BY <1>0, <1>1 DEF Goto, AtWork
<1>2. ASSUME NEW p \in Pods, pod' = [pod EXCEPT ![p] = Waiting]
      PROVE  FALSE
  BY <1>0, <1>2 DEF AtWork, Waiting
<1>3. ASSUME NEW p \in Pods, Reserve(p)
      PROVE  Reserve(q)
  <2>1. PICK h : pod' = [pod EXCEPT ![p] = h]
    BY <1>3 DEF Reserve
  <2>2. p = q
    BY <1>0, <2>1 DEF AtWork
  <2>3. QED
    BY <1>3, <2>2
<1>4. CASE UNCHANGED pod
  BY <1>4 DEF AtWork
<1>5. QED
  <2>1. CASE UNCHANGED vars \/ Tick \/ Commit \/ \E m \in Message : Publish(m)
    BY <1>4, <2>1 DEF vars, Tick, Commit, Publish
  <2>2. CASE \E p \in Pods : Join(p) \/ Rebalance(p) \/ ReserveFails(p) \/ ReleaseLost(p)
    BY <1>4, <2>2 DEF Join, Rebalance, Assign, ReserveFails, ReleaseLost
  <2>3. CASE \E p \in Pods : Crash(p) \/ MarkFails(p) \/ ReleaseFails(p)
    BY <1>2, <2>3 DEF Crash, MarkFails, ReleaseFails, Throw
  <2>4. CASE \E p \in Pods : SendFails(p)
    BY <1>1, <2>4 DEF SendFails, AtWork
  <2>5. CASE \E p \in Pods : Step(p)
    <3>1. PICK p \in Pods : Step(p)
      BY <2>5
    <3>2. CASE Skip(p) \/ Duplicate(p)
      BY <1>4, <3>2 DEF Skip, Duplicate
    <3>3. CASE Mark(p) \/ Release(p)
      BY <1>2, <3>3 DEF Mark, Done, Release, Throw
    <3>4. CASE Send(p)
      BY <1>1, <3>4 DEF Send, AtWork
    <3>5. QED
      BY <1>3, <3>1, <3>2, <3>3, <3>4 DEF Step
  <2>6. QED
    BY <2>1, <2>2, <2>3, <2>4, <2>5 DEF Next

\* No step but a reservation puts a pod to work, or changes what it works on.
LEMMA AtWorkKept ==
  ASSUME TypeOK, Offsets, [Next]_vars, \A p \in Pods : ~ Reserve(p)
  PROVE  \A q \in Pods : AtWork(q)' =>
           /\ AtWork(q)
           /\ pod'[q].event = pod[q].event /\ pod'[q].until = pod[q].until
BY HandlerKept, StartsByReserve

\* A handler that ends leaves the keys of the others alone.
LEMMA EndKeepsOwns ==
  ASSUME TypeOK, Offsets, [Next]_vars, Owns, ~ lapsed, \A p \in Pods : ~ Reserve(p),
         NEW p \in Pods, Mark(p) \/ Release(p)
  PROVE  Owns'
<1>0. pod \in [Pods -> Handler] /\ key \in [Events -> KeyType]
  BY DEF TypeOK, KeyType
<1>1. /\ AtWork(p) /\ pod' = [pod EXCEPT ![p] = Waiting] /\ now' = now
      /\ \E k : key' = [key EXCEPT ![pod[p].event] = k]
  BY DEF Mark, Release, Done, Throw, AtWork
<1>2. PICK k : key' = [key EXCEPT ![pod[p].event] = k]
  BY <1>1
<1>3. ASSUME NEW q \in Pods, AtWork(q)'
      PROVE  /\ AtWork(q)
             /\ pod'[q].event = pod[q].event /\ pod'[q].until = pod[q].until
             /\ key'[pod[q].event] = key[pod[q].event]
             /\ pod[q].until > now'
  <2>1. q # p
    BY <1>0, <1>1, <1>3 DEF AtWork, Waiting
  <2>2. /\ AtWork(q)
        /\ pod'[q].event = pod[q].event /\ pod'[q].until = pod[q].until
    BY <1>3, AtWorkKept
  <2>3. pod[q].event # pod[p].event /\ pod[q].event \in Events
    BY <1>1, <2>1, <2>2 DEF Owns, ExclusiveWhilePrompt, TypeOK
  <2>4. pod[q].until > now'
    BY <1>1, <2>2 DEF Owns, Owner
  <2>5. QED
    BY <1>0, <1>2, <2>2, <2>3, <2>4
<1>4. QED
  BY <1>3, OwnsKept

\* A reservation is only made where there is none.
LEMMA ReserveKeepsOwns ==
  ASSUME TypeOK, Offsets, [Next]_vars, Owns, ~ lapsed, NEW p \in Pods, Reserve(p)
  PROVE  Owns'
<1>0. /\ pod \in [Pods -> Handler] /\ key \in [Events -> KeyType] /\ now \in Nat
      /\ \A q \in Pods : AtWork(q) => pod[q].event \in Events
  BY DEF TypeOK, KeyType
<1> DEFINE h(m) == [pc |-> "send", event |-> m.event,
                    offset |-> position + 1, until |-> now + LeaseTTL]
<1>1. PICK m \in Message : /\ Delivered(p, m) /\ Absent(m.event) /\ Reserved(m.event)
                           /\ pod' = [pod EXCEPT ![p] = h(m)]
  BY DEF Reserve
<1>2. m.event \in Events /\ now' = now /\ ~ AtWork(p)
  BY <1>1 DEF Message, Delivered, Reserve
<1>3. key'[m.event] = [state |-> "PROCESSING", expires |-> now + LeaseTTL]
  BY <1>0, <1>1, <1>2 DEF Reserved
<1>4. pod'[p] = h(m) /\ now + LeaseTTL > now
  BY <1>0, <1>1, TtlAssumption
<1>5. Owner(p)'
  BY <1>2, <1>3, <1>4 DEF Owner
<1>6. ASSUME NEW q \in Pods, q # p, AtWork(q)'
      PROVE  Owner(q)' /\ pod'[q].event # m.event /\ AtWork(q) /\ pod'[q] = pod[q]
  <2>1. pod'[q] = pod[q]
    BY <1>0, <1>1, <1>6
  <2>2. AtWork(q)
    BY <1>6, <2>1 DEF AtWork
  <2>3. Owner(q)
    BY <2>2 DEF Owns
  <2>4. pod[q].event # m.event /\ pod[q].event \in Events
    BY <1>0, <1>1, <2>2, <2>3 DEF Owner, Absent
  <2>5. key'[pod[q].event] = key[pod[q].event]
    BY <1>0, <1>1, <2>4 DEF Reserved
  <2>6. Owner(q)'
    BY <1>2, <2>1, <2>3, <2>5 DEF Owner
  <2>7. QED
    BY <2>1, <2>2, <2>4, <2>6
<1>7. \A q \in Pods : AtWork(q)' => Owner(q)'
  BY <1>5, <1>6
<1>8. pod'[p].event = m.event
  BY <1>4
<1>9. ExclusiveWhilePrompt'
  <2> HIDE DEF h
  <2>1. ASSUME NEW q \in Pods, NEW r \in Pods, q # r, AtWork(q)', AtWork(r)'
        PROVE  pod'[q].event # pod'[r].event
    <3>1. CASE q = p \/ r = p
      BY <1>6, <1>8, <2>1, <3>1
    <3>2. CASE q # p /\ r # p
      <4>1. AtWork(q) /\ AtWork(r) /\ pod'[q] = pod[q] /\ pod'[r] = pod[r]
        BY <1>6, <2>1, <3>2
      <4>2. pod[q].event # pod[r].event
        BY <2>1, <4>1 DEF Owns, ExclusiveWhilePrompt
      <4>3. QED
        BY <4>1, <4>2
    <3>3. QED
      BY <3>1, <3>2
  <2>2. QED
    BY <2>1 DEF ExclusiveWhilePrompt
<1>10. QED
  BY <1>7, <1>9 DEF Owns

\* Ownership is kept by every step, as long as nobody outlives its reservation.
LEMMA OwnsStep ==
  ASSUME TypeOK, Offsets, Owns, [Next]_vars
  PROVE  Owns'
<1>1. CASE lapsed'
  BY <1>1 DEF Owns
<1>2. CASE \E p \in Pods : Reserve(p)
  <2>1. PICK p \in Pods : Reserve(p)
    BY <1>2
  <2>2. CASE lapsed
    BY <2>1, <2>2 DEF Reserve, history, Owns
  <2>3. CASE ~ lapsed
    BY <2>1, <2>3, ReserveKeepsOwns
  <2>4. QED
    BY <2>2, <2>3
<1>3. CASE ~ lapsed' /\ \A p \in Pods : ~ Reserve(p)
  <2>0. ~ lapsed
    <3>1. CASE UNCHANGED lapsed
      BY <1>3, <3>1
    <3>2. CASE Tick
      BY <1>3, <3>2 DEF Tick
    <3>3. CASE UNCHANGED vars \/ Commit \/ \E m \in Message : Publish(m)
      BY <3>1, <3>3 DEF vars, history, Commit, Publish
    <3>4. CASE \E p \in Pods : \/ Join(p) \/ Rebalance(p) \/ Crash(p) \/ ReserveFails(p)
                               \/ SendFails(p) \/ MarkFails(p) \/ ReleaseFails(p)
      BY <3>1, <3>4 DEF Join, Rebalance, Assign, Crash, ReserveFails, SendFails, MarkFails,
                        ReleaseFails, history
    <3>5. CASE \E p \in Pods : Step(p)
      BY <1>3, <3>1, <3>5 DEF Step, Skip, Duplicate, Send, Mark, Release, history
    <3>6. CASE \E p \in Pods : ReleaseLost(p)
      BY <1>3, <3>6 DEF ReleaseLost
    <3>7. QED
      BY <3>2, <3>3, <3>4, <3>5, <3>6 DEF Next
  <2>1. CASE UNCHANGED <<key, now>>
    <3>1. ASSUME NEW q \in Pods, AtWork(q)' PROVE pod[q].until > now'
      BY <2>0, <2>1, <3>1, <1>3, AtWorkKept DEF Owns, Owner
    <3>2. QED
      BY <1>3, <2>0, <2>1, <3>1, AtWorkKept, OwnsKept
  <2>2. CASE Tick
    <3>1. ASSUME NEW q \in Pods, AtWork(q)'
          PROVE  pod[q].until > now' /\ key'[pod[q].event] = key[pod[q].event]
      <4>1. AtWork(q) /\ pod[q].event \in Events /\ pod[q].until \in Nat /\ now \in Nat
        BY <1>3, <3>1, AtWorkKept DEF TypeOK, Handler
      <4>2. ~ (pod[q].until <= now + 1) /\ now' = now + 1
        BY <1>3, <2>2, <4>1 DEF Tick
      <4>3. key[pod[q].event].expires = pod[q].until
        BY <2>0, <4>1 DEF Owns, Owner
      <4>4. key'[pod[q].event] = key[pod[q].event]
        BY <2>2, <4>1, <4>2, <4>3 DEF Tick
      <4>5. QED
        BY <4>1, <4>2, <4>4
    <3>2. QED
      BY <1>3, <2>0, <3>1, AtWorkKept, OwnsKept
  <2>3. ASSUME NEW p \in Pods, ReserveFails(p)
        PROVE  Owns'
    <3>1. PICK m \in Message : Absent(m.event) /\ Reserved(m.event)
      BY <2>3 DEF ReserveFails
    <3>2. now' = now /\ key \in [Events -> KeyType]
      BY <2>3 DEF ReserveFails, TypeOK, KeyType
    <3>3. ASSUME NEW q \in Pods, AtWork(q)'
          PROVE  pod[q].until > now' /\ key'[pod[q].event] = key[pod[q].event]
      <4>1. AtWork(q) /\ Owner(q)
        BY <1>3, <2>0, <3>3, AtWorkKept DEF Owns
      <4>2. pod[q].event # m.event /\ pod[q].event \in Events
        BY <3>1, <4>1 DEF Owner, Absent, TypeOK
      <4>3. QED
        BY <3>1, <3>2, <4>1, <4>2 DEF Reserved, Owner
    <3>4. QED
      BY <1>3, <2>0, <3>3, AtWorkKept, OwnsKept
  <2>4. CASE UNCHANGED vars \/ Commit \/ \E m \in Message : Publish(m)
    BY <2>1, <2>4 DEF vars, Commit, Publish
  <2>5. CASE \E p \in Pods : \/ Join(p) \/ Rebalance(p) \/ Crash(p)
                             \/ SendFails(p) \/ MarkFails(p) \/ ReleaseFails(p)
    BY <2>1, <2>5 DEF Join, Rebalance, Assign, Crash, SendFails, MarkFails, ReleaseFails
  <2>6. CASE \E p \in Pods : Step(p)
    <3>1. PICK p \in Pods : Step(p)
      BY <2>6
    <3>2. CASE Skip(p) \/ Duplicate(p) \/ Send(p)
      BY <2>1, <3>2 DEF Skip, Duplicate, Send
    <3>3. CASE Mark(p) \/ Release(p)
      BY <1>3, <2>0, <3>3, EndKeepsOwns
    <3>4. QED
      BY <1>3, <3>1, <3>2, <3>3 DEF Step
  <2>7. CASE \E p \in Pods : ReleaseLost(p)
    BY <1>3, <2>7 DEF ReleaseLost
  <2>8. QED
    BY <2>2, <2>3, <2>4, <2>5, <2>6, <2>7 DEF Next
<1>4. QED
  BY <1>1, <1>2, <1>3

\* As long as no handler outlives its reservation, one pod at a time works on an
\* event: SET NX, the lease and the script of release keep the others out.
THEOREM Exclusive == Spec => []ExclusiveWhilePrompt
<1> DEFINE Inv == TypeOK /\ Offsets /\ Owns
<1>1. Init => Inv
  <2>1. Init => Owns
    BY DEF Init, Waiting, AtWork, Owns, ExclusiveWhilePrompt
  <2>2. QED
    BY <2>1, InitType
<1>2. Inv /\ [Next]_vars => Inv'
  BY TypeStep, OwnsStep
<1>3. Inv => ExclusiveWhilePrompt
  BY DEF Owns, ExclusiveWhilePrompt
<1>4. QED
  BY <1>1, <1>2, <1>3, PTL DEF Spec

-----------------------------------------------------------------------------
(* Markers and emails                                                      *)

\* Whoever is about to mark was there before, or has just sent the email.
LEMMA AboutToMark ==
  ASSUME TypeOK, Offsets, [Next]_vars, NEW q \in Pods, pod'[q].pc = "mark"
  PROVE  \/ pod[q].pc = "mark" /\ pod'[q].event = pod[q].event
         \/ Send(q) /\ pod'[q].event = pod[q].event
<1>0. pod \in [Pods -> Handler] /\ AtWork(q)'
  BY DEF TypeOK, AtWork
<1>1. ASSUME NEW p \in Pods, NEW l, Goto(p, l)
      PROVE  pod'[q] = pod[q] \/ (q = p /\ l = "mark")
  <2>1. pod[p] \in [pc: {"waiting", "send", "mark", "release"}, event: Events \cup {NoEvent},
                    offset: Nat, until: Nat]
    BY <1>0 DEF Handler
  <2>2. CASE q = p
    <3>1. pod'[p] = [pod[p] EXCEPT !.pc = l]
      BY <1>0, <1>1 DEF Goto
    <3>2. pod'[p].pc = l
      BY <2>1, <3>1
    <3>3. QED
      BY <2>2, <3>2
  <2>3. CASE q # p
    BY <1>0, <1>1, <2>3 DEF Goto
  <2>4. QED
    BY <2>2, <2>3
<1>2. ASSUME NEW p \in Pods, pod' = [pod EXCEPT ![p] = Waiting]
      PROVE  pod'[q] = pod[q]
  BY <1>0, <1>2 DEF AtWork, Waiting
<1>3. ASSUME NEW p \in Pods, Reserve(p)
      PROVE  pod'[q] = pod[q]
  <2>1. PICK m \in Message :
          pod' = [pod EXCEPT ![p] = [pc |-> "send", event |-> m.event,
                                     offset |-> position + 1, until |-> now + LeaseTTL]]
    BY <1>3 DEF Reserve
  <2>2. p # q
    BY <1>0, <2>1
  <2>3. QED
    BY <1>0, <2>1, <2>2
<1>4. QED
  <2>1. CASE UNCHANGED pod
    BY <2>1
  <2>2. CASE UNCHANGED vars \/ Tick \/ Commit \/ \E m \in Message : Publish(m)
    BY <2>1, <2>2 DEF vars, Tick, Commit, Publish
  <2>3. CASE \E p \in Pods : Join(p) \/ Rebalance(p) \/ ReserveFails(p) \/ ReleaseLost(p)
    BY <2>1, <2>3 DEF Join, Rebalance, Assign, ReserveFails, ReleaseLost
  <2>4. CASE \E p \in Pods : Crash(p) \/ MarkFails(p) \/ ReleaseFails(p)
    BY <1>2, <2>4 DEF Crash, MarkFails, ReleaseFails, Throw
  <2>5. CASE \E p \in Pods : SendFails(p)
    BY <1>1, <2>5 DEF SendFails
  <2>6. CASE \E p \in Pods : Step(p)
    <3>1. PICK p \in Pods : Step(p)
      BY <2>6
    <3>2. CASE Skip(p) \/ Duplicate(p)
      BY <2>1, <3>2 DEF Skip, Duplicate
    <3>3. CASE Mark(p) \/ Release(p)
      BY <1>2, <3>3 DEF Mark, Done, Release, Throw
    <3>4. CASE Send(p)
      <4>1. pod'[q] = pod[q] \/ q = p
        BY <1>1, <3>4 DEF Send
      <4>2. CASE q = p
        BY <1>0, <3>4, <4>2, HandlerKept DEF Send, AtWork
      <4>3. QED
        BY <4>1, <4>2
    <3>5. QED
      BY <1>3, <3>1, <3>2, <3>3, <3>4 DEF Step
  <2>7. QED
    BY <2>2, <2>3, <2>4, <2>5, <2>6 DEF Next

\* Only markProcessed makes a marker.
LEMMA Marked ==
  ASSUME TypeOK, Offsets, [Next]_vars, NEW e \in Events, key'[e].state = "PROCESSED"
  PROVE  \/ key[e].state = "PROCESSED" /\ key'[e] = key[e]
         \/ \E p \in Pods : Mark(p) /\ pod[p].event = e
<1>0. key \in [Events -> KeyType]
  BY DEF TypeOK, KeyType
<1>1. CASE UNCHANGED key
  BY <1>1
<1>2. ASSUME NEW x, Reserved(x) PROVE key'[e] = key[e]
  BY <1>0, <1>2 DEF Reserved
<1>3. ASSUME NEW p \in Pods, Mark(p), pod[p].event # e PROVE key'[e] = key[e]
  BY <1>0, <1>3 DEF Mark
<1>4. ASSUME NEW p \in Pods, Release(p) \/ ReleaseLost(p)
      PROVE  key'[e] = key[e]
  <2>1. key'[e] = key[e] \/ key'[e] = NoKey
    BY <1>0, <1>4 DEF Release, ReleaseLost, Dropped
  <2>2. QED
    BY <2>1 DEF NoKey
<1>5. CASE Tick
  <2>1. key'[e] = key[e] \/ key'[e] = NoKey
    BY <1>5 DEF Tick
  <2>2. QED
    BY <2>1 DEF NoKey
<1>6. QED
  <2>1. CASE UNCHANGED vars \/ Commit \/ \E m \in Message : Publish(m)
    BY <1>1, <2>1 DEF vars, Commit, Publish
  <2>2. CASE \E p \in Pods : \/ Join(p) \/ Rebalance(p) \/ Crash(p)
                             \/ SendFails(p) \/ MarkFails(p) \/ ReleaseFails(p)
    BY <1>1, <2>2 DEF Join, Rebalance, Assign, Crash, SendFails, MarkFails, ReleaseFails
  <2>3. CASE \E p \in Pods : ReserveFails(p)
    BY <1>2, <2>3 DEF ReserveFails
  <2>4. CASE \E p \in Pods : Step(p)
    <3>1. PICK p \in Pods : Step(p)
      BY <2>4
    <3>2. CASE Skip(p) \/ Duplicate(p) \/ Send(p)
      BY <1>1, <3>2 DEF Skip, Duplicate, Send
    <3>3. CASE Reserve(p)
      BY <1>2, <3>3 DEF Reserve
    <3>4. QED
      BY <1>3, <1>4, <3>1, <3>2, <3>3 DEF Step
  <2>5. QED
    BY <1>4, <1>5, <2>1, <2>2, <2>3, <2>4 DEF Next

\* The email is out before the mark is tried, in every step.
LEMMA SentStep ==
  ASSUME TypeOK, Offsets, SentBeforeMark, [Next]_vars
  PROVE  SentBeforeMark'
<1>0. /\ sent \in [Events -> Nat] /\ sent' \in [Events -> Nat]
      /\ \A e \in Events : sent'[e] >= sent[e]
      /\ \A q \in Pods : AtWork(q) => pod[q].event \in Events
  BY CountsStep DEF TypeOK, Counts
<1>1. ASSUME NEW q \in Pods, pod'[q].pc = "mark" PROVE sent'[pod'[q].event] > 0
  <2>1. CASE pod[q].pc = "mark" /\ pod'[q].event = pod[q].event
    <3>1. pod[q].event \in Events /\ sent[pod[q].event] > 0
      BY <1>0, <2>1 DEF SentBeforeMark, AtWork
    <3>2. QED
      BY <1>0, <2>1, <3>1
  <2>2. CASE Send(q) /\ pod'[q].event = pod[q].event
    <3>1. pod[q].event \in Events
      BY <1>0, <2>2 DEF Send, AtWork
    <3>2. sent'[pod[q].event] = sent[pod[q].event] + 1
      BY <1>0, <2>2, <3>1 DEF Send
    <3>3. QED
      BY <1>0, <2>2, <3>1, <3>2
  <2>3. QED
    BY <1>1, <2>1, <2>2, AboutToMark
<1>2. QED
  BY <1>1 DEF SentBeforeMark

\* A marker tells the truth, in every step.
LEMMA MarkerStep ==
  ASSUME TypeOK, Offsets, SentBeforeMark, MarkerIsTrue, [Next]_vars
  PROVE  MarkerIsTrue'
<1>0. /\ sent \in [Events -> Nat] /\ sent' \in [Events -> Nat]
      /\ \A e \in Events : sent'[e] >= sent[e]
  BY CountsStep DEF TypeOK, Counts
<1>1. ASSUME NEW e \in Events, key'[e].state = "PROCESSED" PROVE sent[e] > 0
  BY <1>1, Marked DEF MarkerIsTrue, SentBeforeMark, Mark
<1>2. QED
  BY <1>0, <1>1 DEF MarkerIsTrue

\* A PROCESSED event has been sent.
THEOREM MarkersTrue == Spec => []MarkerIsTrue
<1> DEFINE Inv == TypeOK /\ Offsets /\ SentBeforeMark /\ MarkerIsTrue
<1>1. Init => Inv
  <2>1. Init => SentBeforeMark /\ MarkerIsTrue
    BY DEF Init, Waiting, NoKey, SentBeforeMark, MarkerIsTrue
  <2>2. QED
    BY <2>1, InitType
<1>2. Inv /\ [Next]_vars => Inv'
  BY TypeStep, SentStep, MarkerStep
<1>3. QED
  BY <1>1, <1>2, PTL DEF Spec

\* As long as no time passes, no step takes a marker away.
LEMMA MarkerStays ==
  ASSUME TypeOK, Offsets, [Next]_vars, NEW e \in Events, key[e].state = "PROCESSED",
         now' = now
  PROVE  key'[e].state = "PROCESSED"
<1>0. key \in [Events -> KeyType] /\ now \in Nat
  BY DEF TypeOK, KeyType
<1>1. CASE UNCHANGED key
  BY <1>1
<1>2. ASSUME NEW x, Absent(x), Reserved(x) PROVE key'[e].state = "PROCESSED"
  <2>1. x # e
    BY <1>2 DEF Absent
  <2>2. QED
    BY <1>0, <1>2, <2>1 DEF Reserved
<1>3. ASSUME NEW p \in Pods, Mark(p) PROVE key'[e].state = "PROCESSED"
  BY <1>0, <1>3 DEF Mark
<1>4. ASSUME NEW p \in Pods, Release(p) \/ ReleaseLost(p)
      PROVE  key'[e].state = "PROCESSED"
  BY <1>0, <1>4 DEF Release, ReleaseLost, Dropped
<1>5. ~ Tick
  BY <1>0 DEF Tick
<1>6. QED
  <2>1. CASE UNCHANGED vars \/ Commit \/ \E m \in Message : Publish(m)
    BY <1>1, <2>1 DEF vars, Commit, Publish
  <2>2. CASE \E p \in Pods : \/ Join(p) \/ Rebalance(p) \/ Crash(p)
                             \/ SendFails(p) \/ MarkFails(p) \/ ReleaseFails(p)
    BY <1>1, <2>2 DEF Join, Rebalance, Assign, Crash, SendFails, MarkFails, ReleaseFails
  <2>3. CASE \E p \in Pods : ReserveFails(p)
    BY <1>2, <2>3 DEF ReserveFails
  <2>4. CASE \E p \in Pods : Step(p)
    <3>1. PICK p \in Pods : Step(p)
      BY <2>4
    <3>2. CASE Skip(p) \/ Duplicate(p) \/ Send(p)
      BY <1>1, <3>2 DEF Skip, Duplicate, Send
    <3>3. CASE Reserve(p)
      BY <1>2, <3>3 DEF Reserve
    <3>4. QED
      BY <1>3, <1>4, <3>1, <3>2, <3>3 DEF Step
  <2>5. QED
    BY <1>4, <1>5, <2>1, <2>2, <2>3, <2>4 DEF Next

\* A PROCESSED marker stays until its TTL runs out: no release, however late,
\* takes it away.
THEOREM MarkersKept == Spec => MarkerKept
<1>1. Init => TypeOK /\ Offsets
  BY InitType
<1>2. (TypeOK /\ Offsets) /\ [Next]_vars => (TypeOK /\ Offsets)'
  BY TypeStep
<1>3. TypeOK /\ Offsets /\ [Next]_vars =>
        [\A e \in Events : key[e].state = "PROCESSED" /\ now' = now =>
           key'[e].state = "PROCESSED"]_vars
  BY MarkerStays
<1>4. QED
  BY <1>1, <1>2, <1>3, PTL DEF Spec, MarkerKept

-----------------------------------------------------------------------------
(* One email                                                               *)

\* An event that was sent, and has no excuse for a second email, is marked or
\* about to be.
Once == ~ lapsed => \A e \in Events : e \notin Again =>
  /\ sent[e] <= 1
  /\ sent[e] = 1 => \/ key[e].state = "PROCESSED"
                    \/ \E p \in Pods : pod[p].pc = "mark" /\ pod[p].event = e

\* Excuses are never withdrawn, and only a send, or a doubtful one, sends.
LEMMA ExcusesKept ==
  ASSUME TypeOK, Offsets, [Next]_vars
  PROVE  /\ lapsed => lapsed'
         /\ unmarked \subseteq unmarked' /\ doubtful \subseteq doubtful'
         /\ forgotten \subseteq forgotten'
         /\ \A e \in Events : \/ sent'[e] = sent[e] \/ e \in doubtful'
                              \/ \E p \in Pods : Send(p) /\ pod[p].event = e
<1> DEFINE Goal == /\ lapsed => lapsed'
                   /\ unmarked \subseteq unmarked' /\ doubtful \subseteq doubtful'
                   /\ forgotten \subseteq forgotten'
                   /\ \A e \in Events : \/ sent'[e] = sent[e] \/ e \in doubtful'
                                        \/ \E p \in Pods : Send(p) /\ pod[p].event = e
<1>0. sent \in [Events -> Nat]
  BY DEF TypeOK
<1>1. CASE UNCHANGED <<sent, history>>
  BY <1>1 DEF history
<1>2. CASE Tick
  BY <1>2 DEF Tick
<1>3. ASSUME NEW p \in Pods, Crash(p) \/ MarkFails(p) PROVE Goal
  BY <1>3 DEF Crash, MarkFails
<1>4. ASSUME NEW p \in Pods, Send(p) PROVE Goal
  BY <1>0, <1>4 DEF Send, history
<1>5. ASSUME NEW p \in Pods, SendFails(p) PROVE Goal
  BY <1>0, <1>5 DEF SendFails
<1>6. ASSUME NEW p \in Pods, ReleaseLost(p) PROVE Goal
  BY <1>6 DEF ReleaseLost
<1>7. QED
  <2>1. CASE UNCHANGED vars \/ Commit \/ \E m \in Message : Publish(m)
    BY <1>1, <2>1 DEF vars, history, Commit, Publish
  <2>2. CASE \E p \in Pods : Join(p) \/ Rebalance(p) \/ ReserveFails(p) \/ ReleaseFails(p)
    BY <1>1, <2>2 DEF Join, Rebalance, Assign, ReserveFails, ReleaseFails, history
  <2>3. CASE \E p \in Pods : Step(p)
    <3>1. PICK p \in Pods : Step(p)
      BY <2>3
    <3>2. CASE Skip(p) \/ Duplicate(p) \/ Reserve(p) \/ Mark(p) \/ Release(p)
      BY <1>1, <3>2 DEF Skip, Duplicate, Reserve, Mark, Release, history
    <3>3. QED
      BY <1>4, <3>1, <3>2 DEF Step
  <2>4. QED
    BY <1>2, <1>3, <1>5, <1>6, <2>1, <2>2, <2>3 DEF Next

\* A handler leaves "mark" with the marker set, or with its event unmarked.
LEMMA MarkEnds ==
  ASSUME TypeOK, Offsets, [Next]_vars, NEW q \in Pods, pod[q].pc = "mark"
  PROVE  \/ pod'[q] = pod[q]
         \/ key'[pod[q].event].state = "PROCESSED"
         \/ pod[q].event \in unmarked'
<1>0. /\ pod \in [Pods -> Handler] /\ key \in [Events -> KeyType]
      /\ pod[q].event \in Events
  BY DEF TypeOK, KeyType, AtWork
<1>1. CASE UNCHANGED pod
  BY <1>1
<1>2. ASSUME NEW p \in Pods, p # q, \E h : pod' = [pod EXCEPT ![p] = h] PROVE pod'[q] = pod[q]
  BY <1>0, <1>2
<1>3. CASE \E p \in Pods : Reserve(p)
  <2>1. PICK p \in Pods : Reserve(p)
    BY <1>3
  <2>2. p # q
    BY <2>1 DEF Reserve, Delivered, AtWork
  <2>3. QED
    BY <1>2, <2>1, <2>2 DEF Reserve
<1>4. ASSUME NEW p \in Pods, Crash(p) \/ MarkFails(p)
      PROVE  pod'[q] = pod[q] \/ pod[q].event \in unmarked'
  <2>1. CASE p = q
    BY <1>4, <2>1 DEF Crash, MarkFails
  <2>2. CASE p # q
    BY <1>2, <1>4, <2>2 DEF Crash, MarkFails, Throw
  <2>3. QED
    BY <2>1, <2>2
<1>5. ASSUME NEW p \in Pods, ReleaseFails(p) \/ Release(p)
      PROVE  pod'[q] = pod[q]
  <2>1. p # q
    BY <1>5 DEF ReleaseFails, Release
  <2>2. QED
    BY <1>2, <1>5, <2>1 DEF ReleaseFails, Release, Throw
<1>6. ASSUME NEW p \in Pods, Send(p) \/ SendFails(p)
      PROVE  pod'[q] = pod[q]
  <2>1. p # q
    BY <1>6 DEF Send, SendFails
  <2>2. QED
    BY <1>0, <1>6, <2>1 DEF Send, SendFails, Goto
<1>7. ASSUME NEW p \in Pods, Mark(p)
      PROVE  pod'[q] = pod[q] \/ key'[pod[q].event].state = "PROCESSED"
  <2>1. CASE p = q
    BY <1>0, <1>7, <2>1 DEF Mark
  <2>2. CASE p # q
    BY <1>2, <1>7, <2>2 DEF Mark, Done
  <2>3. QED
    BY <2>1, <2>2
<1>8. QED
  <2>1. CASE UNCHANGED vars \/ Tick \/ Commit \/ \E m \in Message : Publish(m)
    BY <1>1, <2>1 DEF vars, Tick, Commit, Publish
  <2>2. CASE \E p \in Pods : Join(p) \/ Rebalance(p) \/ ReserveFails(p) \/ ReleaseLost(p)
    BY <1>1, <2>2 DEF Join, Rebalance, Assign, ReserveFails, ReleaseLost
  <2>3. CASE \E p \in Pods : Step(p)
    <3>1. PICK p \in Pods : Step(p)
      BY <2>3
    <3>2. CASE Skip(p) \/ Duplicate(p)
      BY <1>1, <3>2 DEF Skip, Duplicate
    <3>3. QED
      BY <1>3, <1>5, <1>6, <1>7, <3>1, <3>2 DEF Step
  <2>4. QED
    BY <1>4, <1>5, <1>6, <2>1, <2>2, <2>3 DEF Next

\* Once is kept by every step.
LEMMA OnceStep ==
  ASSUME TypeOK, Offsets, Owns, Once, [Next]_vars
  PROVE  Once'
<1> SUFFICES ASSUME ~ lapsed', NEW e \in Events, e \notin Again'
             PROVE  /\ sent'[e] <= 1
                    /\ sent'[e] = 1 =>
                         \/ key'[e].state = "PROCESSED"
                         \/ \E p \in Pods : pod'[p].pc = "mark" /\ pod'[p].event = e
  BY DEF Once
<1>0. /\ sent \in [Events -> Nat] /\ key \in [Events -> KeyType] /\ now \in Nat
      /\ pod \in [Pods -> Handler] /\ MaxTime \in Nat
  BY BoundAssumption DEF TypeOK, KeyType
<1>1. ~ lapsed /\ e \notin Again
  BY ExcusesKept DEF Again
<1>2. /\ sent[e] <= 1
      /\ sent[e] = 1 => \/ key[e].state = "PROCESSED"
                        \/ \E p \in Pods : pod[p].pc = "mark" /\ pod[p].event = e
  BY <1>1 DEF Once
<1>3. ASSUME NEW p \in Pods, Send(p), pod[p].event = e
      PROVE  sent'[e] = 1 /\ pod'[p].pc = "mark" /\ pod'[p].event = e
  <2>1. AtWork(p) /\ Owner(p)
    BY <1>1, <1>3 DEF Send, AtWork, Owns
  <2>2. key[e].state # "PROCESSED"
    BY <1>3, <2>1 DEF Owner
  <2>3. ASSUME NEW q \in Pods, pod[q].pc = "mark", pod[q].event = e PROVE FALSE
    BY <1>1, <1>3, <2>1, <2>3 DEF Send, AtWork, Owns, ExclusiveWhilePrompt
  <2>4. sent[e] = 0
    BY <1>0, <1>2, <2>2, <2>3
  <2>5. sent'[e] = 1
    BY <1>0, <1>3, <2>4 DEF Send
  <2>6. pod[p] \in [pc: {"waiting", "send", "mark", "release"}, event: Events \cup {NoEvent},
                    offset: Nat, until: Nat]
    BY <1>0 DEF Handler
  <2>7. pod'[p] = [pod[p] EXCEPT !.pc = "mark"]
    BY <1>0, <1>3 DEF Send, Goto
  <2>8. pod'[p].pc = "mark" /\ pod'[p].event = e
    BY <1>3, <2>6, <2>7
  <2>9. QED
    BY <2>5, <2>8
<1>4. CASE sent'[e] = sent[e]
  <2>1. CASE key[e].state = "PROCESSED" /\ now' = now
    BY <1>2, <1>4, <2>1, MarkerStays
  <2>2. CASE key[e].state = "PROCESSED" /\ Tick
    <3>1. ~ (key[e].expires <= now + 1)
      BY <2>2 DEF Tick, Again
    <3>2. key'[e] = key[e]
      BY <2>2, <3>1 DEF Tick
    <3>3. QED
      BY <1>2, <1>4, <2>2, <3>2
  <2>3. ASSUME NEW q \in Pods, pod[q].pc = "mark", pod[q].event = e
        PROVE  key'[e].state = "PROCESSED" \/ (pod'[q].pc = "mark" /\ pod'[q].event = e)
    BY <2>3, MarkEnds DEF Again
  <2>4. now' = now \/ Tick
    <3>1. CASE UNCHANGED vars \/ Commit \/ \E m \in Message : Publish(m)
      BY <3>1 DEF vars, Commit, Publish
    <3>2. CASE \E p \in Pods : \/ Join(p) \/ Rebalance(p) \/ Crash(p) \/ ReserveFails(p)
                               \/ SendFails(p) \/ MarkFails(p) \/ ReleaseLost(p)
                               \/ ReleaseFails(p)
      BY <3>2 DEF Join, Rebalance, Assign, Crash, ReserveFails, SendFails, MarkFails, ReleaseLost,
                  ReleaseFails
    <3>3. CASE \E p \in Pods : Step(p)
      BY <3>3 DEF Step, Skip, Reserve, Duplicate, Send, Mark, Release
    <3>4. QED
      BY <3>1, <3>2, <3>3 DEF Next
  <2>5. QED
    BY <1>2, <1>4, <2>1, <2>2, <2>3, <2>4
<1>5. CASE \E p \in Pods : Send(p) /\ pod[p].event = e
  BY <1>3, <1>5
<1>6. QED
  BY <1>4, <1>5, ExcusesKept DEF Again

\* A second email needs a handler that outlived its reservation, one that ended
\* between the send and the mark, a provider that sent what it refused, or a
\* marker that has run out.
THEOREM SecondEmail == Spec => []SecondEmailExplained
<1> DEFINE Inv == TypeOK /\ Offsets /\ Owns /\ Once
<1>1. Init => Inv
  <2>1. Init => Owns
    BY DEF Init, Waiting, AtWork, Owns, ExclusiveWhilePrompt
  <2>2. Init => Once
    BY DEF Init, Once
  <2>3. QED
    BY <2>1, <2>2, InitType
<1>2. Inv /\ [Next]_vars => Inv'
  BY TypeStep, OwnsStep, OnceStep
<1>3. Inv => SecondEmailExplained
  BY DEF Once, SecondEmailExplained
<1>4. QED
  BY <1>1, <1>2, <1>3, PTL DEF Spec

-----------------------------------------------------------------------------
(* Nothing is dropped in silence                                           *)

\* A handler works on the valid message at its offset.
OwnMessage == \A p \in Pods : AtWork(p) =>
  log[pod[p].offset].event = pod[p].event /\ log[pod[p].offset].body = "valid"

\* Whatever has a key is explained, so that a duplicate is.
KeyExplained == \A e \in Events : ~ Absent(e) => Explained(e)

\* The log only grows.
LEMMA LogKept ==
  ASSUME TypeOK, Offsets, [Next]_vars, NEW i \in 1..Len(log)
  PROVE  log'[i] = log[i]
<1>1. ASSUME NEW m \in Message, Publish(m) PROVE log'[i] = log[i]
  BY <1>1 DEF Publish, TypeOK
<1>2. CASE UNCHANGED log
  BY <1>2
<1>3. QED
  <2>1. CASE UNCHANGED vars \/ Tick \/ Commit
    BY <1>2, <2>1 DEF vars, kafka, Tick, Commit
  <2>2. CASE \E p \in Pods : Join(p) \/ Rebalance(p) \/ Crash(p) \/ ReserveFails(p)
                             \/ SendFails(p) \/ MarkFails(p) \/ ReleaseLost(p) \/ ReleaseFails(p)
    BY <1>2, <2>2 DEF Join, Rebalance, Assign, Crash, ReserveFails, SendFails, MarkFails,
                      ReleaseLost, ReleaseFails, kafka
  <2>3. CASE \E p \in Pods : Step(p)
    BY <1>2, <2>3 DEF Step, Skip, Reserve, Duplicate, Send, Mark, Release, kafka
  <2>4. QED
    BY <1>1, <2>1, <2>2, <2>3 DEF Next

\* A handler keeps its offset until it ends.
LEMMA OffsetKept ==
  ASSUME TypeOK, Offsets, [Next]_vars, NEW q \in Pods, AtWork(q)', AtWork(q)
  PROVE  pod'[q].offset = pod[q].offset
<1>0. pod \in [Pods -> Handler]
  BY DEF TypeOK
<1>1. ASSUME NEW p \in Pods, NEW l, Goto(p, l)
      PROVE  pod'[q].offset = pod[q].offset
  <2>1. pod[q] \in [pc: {"waiting", "send", "mark", "release"}, event: Events \cup {NoEvent},
                    offset: Nat, until: Nat]
    BY <1>0 DEF Handler
  <2>2. pod'[q] = pod[q] \/ pod'[q] = [pod[q] EXCEPT !.pc = l]
    BY <1>0, <1>1 DEF Goto
  <2>3. QED
    BY <2>1, <2>2
<1>2. ASSUME NEW p \in Pods, pod' = [pod EXCEPT ![p] = Waiting]
      PROVE  pod'[q].offset = pod[q].offset
  <2>1. q # p
    BY <1>0, <1>2 DEF AtWork, Waiting
  <2>2. QED
    BY <1>0, <1>2, <2>1
<1>3. ASSUME NEW p \in Pods, Reserve(p)
      PROVE  pod'[q].offset = pod[q].offset
  <2>1. q # p
    BY <1>3 DEF Reserve, Delivered
  <2>2. QED
    BY <1>0, <1>3, <2>1 DEF Reserve
<1>4. QED
  <2>1. CASE UNCHANGED vars \/ Tick \/ Commit \/ \E m \in Message : Publish(m)
    BY <2>1 DEF vars, Tick, Commit, Publish
  <2>2. CASE \E p \in Pods : Join(p) \/ Rebalance(p) \/ ReserveFails(p) \/ ReleaseLost(p)
    BY <2>2 DEF Join, Rebalance, Assign, ReserveFails, ReleaseLost
  <2>3. CASE \E p \in Pods : Crash(p) \/ MarkFails(p) \/ ReleaseFails(p)
    BY <1>2, <2>3 DEF Crash, MarkFails, ReleaseFails, Throw
  <2>4. CASE \E p \in Pods : SendFails(p)
    BY <1>1, <2>4 DEF SendFails
  <2>5. CASE \E p \in Pods : Step(p)
    <3>1. PICK p \in Pods : Step(p)
      BY <2>5
    <3>2. CASE Skip(p) \/ Duplicate(p)
      BY <3>2 DEF Skip, Duplicate
    <3>3. CASE Mark(p) \/ Release(p)
      BY <1>2, <3>3 DEF Mark, Done, Release, Throw
    <3>4. CASE Send(p)
      BY <1>1, <3>4 DEF Send
    <3>5. QED
      BY <1>3, <3>1, <3>2, <3>3, <3>4 DEF Step
  <2>6. QED
    BY <2>1, <2>2, <2>3, <2>4, <2>5 DEF Next

\* Handlers keep to their messages.
LEMMA OwnMessageStep ==
  ASSUME TypeOK, Offsets, OwnMessage, [Next]_vars
  PROVE  OwnMessage'
<1>1. ASSUME NEW p \in Pods, AtWork(p)'
      PROVE  /\ log'[pod'[p].offset].event = pod'[p].event
             /\ log'[pod'[p].offset].body = "valid"
  <2>1. CASE AtWork(p)
    <3>1. pod'[p].offset = pod[p].offset /\ pod'[p].event = pod[p].event
      BY <1>1, <2>1, OffsetKept, HandlerKept
    <3>2. pod[p].offset \in 1..Len(log)
      BY <2>1 DEF Offsets
    <3>3. log'[pod[p].offset] = log[pod[p].offset]
      BY <3>2, LogKept
    <3>4. QED
      BY <2>1, <3>1, <3>3 DEF OwnMessage
  <2>2. CASE ~ AtWork(p)
    <3>1. Reserve(p)
      BY <1>1, <2>2, StartsByReserve
    <3>2. PICK m \in Message :
            /\ Delivered(p, m) /\ m.body = "valid"
            /\ pod' = [pod EXCEPT ![p] = [pc |-> "send", event |-> m.event,
                                          offset |-> position + 1, until |-> now + LeaseTTL]]
      BY <3>1 DEF Reserve
    <3>3. log' = log /\ m = log[position + 1]
      BY <3>1, <3>2 DEF Reserve, kafka, Delivered
    <3>4. pod'[p].event = m.event /\ pod'[p].offset = position + 1
      BY <3>2 DEF TypeOK
    <3>5. QED
      BY <3>2, <3>3, <3>4
  <2>3. QED
    BY <2>1, <2>2
<1>2. QED
  BY <1>1 DEF OwnMessage

\* How a handler ends.
LEMMA HandlerEnds ==
  ASSUME TypeOK, Offsets, [Next]_vars, NEW q \in Pods, AtWork(q), ~ AtWork(q)'
  PROVE  Crash(q) \/ Mark(q) \/ MarkFails(q) \/ Release(q) \/ ReleaseFails(q)
<1>0. pod \in [Pods -> Handler]
  BY DEF TypeOK
<1>1. CASE UNCHANGED pod
  BY <1>1 DEF AtWork
<1>2. ASSUME NEW p \in Pods, pod' = [pod EXCEPT ![p] = Waiting]
      PROVE  p = q
  BY <1>0, <1>2 DEF AtWork
<1>3. ASSUME NEW p \in Pods, Reserve(p)
      PROVE  FALSE
  <2>1. p # q
    BY <1>3 DEF Reserve, Delivered
  <2>2. pod'[q] = pod[q]
    BY <1>0, <1>3, <2>1 DEF Reserve
  <2>3. QED
    BY <2>2 DEF AtWork
<1>4. ASSUME NEW p \in Pods, NEW l \in {"mark", "release"}, Goto(p, l)
      PROVE  FALSE
  <2>1. pod[q] \in [pc: {"waiting", "send", "mark", "release"}, event: Events \cup {NoEvent},
                    offset: Nat, until: Nat]
    BY <1>0 DEF Handler
  <2>2. pod'[q] = pod[q] \/ pod'[q] = [pod[q] EXCEPT !.pc = l]
    BY <1>0, <1>4 DEF Goto
  <2>3. QED
    BY <2>1, <2>2 DEF AtWork
<1>5. QED
  <2>1. CASE UNCHANGED vars \/ Tick \/ Commit \/ \E m \in Message : Publish(m)
    BY <1>1, <2>1 DEF vars, Tick, Commit, Publish
  <2>2. CASE \E p \in Pods : Join(p) \/ Rebalance(p) \/ ReserveFails(p) \/ ReleaseLost(p)
    BY <1>1, <2>2 DEF Join, Rebalance, Assign, ReserveFails, ReleaseLost
  <2>3. CASE \E p \in Pods : Crash(p) \/ MarkFails(p) \/ ReleaseFails(p)
    BY <1>2, <2>3 DEF Crash, MarkFails, ReleaseFails, Throw
  <2>4. CASE \E p \in Pods : SendFails(p)
    BY <1>4, <2>4 DEF SendFails
  <2>5. CASE \E p \in Pods : Step(p)
    <3>1. PICK p \in Pods : Step(p)
      BY <2>5
    <3>2. CASE Skip(p) \/ Duplicate(p)
      BY <1>1, <3>2 DEF Skip, Duplicate
    <3>3. CASE Mark(p) \/ Release(p)
      BY <1>2, <3>3 DEF Mark, Done, Release, Throw
    <3>4. CASE Send(p)
      BY <1>4, <3>4 DEF Send
    <3>5. QED
      BY <1>3, <3>1, <3>2, <3>3, <3>4 DEF Step
  <2>6. QED
    BY <2>1, <2>2, <2>3, <2>4, <2>5 DEF Next

\* What was given up stays given up.
LEMMA GivenKept ==
  ASSUME TypeOK, Offsets, [Next]_vars
  PROVE  abandoned \subseteq abandoned' /\ skipped \subseteq skipped'
<1>1. CASE UNCHANGED <<abandoned, skipped>>
  BY <1>1
<1>2. QED
  <2>1. CASE UNCHANGED vars \/ Tick \/ Commit \/ \E m \in Message : Publish(m)
    BY <1>1, <2>1 DEF vars, history, Tick, Commit, Publish
  <2>2. CASE \E p \in Pods : Join(p) \/ Rebalance(p)
    BY <2>2 DEF Join, Rebalance, Assign
  <2>3. CASE \E p \in Pods : Crash(p) \/ ReserveFails(p) \/ ReleaseFails(p)
    BY <2>3 DEF Crash, ReserveFails, ReleaseFails
  <2>4. CASE \E p \in Pods : SendFails(p) \/ MarkFails(p) \/ ReleaseLost(p)
    BY <1>1, <2>4 DEF SendFails, MarkFails, ReleaseLost
  <2>5. CASE \E p \in Pods : Step(p)
    <3>1. PICK p \in Pods : Step(p)
      BY <2>5
    <3>2. CASE Skip(p) \/ Duplicate(p) \/ Reserve(p) \/ Send(p) \/ Mark(p)
      BY <1>1, <3>2 DEF Skip, Duplicate, Reserve, Send, Mark, history
    <3>3. QED
      BY <3>1, <3>2 DEF Step, Release
  <2>6. QED
    BY <2>1, <2>2, <2>3, <2>4, <2>5 DEF Next

\* What is explained stays so, but for a release of a message to be retried.
LEMMA ExplainedKept ==
  ASSUME TypeOK, Offsets, SentBeforeMark, [Next]_vars, NEW e \in Events, Explained(e)
  PROVE  \/ Explained(e)'
         \/ \E p \in Pods : Release(p) /\ pod[p].event = e /\ ~ Passed(e)
<1>0. /\ sent \in [Events -> Nat] /\ sent' \in [Events -> Nat] /\ sent'[e] >= sent[e]
      /\ abandoned \subseteq abandoned' /\ skipped \subseteq skipped'
  BY CountsStep, GivenKept DEF TypeOK, Counts
<1>1. CASE sent[e] > 0 \/ e \in abandoned \cup skipped
  BY <1>0, <1>1 DEF Explained
<1>2. ASSUME NEW q \in Pods, AtWork(q), pod[q].event = e
      PROVE  \/ Explained(e)'
             \/ \E p \in Pods : Release(p) /\ pod[p].event = e /\ ~ Passed(e)
  <2>1. CASE AtWork(q)'
    <3>1. pod'[q].event = e
      BY <1>2, <2>1, HandlerKept
    <3>2. QED
      BY <2>1, <3>1 DEF Explained, BeingHandled
  <2>2. CASE ~ AtWork(q)'
    <3>1. CASE pod[q].pc = "mark"
      BY <1>0, <1>2, <3>1 DEF SentBeforeMark, Explained
    <3>2. CASE pod[q].pc # "mark"
      <4>1. pod[q].pc \in {"send", "release"}
        BY <1>2, <3>2 DEF TypeOK, Handler, AtWork
      <4>2. CASE Crash(q) \/ ReleaseFails(q)
        BY <1>2, <4>1, <4>2 DEF Crash, ReleaseFails, Explained
      <4>3. CASE Release(q)
        BY <1>2, <4>3 DEF Release, Explained
      <4>4. CASE Mark(q) \/ MarkFails(q)
        BY <3>2, <4>4 DEF Mark, MarkFails
      <4>5. QED
        BY <1>2, <2>2, <4>2, <4>3, <4>4, HandlerEnds
    <3>3. QED
      BY <3>1, <3>2
  <2>3. QED
    BY <2>1, <2>2
<1>3. QED
  BY <1>1, <1>2 DEF Explained, BeingHandled

\* A key comes from a reservation or a mark.
LEMMA KeyMade ==
  ASSUME TypeOK, Offsets, [Next]_vars, NEW e \in Events, ~ Absent(e)'
  PROVE  \/ key'[e] = key[e]
         \/ \E p \in Pods : AtWork(p)' /\ pod'[p].event = e
         \/ e \in abandoned'
         \/ \E p \in Pods : Mark(p) /\ pod[p].event = e
<1>0. key \in [Events -> KeyType] /\ pod \in [Pods -> Handler]
  BY DEF TypeOK, KeyType
<1>1. CASE UNCHANGED key
  BY <1>1
<1>2. ASSUME NEW x, Reserved(x), x # e PROVE key'[e] = key[e]
  BY <1>0, <1>2 DEF Reserved
<1>3. ASSUME NEW p \in Pods, Mark(p), pod[p].event # e PROVE key'[e] = key[e]
  BY <1>0, <1>3 DEF Mark
<1>4. ASSUME NEW p \in Pods, Release(p) \/ ReleaseLost(p)
      PROVE  key'[e] = key[e]
  <2>1. key'[e] = key[e] \/ key'[e] = NoKey
    BY <1>0, <1>4 DEF Release, ReleaseLost, Dropped
  <2>2. QED
    BY <2>1 DEF NoKey, Absent
<1>5. CASE Tick
  <2>1. key'[e] = key[e] \/ key'[e] = NoKey
    BY <1>5 DEF Tick
  <2>2. QED
    BY <2>1 DEF NoKey, Absent
<1>6. ASSUME NEW p \in Pods, Reserve(p)
      PROVE  key'[e] = key[e] \/ (AtWork(p)' /\ pod'[p].event = e)
  <2>1. PICK m \in Message :
          /\ Reserved(m.event)
          /\ pod' = [pod EXCEPT ![p] = [pc |-> "send", event |-> m.event,
                                        offset |-> position + 1, until |-> now + LeaseTTL]]
    BY <1>6 DEF Reserve
  <2>2. AtWork(p)' /\ pod'[p].event = m.event
    BY <1>0, <2>1 DEF AtWork
  <2>3. QED
    BY <1>2, <2>1, <2>2
<1>7. ASSUME NEW p \in Pods, ReserveFails(p)
      PROVE  key'[e] = key[e] \/ e \in abandoned'
  BY <1>2, <1>7 DEF ReserveFails
<1>8. QED
  <2>1. CASE UNCHANGED vars \/ Commit \/ \E m \in Message : Publish(m)
    BY <1>1, <2>1 DEF vars, Commit, Publish
  <2>2. CASE \E p \in Pods : \/ Join(p) \/ Rebalance(p) \/ Crash(p)
                             \/ SendFails(p) \/ MarkFails(p) \/ ReleaseFails(p)
    BY <1>1, <2>2 DEF Join, Rebalance, Assign, Crash, SendFails, MarkFails, ReleaseFails
  <2>3. CASE \E p \in Pods : Step(p)
    <3>1. PICK p \in Pods : Step(p)
      BY <2>3
    <3>2. CASE Skip(p) \/ Duplicate(p) \/ Send(p)
      BY <1>1, <3>2 DEF Skip, Duplicate, Send
    <3>3. QED
      BY <1>3, <1>4, <1>6, <3>1, <3>2 DEF Step
  <2>4. QED
    BY <1>4, <1>5, <1>7, <2>1, <2>2, <2>3 DEF Next

\* A duplicate is always one of something explained, in every step.
LEMMA KeyExplainedStep ==
  ASSUME TypeOK, Offsets, SentBeforeMark, MarkerIsTrue, KeyExplained, [Next]_vars
  PROVE  KeyExplained'
<1> SUFFICES ASSUME NEW e \in Events, ~ Absent(e)' PROVE Explained(e)'
  BY DEF KeyExplained
<1>0. /\ sent \in [Events -> Nat] /\ sent' \in [Events -> Nat] /\ sent'[e] >= sent[e]
      /\ key \in [Events -> KeyType]
  BY CountsStep DEF TypeOK, Counts, KeyType
<1>1. CASE key'[e] = key[e]
  <2>1. Explained(e)
    BY <1>1 DEF Absent, KeyExplained
  <2>2. ASSUME NEW p \in Pods, Release(p), pod[p].event = e PROVE Explained(e)'
    <3>1. key'[e] = Dropped(e)
      BY <1>0, <2>2 DEF Release
    <3>2. key[e].state = "PROCESSED"
      BY <1>0, <3>1 DEF Dropped, NoKey, Absent, KeyType
    <3>3. QED
      BY <1>0, <3>2 DEF MarkerIsTrue, Explained
  <2>3. QED
    BY <2>1, <2>2, ExplainedKept
<1>2. CASE \E p \in Pods : AtWork(p)' /\ pod'[p].event = e
  BY <1>2 DEF Explained, BeingHandled
<1>3. CASE e \in abandoned'
  BY <1>3 DEF Explained
<1>4. CASE \E p \in Pods : Mark(p) /\ pod[p].event = e
  BY <1>0, <1>4 DEF Mark, SentBeforeMark, Explained
<1>5. QED
  BY <1>1, <1>2, <1>3, <1>4, KeyMade

\* How the owner gets past a valid message.
LEMMA PositionMoves ==
  ASSUME TypeOK, Offsets, OwnMessage, committed <= position, [Next]_vars,
         NEW i \in 1..position', i > position,
         log'[i].body = "valid"
  PROVE  /\ log' = log
         /\ \/ ~ Absent(log[i].event)
            \/ log[i].event \in abandoned' \cup skipped'
            \/ \E p \in Pods : pod[p].pc = "mark" /\ pod[p].event = log[i].event
<1>0. /\ position \in Nat /\ committed \in Nat /\ log \in Seq(Message) /\ Len(log) \in Nat
      /\ i \in Int
  BY DEF TypeOK
<1> DEFINE Goal == /\ log' = log
                   /\ \/ ~ Absent(log[i].event)
                      \/ log[i].event \in abandoned' \cup skipped'
                      \/ \E p \in Pods : pod[p].pc = "mark" /\ pod[p].event = log[i].event
<1>1. CASE UNCHANGED position
  BY <1>0, <1>1
<1>2. ASSUME NEW p \in Pods, Assign(p)
      PROVE  Goal
  <2>1. committed = 0 /\ position' = Len(log)
    BY <1>0, <1>2 DEF Assign, From
  <2>2. i \in position + 1 .. Len(log)
    BY <1>0, <2>1
  <2>3. log[i].event \in EventsAt(position + 1 .. Len(log))
    BY <2>2 DEF EventsAt
  <2>4. QED
    BY <1>2, <2>1, <2>3 DEF Assign
<1>3. ASSUME NEW p \in Pods, Skip(p) \/ Duplicate(p) \/ ReserveFails(p)
      PROVE  Goal
  <2>1. i = position + 1 /\ log' = log
    BY <1>0, <1>3 DEF Skip, Duplicate, ReserveFails
  <2>2. QED
    BY <1>3, <2>1 DEF Skip, Duplicate, ReserveFails, Delivered
<1>4. ASSUME NEW p \in Pods, Mark(p)
      PROVE  Goal
  <2>1. i = position + 1 /\ pod[p].offset = position + 1 /\ log' = log
    BY <1>0, <1>4 DEF Mark, Done
  <2>2. log[i].event = pod[p].event
    BY <1>4, <2>1 DEF OwnMessage, Mark, AtWork
  <2>3. QED
    BY <1>4, <2>1, <2>2 DEF Mark
<1>5. QED
  <2>1. CASE UNCHANGED vars \/ Tick \/ Commit \/ \E m \in Message : Publish(m)
    BY <1>1, <2>1 DEF vars, kafka, Tick, Commit, Publish
  <2>2. CASE \E p \in Pods : Join(p) \/ Rebalance(p)
    BY <1>2, <2>2 DEF Join, Rebalance
  <2>3. CASE \E p \in Pods : Crash(p) \/ SendFails(p) \/ MarkFails(p) \/ ReleaseLost(p)
                             \/ ReleaseFails(p)
    BY <1>1, <2>3 DEF Crash, SendFails, MarkFails, ReleaseLost, ReleaseFails, Throw, kafka
  <2>4. CASE \E p \in Pods : Step(p)
    <3>1. PICK p \in Pods : Step(p)
      BY <2>4
    <3>2. CASE Reserve(p) \/ Send(p) \/ Release(p)
      BY <1>1, <3>2 DEF Reserve, Send, Release, Throw, kafka
    <3>3. QED
      BY <1>3, <1>4, <3>1, <3>2 DEF Step
  <2>5. QED
    BY <1>3, <2>1, <2>2, <2>3, <2>4 DEF Next

\* Every valid message gone past stays explained, in every step.
LEMMA DropStep ==
  ASSUME TypeOK, Offsets, SentBeforeMark, OwnMessage, KeyExplained, committed <= position,
         DropExplained, [Next]_vars
  PROVE  DropExplained'
<1>0. /\ position \in Nat /\ position <= Len(log) /\ Len(log) \in Nat /\ log \in Seq(Message)
      /\ position' \in Nat /\ position' <= Len(log') /\ log' \in Seq(Message)
      /\ Len(log') \in Nat
  <2>1. TypeOK'
    BY TypeStep
  <2>2. QED
    BY <2>1 DEF TypeOK
<1>1. ASSUME NEW i \in 1..position', log'[i].body = "valid",
             NEW e \in Events, e = log'[i].event
      PROVE  Explained(e)'
  <2>1. CASE i <= position
    <3>1. i \in 1..Len(log) /\ i \in 1..position
      BY <1>0, <2>1
    <3>2. log'[i] = log[i]
      BY <3>1, LogKept
    <3>3. Explained(e) /\ Passed(e)
      BY <1>1, <3>1, <3>2 DEF DropExplained, Passed
    <3>4. QED
      BY <3>3, ExplainedKept
  <2>2. CASE i > position
    <3>1. /\ log' = log
          /\ \/ ~ Absent(e) \/ e \in abandoned' \cup skipped'
             \/ \E p \in Pods : pod[p].pc = "mark" /\ pod[p].event = e
      BY <1>1, <2>2, PositionMoves
    <3>2. CASE e \in abandoned' \cup skipped'
      BY <3>2 DEF Explained
    <3>3. CASE \E p \in Pods : pod[p].pc = "mark" /\ pod[p].event = e
      <4>1. /\ sent'[e] >= sent[e] /\ sent[e] > 0
            /\ sent \in [Events -> Nat] /\ sent' \in [Events -> Nat]
        BY <3>3, CountsStep DEF SentBeforeMark, TypeOK, Counts
      <4>2. QED
        BY <4>1 DEF Explained
    <3>4. CASE ~ Absent(e)
      <4>1. Explained(e)
        BY <3>4 DEF KeyExplained
      <4>2. position' # position
        BY <1>0, <2>2
      <4>3. ~ \E p \in Pods : Release(p)
        BY <4>2 DEF Release, Throw
      <4>4. QED
        BY <4>1, <4>3, ExplainedKept
    <3>5. QED
      BY <3>1, <3>2, <3>3, <3>4
  <2>3. QED
    BY <1>0, <2>1, <2>2
<1>2. ASSUME NEW i \in 1..position' PROVE log'[i].event \in Events
  <2>1. i \in 1..Len(log')
    BY <1>0
  <2>2. log'[i] \in Message
    BY <1>0, <2>1
  <2>3. QED
    BY <2>2 DEF Message
<1>3. ASSUME NEW i \in 1..position', log'[i].body = "valid"
      PROVE  Explained(log[i].event)'
  <2>1. PICK e \in Events : e = log'[i].event
    BY <1>2
  <2>2. Explained(e)'
    BY <1>1, <1>3, <2>1
  <2>3. QED
    BY <2>1, <2>2 DEF Explained, BeingHandled
<1>4. QED
  BY <1>3 DEF DropExplained

\* The committed offset stays behind the owner's.
LEMMA BehindStep ==
  ASSUME TypeOK, Offsets, committed <= position, [Next]_vars
  PROVE  (committed <= position)'
<1>0. committed \in Nat /\ position \in Nat /\ committed <= Len(log) /\ Len(log) \in Nat
  BY DEF TypeOK
<1>1. CASE UNCHANGED <<committed, position>>
  BY <1>1
<1>2. ASSUME NEW p \in Pods, Assign(p) PROVE (committed <= position)'
  BY <1>0, <1>2 DEF Assign, From
<1>3. CASE UNCHANGED committed /\ position' = position + 1
  BY <1>0, <1>3
<1>4. QED
  <2>1. CASE UNCHANGED vars \/ Tick \/ \E m \in Message : Publish(m)
    BY <1>1, <2>1 DEF vars, kafka, Tick, Publish
  <2>2. CASE \E p \in Pods : Join(p) \/ Rebalance(p)
    BY <1>2, <2>2 DEF Join, Rebalance
  <2>3. CASE \E p \in Pods : Crash(p) \/ ReserveFails(p) \/ SendFails(p) \/ MarkFails(p)
                             \/ ReleaseLost(p) \/ ReleaseFails(p)
    BY <1>0, <1>1, <1>3, <2>3 DEF Crash, ReserveFails, SendFails, MarkFails, ReleaseLost,
                                  ReleaseFails, Throw, kafka
  <2>4. CASE \E p \in Pods : Step(p)
    <3>1. PICK p \in Pods : Step(p)
      BY <2>4
    <3>2. CASE Reserve(p) \/ Send(p) \/ Release(p)
      BY <1>1, <3>2 DEF Reserve, Send, Release, Throw, kafka
    <3>3. CASE Skip(p) \/ Duplicate(p) \/ Mark(p)
      BY <1>0, <1>1, <1>3, <3>3 DEF Skip, Duplicate, Mark, Done
    <3>4. QED
      BY <3>1, <3>2, <3>3 DEF Step
  <2>5. CASE Commit
    BY <1>0, <2>5 DEF Commit
  <2>6. QED
    BY <2>1, <2>2, <2>3, <2>4, <2>5 DEF Next

\* No valid event is passed over in silence.
THEOREM DropsExplained == Spec => []DropExplained
<1> DEFINE Inv == /\ TypeOK /\ Offsets /\ SentBeforeMark /\ MarkerIsTrue
                  /\ OwnMessage /\ KeyExplained /\ committed <= position /\ DropExplained
<1>1. Init => Inv
  <2>1. Init => SentBeforeMark /\ MarkerIsTrue /\ OwnMessage
    BY DEF Init, Waiting, NoKey, SentBeforeMark, MarkerIsTrue, OwnMessage, AtWork
  <2>2. Init => KeyExplained
    BY DEF Init, NoKey, KeyExplained, Absent
  <2>3. Init => committed <= position /\ DropExplained
    BY DEF Init, DropExplained
  <2>4. QED
    BY <2>1, <2>2, <2>3, InitType
<1>2. Inv /\ [Next]_vars => Inv'
  BY TypeStep, SentStep, MarkerStep, OwnMessageStep, KeyExplainedStep, BehindStep, DropStep
<1>3. QED
  BY <1>1, <1>2, PTL DEF Spec

-----------------------------------------------------------------------------
(* The mailer                                                              *)

Kept == [Contract!CNext]_(Contract!cvars)

\* What goes wrong without an email.
LEMMA Falters ==
  ASSUME TypeOK, NEW E \in SUBSET Events, UNCHANGED <<log, sent>>, lapsed' \in {lapsed, TRUE},
         Again' \in {Again, Again \cup E},
         abandoned' \cup skipped' \in {abandoned \cup skipped, abandoned \cup skipped \cup E}
  PROVE  Kept
<1>1. Posted' = Posted /\ HeldUp' = HeldUp
  BY DEF Posted, HeldUp, EventsAt
<1>2. Given' \in {Given, Given \cup E}
  BY <1>1 DEF Given
<1>3. (~ lapsed') \in {~ lapsed, FALSE}
  <2>1. CASE lapsed' = lapsed
    BY <2>1, Zenon
  <2>2. CASE lapsed' = TRUE
    BY <2>2, Zenon
  <2>3. QED
    BY <2>1, <2>2
<1>4. Contract!Falter(E)
  BY <1>1, <1>2, <1>3 DEF Contract!Falter
<1>5. QED
  BY <1>4 DEF Kept, Contract!CNext

\* Nothing the contract speaks of happens.
LEMMA Stutters ==
  ASSUME UNCHANGED <<log, sent, history>>
  PROVE  Kept
BY DEF Kept, Contract!cvars, Posted, HeldUp, EventsAt, Again, Given, history

\* What is appended to the log is posted.
LEMMA PublishKept ==
  ASSUME TypeOK, NEW m \in Message, Publish(m)
  PROVE  Kept
<1> DEFINE n == Len(log) + 1
<1>1. /\ log \in Seq(Message) /\ Len(log) \in Nat /\ m.event \in Events
      /\ log' = Append(log, m)
      /\ UNCHANGED <<sent, lapsed, unmarked, doubtful, abandoned, skipped, forgotten>>
  BY DEF TypeOK, Publish, history, Message
<1>2. /\ Len(log') = n /\ log'[n] = m /\ 1..n = 1..Len(log) \cup {n}
      /\ \A i \in 1..Len(log) : log'[i] = log[i]
  BY <1>1
<1>3. Posted' = IF m.body = "valid" THEN Posted \cup {m.event} ELSE Posted
  BY <1>1, <1>2 DEF Posted, EventsAt
<1>4. HeldUp' \in {HeldUp, HeldUp \cup {m.event}}
  <2> DEFINE Stuck == {i \in 1..Len(log) : \E j \in 1..i - 1 : log[j].body = "malformed"}
             Stuck2 == {i \in 1..n : \E j \in 1..i - 1 : log'[j].body = "malformed"}
  <2>1. ASSUME NEW i \in 1..Len(log) PROVE i \in Stuck2 <=> i \in Stuck
    <3>1. 1..i - 1 \subseteq 1..Len(log) /\ i \in 1..n
      BY <1>1, <1>2
    <3>2. QED
      BY <1>2, <3>1
  <2>2. Stuck2 = Stuck \/ Stuck2 = Stuck \cup {n}
    <3> HIDE DEF n
    <3>1. Stuck \subseteq 1..Len(log) /\ Stuck2 \subseteq 1..n
      OBVIOUS
    <3> HIDE DEF Stuck, Stuck2
    <3>2. QED
      BY <1>2, <2>1, <3>1
  <2>3. HeldUp' = {log'[i].event : i \in Stuck2} /\ HeldUp = {log[i].event : i \in Stuck}
    BY <1>2 DEF HeldUp, EventsAt
  <2>4. {log'[i].event : i \in Stuck} = {log[i].event : i \in Stuck}
    BY <1>2
  <2>5. {log'[i].event : i \in Stuck \cup {n}} = {log'[i].event : i \in Stuck} \cup {m.event}
    <3> HIDE DEF Stuck, n
    <3>1. QED
      BY <1>2
  <2> HIDE DEF Stuck, Stuck2
  <2>6. QED
    BY <2>2, <2>3, <2>4, <2>5
<1>5. Again' = Again /\ Given' \in {Given, Given \cup {m.event}}
  BY <1>1, <1>4 DEF Again, Given
<1>6. CASE m.body = "valid"
  <2>1. Contract!Post(m.event)
    BY <1>1, <1>3, <1>5, <1>6 DEF Contract!Post
  <2>2. QED
    BY <1>1, <2>1 DEF Kept, Contract!CNext
<1>7. CASE m.body # "valid"
  <2>1. Contract!Falter({m.event})
    BY <1>1, <1>3, <1>5, <1>7 DEF Contract!Falter
  <2>2. {m.event} \in SUBSET Events
    BY <1>1
  <2>3. QED
    BY <2>1, <2>2 DEF Kept, Contract!CNext
<1>8. QED
  BY <1>6, <1>7

\* An email of a handler that owns its event is the first one.
LEMMA FirstMail ==
  ASSUME TypeOK, Owns, Once, NEW p \in Pods, pod[p].pc = "send", ~ lapsed,
         pod[p].event \notin Again
  PROVE  sent[pod[p].event] = 0
<1> DEFINE e == pod[p].event
<1>1. AtWork(p) /\ e \in Events /\ sent \in [Events -> Nat]
  BY DEF AtWork, TypeOK
<1>2. key[e].state = "PROCESSING"
  BY <1>1 DEF Owns, Owner
<1>3. ~ \E q \in Pods : pod[q].pc = "mark" /\ pod[q].event = e
  BY <1>1 DEF Owns, ExclusiveWhilePrompt, AtWork
<1>4. sent[e] <= 1 /\ sent[e] # 1
  BY <1>1, <1>2, <1>3 DEF Once, Again
<1>5. QED
  BY <1>1, <1>4

\* An email is one the contract allows.
LEMMA MailKept ==
  ASSUME TypeOK, Offsets, OwnMessage, Owns, Once, NEW p \in Pods, Send(p) \/ SendFails(p)
  PROVE  Kept
<1> DEFINE e == pod[p].event
<1>1. AtWork(p) /\ e \in Events /\ pod[p].pc = "send"
  BY DEF Send, SendFails, AtWork, TypeOK
<1>2. e \in Posted
  <2>1. /\ pod[p].offset \in 1..Len(log)
        /\ log[pod[p].offset].event = e /\ log[pod[p].offset].body = "valid"
    BY <1>1 DEF OwnMessage, Offsets
  <2>2. QED
    BY <2>1 DEF Posted, EventsAt
<1>3. UNCHANGED <<log, lapsed, unmarked, abandoned, skipped, forgotten>>
  BY DEF Send, SendFails, kafka, history
<1>4. Posted' = Posted /\ Given' = Given
  BY <1>3 DEF Posted, Given, HeldUp, EventsAt
<1>5. CASE sent' = [sent EXCEPT ![e] = @ + 1]
  <2>1. Again' \in {Again, Again \cup {e}}
    BY <1>1, <1>5 DEF Send, SendFails, history, Again, TypeOK
  <2>2. Contract!Mail(e)
    BY <1>1, <1>2, <1>3, <1>4, <1>5, <2>1, FirstMail DEF Contract!Mail
  <2>3. QED
    BY <1>1, <2>2 DEF Kept, Contract!CNext
<1>6. CASE UNCHANGED <<sent, doubtful>>
  BY <1>3, <1>6, Stutters DEF history
<1>7. QED
  BY <1>5, <1>6 DEF Send, SendFails

\* Every step is one of the mailer, or none.
LEMMA StepKept ==
  ASSUME TypeOK, Offsets, OwnMessage, Owns, Once, [Next]_vars
  PROVE  Kept
<1>0. log \in Seq(Message) /\ Bounds /\ Handlers /\ Counts /\ Gone
  BY TypeParts
<1>1. CASE UNCHANGED vars \/ Commit
  BY <1>1, Stutters DEF vars, kafka, Commit
<1>2. CASE Tick
  <2> DEFINE E == {e \in Events : key[e].state = "PROCESSED" /\ key[e].expires <= now + 1}
  <2>1. /\ UNCHANGED <<log, sent, unmarked, doubtful, abandoned, skipped>>
        /\ forgotten' = forgotten \cup E
    BY <1>2 DEF Tick, kafka
  <2>2. lapsed' \in {lapsed, TRUE}
    BY <1>0, <1>2 DEF Tick, Counts
  <2>3. E \in SUBSET Events
    OBVIOUS
  <2> HIDE DEF E
  <2>4. /\ Again' = Again \cup E
        /\ abandoned' \cup skipped' = abandoned \cup skipped
    BY <2>1 DEF Again
  <2>5. QED
    BY <2>1, <2>2, <2>3, <2>4, Falters
<1>3. ASSUME NEW p \in Pods, Assign(p) PROVE Kept
  <2> DEFINE E == EventsAt(position + 1 .. Len(log))
  <2>1. E \in SUBSET Events
    <3>1. ASSUME NEW i \in position + 1 .. Len(log) PROVE log[i].event \in Events
      <4>1. i \in 1..Len(log)
        BY <1>0 DEF Bounds
      <4>2. log[i] \in Message
        BY <1>0, <4>1
      <4>3. QED
        BY <4>2 DEF Message
    <3>2. QED
      BY <3>1 DEF EventsAt
  <2>2. UNCHANGED <<log, sent, lapsed>> /\ Again' = Again
        /\ abandoned' \cup skipped' \in {abandoned \cup skipped, abandoned \cup skipped \cup E}
    BY <1>3 DEF Assign, Again
  <2>3. QED
    BY <2>1, <2>2, Falters
<1>4. ASSUME NEW p \in Pods, ReserveFails(p) PROVE Kept
  <2>1. PICK m \in Message : abandoned' = abandoned \cup {m.event}
    BY <1>4 DEF ReserveFails
  <2>2. {m.event} \in SUBSET Events
    BY DEF Message
  <2>3. UNCHANGED <<log, sent, lapsed>> /\ Again' = Again /\ skipped' = skipped
    BY <1>4 DEF ReserveFails, Again
  <2>4. QED
    BY <2>1, <2>2, <2>3, Falters
<1>5. ASSUME NEW p \in Pods, Crash(p) \/ MarkFails(p) \/ Release(p) \/ ReleaseFails(p)
      PROVE  Kept
  <2>1. CASE ~ AtWork(p)
    <3>1. UNCHANGED <<log, sent, history>>
      BY <1>5, <2>1 DEF Crash, MarkFails, Release, ReleaseFails, AtWork, history
    <3>2. QED
      BY <3>1, Stutters
  <2>2. CASE AtWork(p)
    <3> DEFINE E == {pod[p].event}
    <3>1. E \in SUBSET Events
      BY <1>0, <2>2 DEF Handlers
    <3>2. /\ UNCHANGED <<log, sent, lapsed, doubtful, skipped, forgotten>>
          /\ unmarked' \in {unmarked, unmarked \cup E}
          /\ abandoned' \in {abandoned, abandoned \cup E}
      BY <1>5 DEF Crash, MarkFails, Release, ReleaseFails
    <3>3. /\ Again' \in {Again, Again \cup E}
          /\ abandoned' \cup skipped' \in {abandoned \cup skipped, abandoned \cup skipped \cup E}
      BY <3>2 DEF Again
    <3> HIDE DEF E
    <3>4. QED
      BY <3>1, <3>2, <3>3, Falters
  <2>3. QED
    BY <2>1, <2>2
<1>6. ASSUME NEW p \in Pods, Skip(p) \/ Duplicate(p) \/ Reserve(p) \/ Mark(p)
      PROVE  Kept
  BY <1>6, Stutters DEF Skip, Duplicate, Reserve, Mark, kafka
<1>7. ASSUME NEW p \in Pods, ReleaseLost(p) PROVE Kept
  <2>1. /\ UNCHANGED <<log, sent>> /\ lapsed' = TRUE /\ Again' = Again
        /\ abandoned' \cup skipped' = abandoned \cup skipped
    BY <1>7 DEF ReleaseLost, kafka, Again
  <2>2. {} \in SUBSET Events
    OBVIOUS
  <2>3. QED
    BY <2>1, <2>2, Falters
<1>8. QED
  <2>1. CASE \E m \in Message : Publish(m)
    BY <2>1, PublishKept
  <2>2. CASE \E p \in Pods : Join(p) \/ Rebalance(p)
    BY <1>3, <2>2 DEF Join, Rebalance
  <2>3. CASE \E p \in Pods : Crash(p) \/ MarkFails(p) \/ ReleaseFails(p)
    BY <1>5, <2>3
  <2>4. CASE \E p \in Pods : SendFails(p)
    BY <2>4, MailKept
  <2>5. CASE \E p \in Pods : Step(p)
    BY <1>5, <1>6, <2>5, MailKept DEF Step
  <2>6. QED
    BY <1>1, <1>2, <1>4, <1>7, <2>1, <2>2, <2>3, <2>4, <2>5 DEF Next

\* The consumer implements the mailer's contract, for any TTLs.
THEOREM ImplementsContract == Spec => KeepsContract
<1> DEFINE Inv == TypeOK /\ Offsets /\ OwnMessage /\ Owns /\ Once
<1>1. Init => Inv /\ Contract!CInit
  <2>1. Init => Owns /\ OwnMessage
    BY DEF Init, Waiting, AtWork, Owns, ExclusiveWhilePrompt, OwnMessage
  <2>2. Init => Once
    BY DEF Init, Once
  <2>3. Init => Contract!CInit
    <3>1. Init => Posted = {} /\ HeldUp = {}
      BY DEF Init, Posted, HeldUp, EventsAt
    <3>2. QED
      BY <3>1 DEF Init, Contract!CInit, Again, Given
  <2>4. QED
    BY <2>1, <2>2, <2>3, InitType
<1>2. Inv /\ [Next]_vars => Inv'
  BY TypeStep, OwnMessageStep, OwnsStep, OnceStep
<1>3. Inv /\ [Next]_vars => [Contract!CNext]_(Contract!cvars)
  BY StepKept DEF Kept
<1>4. QED
  BY <1>1, <1>2, <1>3, PTL DEF Spec, KeepsContract, Contract!CSpec
=============================================================================
