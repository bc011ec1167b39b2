------------------------- MODULE IdempotentConsumer -------------------------
(***************************************************************************)
(* notification-service: consuming one topic with an idempotency key in    *)
(* Redis, so that a Kafka redelivery does not send an email twice.  The    *)
(* OTP and the welcome consumer are two instances of this module: they     *)
(* have the same handler and separate topics, groups and key spaces.       *)
(*                                                                         *)
(* The handler is reserveIfNew, email.send, markProcessed or release, with *)
(* an await in between; each is one action, and so is its failure.  Kafka  *)
(* is external: one partition, at-least-once delivery from the committed   *)
(* offset, one owner at a time, and an owner that lost the partition to    *)
(* another pod may still be inside its handler.                            *)
(***************************************************************************)
EXTENDS Integers, Sequences, FiniteSets

CONSTANTS
  Pods,          \* replicas of the service
  Events,        \* eventIds
  NoPod, NoEvent,
  LeaseTTL,      \* IDEMPOTENCY_PROCESSING_LEASE_SECONDS, in ticks
  ProcessedTTL,  \* IDEMPOTENCY_TTL_SECONDS
  MaxFaults,     \* bound: crashes, rebalances and failed calls
  MaxTime        \* bound: ticks

ASSUME TtlAssumption == LeaseTTL \in Nat \ {0} /\ ProcessedTTL \in Nat \ {0}
ASSUME BoundAssumption == MaxFaults \in Nat /\ MaxTime \in Nat
ASSUME NoneAssumption == NoPod \notin Pods /\ NoEvent \notin Events

VARIABLES
  log,        \* the partition: the messages published, in order
  committed,  \* the group's committed offset: 1..committed are done; 0: none yet
  owner,      \* the pod the partition is assigned to
  position,   \* the owner's offset: it has resolved the messages up to it
  start,      \* the offset the owner started from
  key,        \* key[e]: the idempotency key of e and when it expires
  pod,        \* pod[p]: where the handler of pod p is
  sent,       \* sent[e]: emails sent for e
  now,        \* the clock
  faults,     \* faults so far, for the bound
  lapsed,     \* history: a handler was at work after its reservation was gone
  unmarked,   \* history: events sent by a handler that ended before the mark
  doubtful,   \* history: events sent although the provider's answer was an error
  abandoned,  \* history: events a handler ended without having sent
  skipped,    \* history: events an assignment passed over
  forgotten   \* history: events whose marker has run out

kafka == <<log, committed, owner, position, start>>
history == <<lapsed, unmarked, doubtful, abandoned, skipped, forgotten>>
vars == <<kafka, key, pod, sent, now, faults, history>>

\* "invalid" fails the schema, "malformed" is not JSON.
Message == [event: Events, body: {"valid", "invalid", "malformed"}]

NoKey == [state |-> "ABSENT", expires |-> 0]

Waiting == [pc |-> "waiting", event |-> NoEvent, offset |-> 0, until |-> 0]

\* p holds, or believes to hold, the reservation of its event.
AtWork(p) == pod[p].pc # "waiting"

Fault == faults < MaxFaults /\ faults' = faults + 1

-----------------------------------------------------------------------------
(* Kafka and the pods (external)                                           *)

\* user-service publishes each event once: its eventId is fresh, and the
\* producer is idempotent.
Publish(m) ==
  /\ \A i \in 1..Len(log) : log[i].event # m.event
  /\ log' = Append(log, m)
  /\ UNCHANGED <<committed, owner, position, start, key, pod, sent, now, faults, history>>

EventsAt(I) == {log[i].event : i \in I}

\* subscribe with fromBeginning: false.  An owner starts from the committed
\* offset; as long as the group has committed none, from the end of the log.
From == IF committed = 0 THEN Len(log) ELSE committed

\* The partition goes to p.
Assign(p) ==
  /\ owner' = p /\ position' = From /\ start' = From
  /\ skipped' = IF committed = 0
                THEN skipped \cup EventsAt(position + 1 .. Len(log))
                ELSE skipped
  /\ UNCHANGED <<log, committed, key, pod, sent, now, lapsed, unmarked, doubtful, abandoned,
                 forgotten>>

Join(p) == owner = NoPod /\ Assign(p) /\ UNCHANGED faults

\* A rebalance, or a heartbeat that failed after the handler was done.
Rebalance(p) == owner # NoPod /\ Fault /\ Assign(p)

\* What the owner has resolved is committed, some time after.
Commit ==
  /\ owner # NoPod /\ start < position /\ committed < position
  /\ committed' = position
  /\ UNCHANGED <<log, owner, position, start, key, pod, sent, now, faults, history>>

\* p dies.  If it had sent the email, nobody will mark it; if it had not, its
\* reservation stays behind.
Crash(p) ==
  /\ AtWork(p) \/ owner = p
  /\ Fault
  /\ pod' = [pod EXCEPT ![p] = Waiting]
  /\ owner' = IF owner = p THEN NoPod ELSE owner
  /\ unmarked' = IF pod[p].pc = "mark" THEN unmarked \cup {pod[p].event} ELSE unmarked
  /\ abandoned' = IF pod[p].pc \in {"send", "release"}
                  THEN abandoned \cup {pod[p].event} ELSE abandoned
  /\ UNCHANGED <<log, committed, position, start, key, sent, now, lapsed, doubtful, skipped,
                 forgotten>>

-----------------------------------------------------------------------------
(* handle and process                                                      *)

\* The message the owner is given next.  A malformed one throws every time:
\* it is retried, and nothing changes.
Delivered(p, m) ==
  /\ owner = p /\ ~ AtWork(p)
  /\ position < Len(log) /\ m = log[position + 1]

\* process returns INVALID, which handle ignores: the offset is resolved.
Skip(p) ==
  /\ \E m \in Message : Delivered(p, m) /\ m.body = "invalid"
  /\ position' = position + 1
  /\ UNCHANGED <<log, committed, owner, start, key, pod, sent, now, faults, history>>

\* Slip: SET without NX.
AlwaysAbsent(e) == TRUE

Absent(e) == key[e].state = "ABSENT"

Reserved(e) ==
  key' = [key EXCEPT ![e] = [state |-> "PROCESSING", expires |-> now + LeaseTTL]]

\* reserveIfNew: SET NX EX lease.
Reserve(p) ==
  /\ \E m \in Message :
       /\ Delivered(p, m) /\ m.body = "valid" /\ Absent(m.event)
       /\ Reserved(m.event)
       /\ pod' = [pod EXCEPT ![p] = [pc |-> "send", event |-> m.event,
                                     offset |-> position + 1, until |-> now + LeaseTTL]]
  /\ UNCHANGED <<kafka, sent, now, faults, history>>

\* The SET took effect and its answer was lost.  process throws, and the message
\* is retried; or ioredis has sent the SET again, which finds the key: the message
\* is taken for a duplicate of itself, and resolved.
ReserveFails(p) ==
  /\ \E m \in Message :
       /\ Delivered(p, m) /\ m.body = "valid" /\ Absent(m.event)
       /\ Reserved(m.event)
       /\ abandoned' = abandoned \cup {m.event}
  /\ position' \in {position, position + 1}
  /\ Fault
  /\ UNCHANGED <<log, committed, owner, start, pod, sent, now, lapsed, unmarked, doubtful,
                 skipped, forgotten>>

\* Slip: a duplicate throws, and is retried.
DuplicateThrows(p) ==
  /\ \E m \in Message : Delivered(p, m) /\ m.body = "valid" /\ ~ Absent(m.event)
  /\ UNCHANGED vars

\* The key is there: process returns DUPLICATE, and the offset is resolved.
Duplicate(p) ==
  /\ \E m \in Message : Delivered(p, m) /\ m.body = "valid" /\ ~ Absent(m.event)
  /\ position' = position + 1
  /\ UNCHANGED <<log, committed, owner, start, key, pod, sent, now, faults, history>>

Goto(p, l) == pod' = [pod EXCEPT ![p].pc = l]

Send(p) ==
  /\ pod[p].pc = "send"
  /\ sent' = [sent EXCEPT ![pod[p].event] = @ + 1]
  /\ Goto(p, "mark")
  /\ UNCHANGED <<kafka, key, now, faults, history>>

\* The provider's answer is an error or lost: the email may have gone out.
SendFails(p) ==
  /\ pod[p].pc = "send"
  /\ Fault
  /\ \/ UNCHANGED <<sent, doubtful>>
     \/ /\ sent' = [sent EXCEPT ![pod[p].event] = @ + 1]
        /\ doubtful' = doubtful \cup {pod[p].event}
  /\ Goto(p, "release")
  /\ UNCHANGED <<kafka, key, now, lapsed, unmarked, abandoned, skipped, forgotten>>

\* The handler returns: the offset is resolved if p still has the partition.
Done(p) ==
  /\ pod' = [pod EXCEPT ![p] = Waiting]
  /\ position' = IF owner = p /\ pod[p].offset = position + 1
                 THEN position + 1 ELSE position

\* Slip: the error ends in the handler.
Swallow(p) == Done(p)

\* The handler throws: the offset is not resolved and the message is retried.
Throw(p) == pod' = [pod EXCEPT ![p] = Waiting] /\ UNCHANGED position

\* Slip: the reservation is dropped when the email is out.
MarkReleasing(p) ==
  /\ pod[p].pc = "mark"
  /\ key' = [key EXCEPT ![pod[p].event] = NoKey]
  /\ Done(p)
  /\ UNCHANGED <<log, committed, owner, start, sent, now, faults, history>>

\* markProcessed: SET EX, whatever the key holds.
Mark(p) ==
  /\ pod[p].pc = "mark"
  /\ key' = [key EXCEPT ![pod[p].event] =
               [state |-> "PROCESSED", expires |-> now + ProcessedTTL]]
  /\ Done(p)
  /\ UNCHANGED <<log, committed, owner, start, sent, now, faults, history>>

MarkFails(p) ==
  /\ pod[p].pc = "mark"
  /\ Fault
  /\ unmarked' = unmarked \cup {pod[p].event}
  /\ Throw(p)
  /\ UNCHANGED <<log, committed, owner, start, key, sent, now, lapsed, doubtful, abandoned,
                 skipped, forgotten>>

\* The script of release: DEL only what still holds PROCESSING.
Dropped(e) == IF key[e].state = "PROCESSING" THEN NoKey ELSE key[e]

\* The owner has gone past the message of e.
Passed(e) == \E i \in 1..position : log[i].event = e

\* release, then the error is thrown again.  It is of no use if another pod has
\* taken the reservation for a duplicate meanwhile, and resolved the message.
Release(p) ==
  /\ pod[p].pc = "release"
  /\ key' = [key EXCEPT ![pod[p].event] = Dropped(pod[p].event)]
  /\ Throw(p)
  /\ abandoned' = IF Passed(pod[p].event) THEN abandoned \cup {pod[p].event} ELSE abandoned
  /\ UNCHANGED <<log, committed, owner, start, sent, now, faults, lapsed, unmarked, doubtful,
                 skipped, forgotten>>

\* The script ran and its answer was lost: ioredis sends it again, and by then
\* the reservation it drops may be another pod's.
ReleaseLost(p) ==
  /\ pod[p].pc = "release"
  /\ Fault
  /\ key' = [key EXCEPT ![pod[p].event] = Dropped(pod[p].event)]
  /\ lapsed' = TRUE
  /\ UNCHANGED <<kafka, pod, sent, now, unmarked, doubtful, abandoned, skipped, forgotten>>

\* release fails: a warning is logged, the error is thrown again.
ReleaseFails(p) ==
  /\ pod[p].pc = "release"
  /\ Fault
  /\ Throw(p)
  /\ abandoned' = abandoned \cup {pod[p].event}
  /\ UNCHANGED <<log, committed, owner, start, key, sent, now, lapsed, unmarked, doubtful,
                 skipped, forgotten>>

\* Time passes, and Redis drops the keys whose TTL has run out.
Tick ==
  /\ now < MaxTime
  /\ now' = now + 1
  /\ key' = [e \in Events |-> IF key[e].expires <= now + 1 THEN NoKey ELSE key[e]]
  /\ forgotten' = forgotten \cup {e \in Events : /\ key[e].state = "PROCESSED"
                                                 /\ key[e].expires <= now + 1}
  /\ lapsed' = (lapsed \/ \E p \in Pods : AtWork(p) /\ pod[p].until <= now + 1)
  /\ UNCHANGED <<kafka, pod, sent, faults, unmarked, doubtful, abandoned, skipped>>

-----------------------------------------------------------------------------
Init ==
  /\ log = <<>> /\ committed = 0 /\ owner = NoPod /\ position = 0 /\ start = 0
  /\ key = [e \in Events |-> NoKey]
  /\ pod = [p \in Pods |-> Waiting]
  /\ sent = [e \in Events |-> 0]
  /\ now = 0 /\ faults = 0 /\ lapsed = FALSE /\ unmarked = {} /\ doubtful = {}
  /\ abandoned = {} /\ skipped = {} /\ forgotten = {}

\* What a pod does when nothing goes wrong.
Step(p) ==
  \/ Skip(p) \/ Reserve(p) \/ Duplicate(p) \/ Send(p) \/ Mark(p) \/ Release(p)

Next ==
  \/ \E m \in Message : Publish(m)
  \/ \E p \in Pods :
       \/ Join(p) \/ Rebalance(p) \/ Crash(p) \/ Step(p)
       \/ ReserveFails(p) \/ SendFails(p) \/ MarkFails(p)
       \/ ReleaseLost(p) \/ ReleaseFails(p)
  \/ Commit
  \/ Tick

Spec == Init /\ [][Next]_vars

\* Pods run, the group assigns its partition and commits what is resolved.
Fairness ==
  /\ WF_vars(\E p \in Pods : Join(p))
  /\ \A p \in Pods : WF_vars(Step(p))
  /\ WF_vars(Commit)

FairSpec == Spec /\ Fairness

-----------------------------------------------------------------------------
(* Properties                                                              *)

Handler == [pc: {"waiting", "send", "mark", "release"}, event: Events \cup {NoEvent},
            offset: Nat, until: Nat]

\* Offsets stay within the log, keys and handlers have their shapes.
TypeOK ==
  /\ log \in Seq(Message)
  /\ committed \in Nat /\ owner \in Pods \cup {NoPod} /\ position \in Nat
  /\ key \in [Events -> [state: {"ABSENT", "PROCESSING", "PROCESSED"}, expires: Nat]]
  /\ pod \in [Pods -> Handler]
  /\ \A p \in Pods : AtWork(p) => pod[p].event \in Events
  /\ sent \in [Events -> Nat]
  /\ now \in Nat /\ faults \in Nat /\ lapsed \in BOOLEAN /\ unmarked \subseteq Events
  /\ doubtful \subseteq Events /\ abandoned \subseteq Events /\ skipped \subseteq Events
  /\ forgotten \subseteq Events
  /\ start \in Nat
  /\ committed <= Len(log) /\ position <= Len(log)

\* As long as no handler outlives its reservation (its lease has run out, or its
\* release has been sent again), one pod at a time works on an event
\* (IDEMPOTENCY_PROCESSING_LEASE_SECONDS "must exceed worst-case send + retry
\* window"), whatever crashes, rebalances and failed calls there are.
ExclusiveWhilePrompt ==
  ~ lapsed => \A p, q \in Pods :
    p # q /\ AtWork(p) /\ AtWork(q) => pod[p].event # pod[q].event

\* The marker is true: a PROCESSED event has been sent.
MarkerIsTrue == \A e \in Events : key[e].state = "PROCESSED" => sent[e] > 0

\* A PROCESSED marker stays until its TTL runs out: no release, however late,
\* takes it away.
MarkerKept ==
  [][\A e \in Events : key[e].state = "PROCESSED" /\ now' = now =>
       key'[e].state = "PROCESSED"]_vars

\* What may bring a second email for an event: a handler that ended between the
\* send and the mark, a provider that sent what it refused, or a redelivery
\* after the marker has run out.
Again == unmarked \cup doubtful \cup forgotten

\* A second email needs one of these, or a handler that outlived its reservation.
SecondEmailExplained ==
  ~ lapsed => \A e \in Events : e \notin Again => sent[e] <= 1

BeingHandled(e) == \E p \in Pods : AtWork(p) /\ pod[p].event = e

Explained(e) == sent[e] > 0 \/ BeingHandled(e) \/ e \in abandoned \cup skipped

\* No valid event is passed over in silence: it is sent or being handled, or a
\* handler ended without having sent it (and its reservation turned the
\* redelivery into a duplicate), or the group had no offset yet to start from.
DropExplained == \A i \in 1..position : log[i].body = "valid" => Explained(log[i].event)

\* What the repository's comment promises: a crashed consumer's reservation
\* expires "so redelivery can retry", so that a valid event that was consumed
\* was sent, or is being sent.
NoSilentDrop ==
  \A i \in 1..committed : log[i].body = "valid" =>
    \/ sent[log[i].event] > 0 \/ BeingHandled(log[i].event)
    \/ log[i].event \in skipped

\* What the README of user-service promises: when Kafka redelivers, also after
\* a "crash mid-handle", "no second email is sent".  (A refusal of the provider
\* that was not one is left aside, and so is a marker that has run out.)
NoSecondEmail == \A e \in Events : e \notin doubtful \cup forgotten => sent[e] <= 1

Posted == EventsAt({i \in 1..Len(log) : log[i].body = "valid"})

\* A malformed message throws each time it is delivered, and holds up what is
\* behind it.
HeldUp ==
  EventsAt({i \in 1..Len(log) : \E j \in 1..i - 1 : log[j].body = "malformed"})

Given == abandoned \cup skipped \cup HeldUp

Contract == INSTANCE MailContract WITH
  posted <- Posted, mails <- sent, again <- Again, given <- Given, steady <- ~ lapsed

\* The consumer is a mailer: no second email without an excuse.
KeepsContract == Contract!CSpec

\* Every valid event is mailed, or given up: no reservation left behind, no
\* duplicate and no invalid message keeps the partition from moving on.
EventuallyMailed == Contract!Delivery
=============================================================================
