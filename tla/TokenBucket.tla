----------------------------- MODULE TokenBucket -----------------------------
(***************************************************************************)
(* packages/ratelimit: the token bucket in Redis and the middleware of the *)
(* gateway around it.                                                      *)
(*                                                                         *)
(* The script runs in one step in Redis, against Redis's clock.  Around it *)
(* the limiter loads the script, survives a flushed script cache, and lets *)
(* the request through when Redis fails.  ioredis sends a command again    *)
(* when the connection is lost before the answer (maxRetriesPerRequest).   *)
(*                                                                         *)
(* Tokens are fractions: here they are counted in units, Unit of them to a *)
(* token, so that refilling is exact.  The time unit is the millisecond of *)
(* the script, MsPerSec of them to a second.                               *)
(***************************************************************************)
EXTENDS Integers

CONSTANTS
  Keys,       \* rate-limit keys: rl:<userId> or rl:<ip>
  Presets,    \* RATELIMIT_PRESETS
  Capacity,   \* Capacity[p]: tokens
  Rate,       \* Rate[p]: units per millisecond
  Unit,       \* units per token
  MsPerSec,   \* 1000
  Calls,      \* requests in flight
  NoKey, NoPreset,
  MaxFaults,  \* bound: lost answers, failed commands, flushes
  MaxBack,    \* bound: how often Redis's clock is set back
  MaxTime     \* bound: milliseconds

\* consume throws a RangeError for anything else.
ASSUME PresetAssumption ==
  /\ Presets # {}
  /\ Capacity \in [Presets -> Nat \ {0}] /\ Rate \in [Presets -> Nat \ {0}]
ASSUME UnitAssumption == Unit \in Nat \ {0} /\ MsPerSec \in Nat \ {0}
ASSUME BoundAssumption == MaxFaults \in Nat /\ MaxBack \in Nat /\ MaxTime \in Nat
ASSUME NoneAssumption == NoKey \notin Keys /\ NoPreset \notin Presets

VARIABLES
  bucket,  \* bucket[k]: the hash of k and when it expires
  now,     \* Redis's clock
  loaded,  \* Redis has the script
  cached,  \* scriptSha is set
  call,    \* call[c]: where consume is
  faults,  \* faults so far, for the bound
  back,    \* times the clock was set back, for the bound
  age,     \* history: milliseconds that have really passed
  taken,   \* history: taken[k][p]: tokens taken for k under p
  told     \* history: told[k]: the last denial of k, while nothing was taken

history == <<age, taken, told>>
vars == <<bucket, now, loaded, cached, call, faults, back, history>>

NoBucket == [tokens |-> 0, lastRefill |-> 0, expires |-> 0]
Idle == [pc |-> "idle", key |-> NoKey, preset |-> NoPreset]
NotTold == [preset |-> NoPreset, at |-> 0]

Fault == faults < MaxFaults /\ faults' = faults + 1

CeilDiv(a, b) == (a + b - 1) \div b
SmallerOf(a, b) == IF a <= b THEN a ELSE b

-----------------------------------------------------------------------------
(* The script                                                              *)

Full(p) == Capacity[p] * Unit

Present(k) == bucket[k].expires > 0

Elapsed(k) == IF now >= bucket[k].lastRefill THEN now - bucket[k].lastRefill ELSE 0

\* tokens after the refill.
Level(k, p) ==
  IF Present(k) THEN SmallerOf(Full(p), bucket[k].tokens + Elapsed(k) * Rate[p]) ELSE Full(p)

\* Slip: > for >=.
AllowsAbove(k, p) == Level(k, p) > Unit

Allows(k, p) == Level(k, p) >= Unit

Left(k, p) == IF Allows(k, p) THEN Level(k, p) - Unit ELSE Level(k, p)

\* Slip: floor for ceil.
ResetMsShort(k, p) == (Unit - Level(k, p)) \div Rate[p]

ResetMs(k, p) == CeilDiv(Unit - Level(k, p), Rate[p])

\* Slip: the TTL is rounded down.
TtlSecShort(p) == Full(p) \div (Rate[p] * MsPerSec)

TtlSec(p) == CeilDiv(Full(p), Rate[p] * MsPerSec) + 1

\* HSET and EXPIRE, and what becomes of the history.
Script(k, p) ==
  /\ bucket' = [bucket EXCEPT ![k] = [tokens |-> Left(k, p), lastRefill |-> now,
                                      expires |-> now + TtlSec(p) * MsPerSec]]
  /\ taken' = IF Allows(k, p) THEN [taken EXCEPT ![k][p] = @ + 1] ELSE taken
  /\ told' = [told EXCEPT ![k] = IF Allows(k, p) THEN NotTold
                                 ELSE [preset |-> p, at |-> now + ResetMs(k, p)]]

-----------------------------------------------------------------------------
(* consume and evalLua                                                     *)

Goto(c, l) == call' = [call EXCEPT ![c].pc = l]

\* A request of a route with the preset p: EVALSHA if the sha is known.
Consume(c, k, p) ==
  /\ call[c].pc = "idle"
  /\ call' = [call EXCEPT ![c] = [pc |-> IF cached THEN "try" ELSE "load",
                                  key |-> k, preset |-> p]]
  /\ UNCHANGED <<bucket, now, loaded, cached, faults, back, history>>

AtEval(c) == call[c].pc \in {"try", "eval"}

\* The script runs, and its answer arrives.
Eval(c) ==
  /\ AtEval(c) /\ loaded
  /\ Script(call[c].key, call[c].preset)
  /\ Goto(c, IF Allows(call[c].key, call[c].preset) THEN "allowed" ELSE "denied")
  /\ UNCHANGED <<now, loaded, cached, faults, age, back>>

\* The script runs and the connection is lost: the command is sent again, or
\* given up.
EvalLost(c) ==
  /\ AtEval(c) /\ loaded
  /\ Fault
  /\ Script(call[c].key, call[c].preset)
  /\ UNCHANGED call \/ Goto(c, "open")
  /\ UNCHANGED <<now, loaded, cached, age, back>>

\* NOSCRIPT: the first EVALSHA falls through to SCRIPT LOAD, the second throws.
NoScript(c) ==
  /\ AtEval(c) /\ ~ loaded
  /\ \/ call[c].pc = "try" /\ cached' = FALSE /\ Goto(c, "load")
     \/ call[c].pc = "eval" /\ UNCHANGED cached /\ Goto(c, "open")
  /\ UNCHANGED <<bucket, now, loaded, faults, back, history>>

Load(c) ==
  /\ call[c].pc = "load"
  /\ loaded' = TRUE /\ cached' = TRUE
  /\ Goto(c, "eval")
  /\ UNCHANGED <<bucket, now, faults, back, history>>

\* A command fails: consume throws, and the middleware fails open.
CommandFails(c) ==
  /\ AtEval(c) \/ call[c].pc = "load"
  /\ Fault
  /\ Goto(c, "open")
  /\ UNCHANGED <<bucket, now, loaded, cached, back, history>>

\* The middleware: next(), or 429 with Retry-After.
Answer(c) ==
  /\ call[c].pc \in {"allowed", "denied", "open"}
  /\ call' = [call EXCEPT ![c] = Idle]
  /\ UNCHANGED <<bucket, now, loaded, cached, faults, back, history>>

-----------------------------------------------------------------------------
(* Redis                                                                   *)

\* SCRIPT FLUSH, or a restart that keeps the keys.
Flush ==
  /\ loaded /\ Fault
  /\ loaded' = FALSE
  /\ UNCHANGED <<bucket, now, cached, call, back, history>>

Tick ==
  /\ age < MaxTime
  /\ now' = now + 1 /\ age' = age + 1
  /\ bucket' = [k \in Keys |-> IF bucket[k].expires <= now + 1 THEN NoBucket ELSE bucket[k]]
  /\ UNCHANGED <<loaded, cached, call, faults, taken, told, back>>

\* Redis's clock is set back, as math.max(0, ...) expects.
StepBack ==
  /\ back < MaxBack /\ back' = back + 1
  /\ \E t \in 0..(now - 1) : now' = t
  /\ UNCHANGED <<bucket, loaded, cached, call, faults, history>>

-----------------------------------------------------------------------------
Init ==
  /\ bucket = [k \in Keys |-> NoBucket]
  /\ now = 0 /\ loaded = FALSE /\ cached = FALSE
  /\ call = [c \in Calls |-> Idle]
  /\ faults = 0 /\ back = 0 /\ age = 0
  /\ taken = [k \in Keys |-> [p \in Presets |-> 0]]
  /\ told = [k \in Keys |-> NotTold]

Next ==
  \/ \E c \in Calls :
       \/ \E k \in Keys, p \in Presets : Consume(c, k, p)
       \/ Eval(c) \/ EvalLost(c) \/ NoScript(c) \/ Load(c) \/ CommandFails(c) \/ Answer(c)
  \/ Flush \/ Tick \/ StepBack

Spec == Init /\ [][Next]_vars

-----------------------------------------------------------------------------
(* Properties                                                              *)

Pcs == {"idle", "load", "try", "eval", "allowed", "denied", "open"}

\* Stored tokens are between nothing and a capacity, whatever the clock does.
TypeOK ==
  /\ bucket \in [Keys -> [tokens: Nat, lastRefill: Nat, expires: Nat]]
  /\ \A k \in Keys : Present(k) => \E p \in Presets : bucket[k].tokens <= Full(p)
  /\ now \in Nat /\ loaded \in BOOLEAN /\ cached \in BOOLEAN
  /\ call \in [Calls -> [pc: Pcs, key: Keys \cup {NoKey}, preset: Presets \cup {NoPreset}]]
  /\ \A c \in Calls : call[c].pc # "idle" => call[c].key \in Keys /\ call[c].preset \in Presets
  /\ faults \in Nat /\ back \in Nat /\ age \in Nat
  /\ taken \in [Keys -> [Presets -> Nat]]
  /\ told \in [Keys -> [preset: Presets \cup {NoPreset}, at: Nat]]

\* A preset's promise: never more tokens than a full bucket and what has flowed
\* in since, in particular when a bucket has expired and starts full again.
RateKept ==
  \A k \in Keys, p \in Presets : taken[k][p] * Unit <= Full(p) + Rate[p] * age

\* Who was denied and waits for as long as it was told finds a token, unless
\* another request of the same key has taken it.
RetryHonest ==
  \A k \in Keys : told[k] # NotTold /\ now >= told[k].at => Allows(k, told[k].preset)

Only == CHOOSE p \in Presets : TRUE

Contract == INSTANCE BucketContract WITH
  Token <- Unit, Brim <- Full(Only), Flow <- Rate[Only],
  level <- [k \in Keys |-> Level(k, Only)],
  answer <- [c \in Calls |-> IF call[c].pc \in {"allowed", "denied", "open"}
                             THEN call[c].pc ELSE "none"],
  steady <- back = 0

\* With one preset, and until the clock is set back, the stored level, the lazy
\* refill and the TTL are a bucket that is refilled all the time: nobody is
\* denied a token that is there, and nobody gets one that is not.
KeepsContract == Contract!CSpec
=============================================================================
