------------------------- MODULE TokenBucket_proofs -------------------------
(* Theorems about TokenBucket, for any keys, presets, faults and clocks.   *)
EXTENDS TokenBucket, TLAPS

-----------------------------------------------------------------------------
(* Arithmetic                                                              *)

\* Products of natural numbers.
LEMMA Times ==
  ASSUME NEW a \in Nat, NEW b \in Nat
  PROVE  a * b \in Nat
  OBVIOUS

LEMMA Distributes ==
  ASSUME NEW a \in Int, NEW b \in Int, NEW c \in Int
  PROVE  (a + b) * c = a * c + b * c
  OBVIOUS

LEMMA Monotone ==
  ASSUME NEW a \in Nat, NEW b \in Nat, NEW c \in Nat, a <= b
  PROVE  a * c <= b * c
<1>1. (b - a) * c \in Nat
  BY Times
<1>2. a * c + (b - a) * c = b * c
  OBVIOUS
<1>. QED
  BY <1>1, <1>2, Times

\* Rounding up loses nothing.
LEMMA CeilCovers ==
  ASSUME NEW a \in Nat, NEW b \in Nat \ {0}
  PROVE  /\ CeilDiv(a, b) \in Nat
         /\ a <= CeilDiv(a, b) * b
  BY DEF CeilDiv

-----------------------------------------------------------------------------
(* What the script computes                                                *)

LEMMA LevelBounds ==
  ASSUME TypeOK, NEW k \in Keys, NEW p \in Presets
  PROVE  /\ Full(p) \in Nat /\ Unit <= Full(p)
         /\ Elapsed(k) \in Nat /\ Elapsed(k) * Rate[p] \in Nat
         /\ Level(k, p) \in 0..Full(p)
         /\ Left(k, p) \in 0..Full(p)
<1>1. Full(p) \in Nat /\ Unit <= Full(p)
  <2>1. Capacity[p] \in Nat /\ 1 <= Capacity[p] /\ Unit \in Nat
    BY PresetAssumption, UnitAssumption
  <2>2. Capacity[p] * Unit \in Nat /\ 1 * Unit <= Capacity[p] * Unit
    BY <2>1, Times, Monotone
  <2>. QED
    BY <2>1, <2>2 DEF Full
<1>2. Elapsed(k) \in Nat
  BY DEF Elapsed, TypeOK
<1>3. Elapsed(k) * Rate[p] \in Nat
  BY <1>2, Times, PresetAssumption
<1>4. Level(k, p) \in 0..Full(p)
  BY <1>1, <1>3 DEF Level, SmallerOf, TypeOK
<1>5. Left(k, p) \in 0..Full(p)
  BY <1>1, <1>4, UnitAssumption DEF Left, Allows
<1>. QED
  BY <1>1, <1>2, <1>3, <1>4, <1>5

\* A bucket expires later than it was written, and not before it is full.
LEMMA TtlCovers ==
  ASSUME TypeOK, NEW p \in Presets
  PROVE  /\ TtlSec(p) * MsPerSec \in Nat \ {0}
         /\ Full(p) <= (TtlSec(p) * MsPerSec) * Rate[p]
<1>. DEFINE m == Rate[p] * MsPerSec
            c == CeilDiv(Full(p), m)
<1>1. Rate[p] \in Nat \ {0} /\ MsPerSec \in Nat \ {0} /\ Capacity[p] \in Nat /\ Unit \in Nat
  BY PresetAssumption, UnitAssumption
<1>2. m \in Nat \ {0}
  BY <1>1, SMT
<1>3. Full(p) \in Nat
  BY <1>1, Times DEF Full
<1>4. c \in Nat /\ Full(p) <= c * m
  BY <1>2, <1>3, CeilCovers
<1>5. TtlSec(p) = c + 1
  BY DEF TtlSec
<1>. HIDE DEF c
<1>6. (c + 1) * MsPerSec \in Nat \ {0}
  BY <1>1, <1>4, SMT
<1>7. ((c + 1) * MsPerSec) * Rate[p] = c * m + m
  BY <1>1, <1>4, SMT
<1>. HIDE DEF m
<1>. QED
  BY <1>2, <1>3, <1>4, <1>5, <1>6, <1>7, Times

LEMMA ResetNat ==
  ASSUME TypeOK, NEW k \in Keys, NEW p \in Presets, ~ Allows(k, p)
  PROVE  ResetMs(k, p) \in Nat
<1>1. Unit - Level(k, p) \in Nat
  BY LevelBounds, UnitAssumption DEF Allows
<1>. QED
  BY <1>1, CeilCovers, PresetAssumption DEF ResetMs

\* The bucket after the script.
LEMMA ScriptTypes ==
  ASSUME TypeOK, NEW k \in Keys, NEW p \in Presets, Script(k, p)
  PROVE  /\ bucket' \in [Keys -> [tokens: Nat, lastRefill: Nat, expires: Nat]]
         /\ bucket'[k] = [tokens |-> Left(k, p), lastRefill |-> now,
                          expires |-> now + TtlSec(p) * MsPerSec]
         /\ bucket'[k].expires > 0 /\ bucket'[k].tokens <= Full(p)
         /\ \A j \in Keys : j # k => bucket'[j] = bucket[j]
         /\ taken' \in [Keys -> [Presets -> Nat]]
         /\ told' \in [Keys -> [preset: Presets \cup {NoPreset}, at: Nat]]
<1>1. Left(k, p) \in Nat /\ Left(k, p) <= Full(p) /\ now \in Nat
  BY LevelBounds DEF TypeOK
<1>2. now + TtlSec(p) * MsPerSec \in Nat /\ now + TtlSec(p) * MsPerSec > 0
  BY <1>1, TtlCovers
<1>3. bucket' = [bucket EXCEPT ![k] = [tokens |-> Left(k, p), lastRefill |-> now,
                                       expires |-> now + TtlSec(p) * MsPerSec]]
  BY DEF Script
<1>4. taken' \in [Keys -> [Presets -> Nat]]
  <2>1. taken \in [Keys -> [Presets -> Nat]] /\ taken[k][p] + 1 \in Nat
    BY DEF TypeOK
  <2>. QED
    BY <2>1 DEF Script
<1>5. told' \in [Keys -> [preset: Presets \cup {NoPreset}, at: Nat]]
  <2>1. ~ Allows(k, p) => now + ResetMs(k, p) \in Nat
    BY <1>1, ResetNat
  <2>. QED
    BY <2>1 DEF Script, TypeOK, NotTold
<1>. QED
  BY <1>1, <1>2, <1>3, <1>4, <1>5 DEF TypeOK

-----------------------------------------------------------------------------
(* Types                                                                   *)

LEMMA TypeInit == Init => TypeOK
<1>. SUFFICES ASSUME Init PROVE TypeOK
  OBVIOUS
<1>1. /\ bucket \in [Keys -> [tokens: Nat, lastRefill: Nat, expires: Nat]]
      /\ \A k \in Keys : ~ Present(k)
  BY DEF Init, NoBucket, Present
<1>2. /\ call \in [Calls -> [pc: Pcs, key: Keys \cup {NoKey}, preset: Presets \cup {NoPreset}]]
      /\ \A c \in Calls : call[c].pc = "idle"
  BY DEF Init, Idle, Pcs
<1>3. /\ taken \in [Keys -> [Presets -> Nat]]
      /\ told \in [Keys -> [preset: Presets \cup {NoPreset}, at: Nat]]
  BY DEF Init, NotTold
<1>. QED
  BY <1>1, <1>2, <1>3 DEF Init, TypeOK

\* A call that goes on with the same key and preset.
LEMMA GotoTypes ==
  ASSUME TypeOK, NEW c \in Calls, NEW l \in Pcs, Goto(c, l), call[c].pc # "idle"
  PROVE  /\ call' \in [Calls -> [pc: Pcs, key: Keys \cup {NoKey},
                                 preset: Presets \cup {NoPreset}]]
         /\ \A x \in Calls : call'[x].pc # "idle" => call'[x].key \in Keys
                                                     /\ call'[x].preset \in Presets
  BY DEF TypeOK, Goto

\* The script, for a call with a key and a preset.
LEMMA EvalTypes ==
  ASSUME TypeOK, NEW c \in Calls, AtEval(c), Script(call[c].key, call[c].preset)
  PROVE  /\ bucket' \in [Keys -> [tokens: Nat, lastRefill: Nat, expires: Nat]]
         /\ \A k \in Keys : Present(k)' => \E p \in Presets : bucket'[k].tokens <= Full(p)
         /\ taken' \in [Keys -> [Presets -> Nat]]
         /\ told' \in [Keys -> [preset: Presets \cup {NoPreset}, at: Nat]]
<1>. DEFINE k == call[c].key
            p == call[c].preset
<1>1. k \in Keys /\ p \in Presets
  BY DEF TypeOK, AtEval
<1>. HIDE DEF k, p
<1>2. Script(k, p)
  BY DEF k, p
<1>. QED
  BY <1>1, <1>2, ScriptTypes DEF TypeOK, Present

THEOREM TypeCorrect == Spec => []TypeOK
<1>1. TypeOK /\ [Next]_vars => TypeOK'
  <2>. SUFFICES ASSUME TypeOK, [Next]_vars PROVE TypeOK'
    OBVIOUS
  <2>1. ASSUME NEW c \in Calls, NEW k \in Keys, NEW p \in Presets, Consume(c, k, p)
        PROVE  TypeOK'
    BY <2>1 DEF Consume, TypeOK, history, Pcs, Present, Full
  <2>2. ASSUME NEW c \in Calls, Eval(c) PROVE TypeOK'
    <3>1. /\ call' \in [Calls -> [pc: Pcs, key: Keys \cup {NoKey},
                                  preset: Presets \cup {NoPreset}]]
          /\ \A x \in Calls : call'[x].pc # "idle" => call'[x].key \in Keys
                                                      /\ call'[x].preset \in Presets
      BY <2>2, GotoTypes DEF Eval, AtEval, Pcs
    <3>. QED
      BY <2>2, <3>1, EvalTypes DEF Eval, TypeOK, Full
  <2>3. ASSUME NEW c \in Calls, EvalLost(c) PROVE TypeOK'
    <3>1. /\ call' \in [Calls -> [pc: Pcs, key: Keys \cup {NoKey},
                                  preset: Presets \cup {NoPreset}]]
          /\ \A x \in Calls : call'[x].pc # "idle" => call'[x].key \in Keys
                                                      /\ call'[x].preset \in Presets
      <4>1. CASE UNCHANGED call
        BY <4>1 DEF TypeOK
      <4>2. CASE Goto(c, "open")
        BY <2>3, <4>2, GotoTypes DEF EvalLost, AtEval, Pcs
      <4>. QED
        BY <2>3, <4>1, <4>2 DEF EvalLost
    <3>. QED
      BY <2>3, <3>1, EvalTypes DEF EvalLost, Fault, TypeOK, Full
  <2>4. ASSUME NEW c \in Calls, NoScript(c) PROVE TypeOK'
    <3>1. call[c].pc # "idle" /\ \E l \in {"load", "open"} : Goto(c, l)
      BY <2>4 DEF NoScript, AtEval
    <3>2. /\ call' \in [Calls -> [pc: Pcs, key: Keys \cup {NoKey},
                                  preset: Presets \cup {NoPreset}]]
          /\ \A x \in Calls : call'[x].pc # "idle" => call'[x].key \in Keys
                                                      /\ call'[x].preset \in Presets
      BY <3>1, GotoTypes DEF Pcs
    <3>3. UNCHANGED <<bucket, now, loaded, faults, back, age, taken, told>>
          /\ cached' \in BOOLEAN
      BY <2>4 DEF NoScript, history, TypeOK
    <3>. QED
      BY <3>2, <3>3 DEF TypeOK, Present, Full
  <2>5. ASSUME NEW c \in Calls, Load(c) PROVE TypeOK'
    BY <2>5 DEF Load, Goto, TypeOK, history, Pcs, Present, Full
  <2>6. ASSUME NEW c \in Calls, CommandFails(c) PROVE TypeOK'
    <3>1. faults' \in Nat
      BY <2>6 DEF CommandFails, Fault, TypeOK
    <3>2. call[c].pc # "idle" /\ Goto(c, "open")
      BY <2>6 DEF CommandFails, AtEval
    <3>3. /\ call' \in [Calls -> [pc: Pcs, key: Keys \cup {NoKey},
                                  preset: Presets \cup {NoPreset}]]
          /\ \A x \in Calls : call'[x].pc # "idle" => call'[x].key \in Keys
                                                      /\ call'[x].preset \in Presets
      BY <3>2, GotoTypes DEF Pcs
    <3>4. UNCHANGED <<bucket, now, loaded, cached, back, age, taken, told>>
      BY <2>6 DEF CommandFails, history
    <3>. QED
      BY <3>1, <3>3, <3>4 DEF TypeOK, Present, Full
  <2>7. ASSUME NEW c \in Calls, Answer(c) PROVE TypeOK'
    BY <2>7 DEF Answer, Idle, TypeOK, history, Pcs, Present, Full
  <2>8. CASE Flush
    <3>1. faults' \in Nat
      BY <2>8 DEF Flush, Fault, TypeOK
    <3>. QED
      BY <2>8, <3>1 DEF Flush, TypeOK, history, Pcs, Present, Full
  <2>9. CASE Tick
    BY <2>9 DEF Tick, NoBucket, TypeOK, Pcs, Present, Full
  <2>10. CASE StepBack
    BY <2>10 DEF StepBack, TypeOK, history, Pcs, Present, Full
  <2>11. CASE UNCHANGED vars
    BY <2>11 DEF vars, history, TypeOK, Pcs, Present, Full
  <2>. QED
    BY <2>1, <2>2, <2>3, <2>4, <2>5, <2>6, <2>7, <2>8, <2>9, <2>10, <2>11 DEF Next
<1>. QED
  BY <1>1, TypeInit, PTL DEF Spec

-----------------------------------------------------------------------------
(* A denial is honest                                                      *)

\* What a denial has said is what the bucket, as it was left, says.
Promises ==
  \A k \in Keys : told[k] # NotTold =>
    /\ told[k].preset \in Presets
    /\ Present(k) =>
         /\ bucket[k].tokens < Unit
         /\ told[k].at = bucket[k].lastRefill
                         + CeilDiv(Unit - bucket[k].tokens, Rate[told[k].preset])

LEMMA ScriptPromises ==
  ASSUME TypeOK, Promises, NEW k \in Keys, NEW p \in Presets, Script(k, p)
  PROVE  Promises'
<1>. SUFFICES ASSUME NEW j \in Keys, told'[j] # NotTold
              PROVE  /\ told'[j].preset \in Presets
                     /\ bucket'[j].expires > 0 =>
                          /\ bucket'[j].tokens < Unit
                          /\ told'[j].at = bucket'[j].lastRefill
                               + CeilDiv(Unit - bucket'[j].tokens, Rate[told'[j].preset])
  BY DEF Promises, Present, NotTold, CeilDiv
<1>1. CASE j # k
  <2>1. bucket'[j] = bucket[j] /\ told'[j] = told[j]
    BY <1>1, ScriptTypes DEF Script, TypeOK
  <2>. QED
    BY <2>1 DEF Promises, Present
<1>2. CASE j = k
  <2>1. ~ Allows(k, p) /\ told'[k] = [preset |-> p, at |-> now + ResetMs(k, p)]
    BY <1>2 DEF Script, TypeOK
  <2>2. bucket'[k].tokens = Left(k, p) /\ bucket'[k].lastRefill = now
    <3>1. bucket'[k] = [tokens |-> Left(k, p), lastRefill |-> now,
                        expires |-> now + TtlSec(p) * MsPerSec]
      BY ScriptTypes
    <3>. QED
      BY <3>1
  <2>3. Left(k, p) = Level(k, p) /\ Level(k, p) < Unit
    BY <2>1, LevelBounds, UnitAssumption DEF Left, Allows
  <2>. QED
    BY <1>2, <2>1, <2>2, <2>3 DEF ResetMs
<1>. QED
  BY <1>1, <1>2

\* Neither the clock nor anything but the script touches a bucket that stays.
LEMMA OthersPromise ==
  ASSUME TypeOK, Promises, told' = told,
         \A k \in Keys : bucket'[k] = bucket[k] \/ bucket'[k] = NoBucket
  PROVE  Promises'
<1>. SUFFICES ASSUME NEW k \in Keys, told[k] # NotTold
              PROVE  /\ told[k].preset \in Presets
                     /\ bucket'[k].expires > 0 =>
                          /\ bucket'[k].tokens < Unit
                          /\ told[k].at = bucket'[k].lastRefill
                               + CeilDiv(Unit - bucket'[k].tokens, Rate[told[k].preset])
  BY DEF Promises, Present, NotTold, CeilDiv
<1>1. CASE bucket'[k] = bucket[k]
  BY <1>1 DEF Promises, Present
<1>2. CASE bucket'[k] = NoBucket
  BY <1>2 DEF Promises, NoBucket
<1>. QED
  BY <1>1, <1>2

LEMMA PromisesHonest ==
  ASSUME TypeOK, Promises
  PROVE  RetryHonest
<1>. SUFFICES ASSUME NEW k \in Keys, told[k] # NotTold, now >= told[k].at
              PROVE  Allows(k, told[k].preset)
  BY DEF RetryHonest
<1>. DEFINE p == told[k].preset
            missing == Unit - bucket[k].tokens
            wait == CeilDiv(missing, Rate[p])
<1>1. p \in Presets
  BY DEF Promises
<1>2. Full(p) \in Nat /\ Unit <= Full(p) /\ Unit \in Nat
  BY <1>1, LevelBounds, UnitAssumption
<1>3. CASE ~ Present(k)
  BY <1>2, <1>3 DEF Allows, Level
<1>4. CASE Present(k)
  <2>1. bucket[k].tokens \in Nat /\ bucket[k].lastRefill \in Nat /\ now \in Nat
    BY DEF TypeOK
  <2>2. missing \in Nat /\ told[k].at = bucket[k].lastRefill + wait
    BY <1>4, <1>2, <2>1 DEF Promises
  <2>3. Rate[p] \in Nat \ {0}
    BY <1>1, PresetAssumption
  <2>4. wait \in Nat /\ missing <= wait * Rate[p]
    BY <2>2, <2>3, CeilCovers
  <2>. HIDE DEF wait
  <2>5. wait <= Elapsed(k) /\ Elapsed(k) \in Nat
    BY <2>1, <2>2, <2>4 DEF Elapsed
  <2>6. wait * Rate[p] <= Elapsed(k) * Rate[p]
    BY <2>3, <2>4, <2>5, Monotone
  <2>7. Elapsed(k) * Rate[p] \in Nat /\ wait * Rate[p] \in Nat
    BY <2>3, <2>4, <2>5, Times
  <2>8. Unit <= bucket[k].tokens + Elapsed(k) * Rate[p]
    BY <1>2, <2>1, <2>4, <2>6, <2>7
  <2>. HIDE DEF p
  <2>9. Allows(k, p)
    BY <1>2, <1>4, <2>1, <2>7, <2>8 DEF Allows, Level, SmallerOf
  <2>. QED
    BY <2>9 DEF p
<1>. QED
  BY <1>3, <1>4

\* A step runs the script for one key, or only lets buckets expire.
LEMMA StepKinds ==
  ASSUME TypeOK, [Next]_vars
  PROVE  \/ /\ \E k \in Keys, p \in Presets : Script(k, p)
            /\ UNCHANGED <<now, age>>
         \/ /\ told' = told /\ taken' = taken
            /\ \/ Tick
               \/ StepBack
               \/ UNCHANGED <<bucket, now, age>>
<1>1. ASSUME NEW c \in Calls, Eval(c) \/ EvalLost(c)
      PROVE  (\E k \in Keys, p \in Presets : Script(k, p)) /\ UNCHANGED <<now, age>>
  <2>1. call[c].key \in Keys /\ call[c].preset \in Presets
    BY <1>1 DEF Eval, EvalLost, AtEval, TypeOK
  <2>2. Script(call[c].key, call[c].preset) /\ UNCHANGED <<now, age>>
    BY <1>1 DEF Eval, EvalLost
  <2>. QED
    BY <2>1, <2>2
<1>2. ASSUME NEW c \in Calls, NEW k \in Keys, NEW p \in Presets, Consume(c, k, p)
      PROVE  told' = told /\ taken' = taken /\ UNCHANGED <<bucket, now, age>>
  BY <1>2 DEF Consume, history
<1>3. ASSUME NEW c \in Calls, NoScript(c) \/ Load(c) \/ CommandFails(c) \/ Answer(c)
      PROVE  told' = told /\ taken' = taken /\ UNCHANGED <<bucket, now, age>>
  BY <1>3 DEF NoScript, Load, CommandFails, Answer, history
<1>4. Flush => told' = told /\ taken' = taken /\ UNCHANGED <<bucket, now, age>>
  BY DEF Flush, history
<1>5. Tick \/ StepBack => told' = told /\ taken' = taken
  BY DEF Tick, StepBack, history
<1>6. UNCHANGED vars => told' = told /\ taken' = taken /\ UNCHANGED <<bucket, now, age>>
  BY DEF vars, history
<1>. QED
  BY <1>1, <1>2, <1>3, <1>4, <1>5, <1>6, Zenon DEF Next

\* Who was denied and waits for as long as it was told finds a token, unless
\* another request of the same key has taken it: whatever the presets, the
\* faults and the clock do.
THEOREM DenialsAreHonest == Spec => []RetryHonest
<1>1. Init => Promises
  BY DEF Init, Promises, NotTold
<1>2. TypeOK /\ Promises /\ [Next]_vars => Promises'
  <2>. SUFFICES ASSUME TypeOK, Promises, [Next]_vars PROVE Promises'
    OBVIOUS
  <2>1. ASSUME NEW k \in Keys, NEW p \in Presets, Script(k, p) PROVE Promises'
    BY <2>1, ScriptPromises
  <2>2. CASE Tick /\ told' = told
    BY <2>2, OthersPromise DEF Tick, TypeOK
  <2>3. CASE told' = told /\ bucket' = bucket
    BY <2>3, OthersPromise
  <2>. QED
    BY <2>1, <2>2, <2>3, StepKinds DEF StepBack
<1>3. TypeOK /\ Promises => RetryHonest
  BY PromisesHonest
<1>. QED
  BY <1>1, <1>2, <1>3, TypeCorrect, PTL DEF Spec

-----------------------------------------------------------------------------
(* One preset to a key                                                     *)

\* What is in the bucket can still be taken.
Budget(p) == \A k \in Keys : taken[k][p] * Unit + Level(k, p) <= Full(p) + Rate[p] * age

\* Every bucket was written under p.
Fresh(p) ==
  \A k \in Keys : Present(k) => bucket[k].expires = bucket[k].lastRefill + TtlSec(p) * MsPerSec

LEMMA ScriptFresh ==
  ASSUME TypeOK, NEW k \in Keys, NEW p \in Presets, Fresh(p), Script(k, p)
  PROVE  Fresh(p)'
<1>. SUFFICES ASSUME NEW j \in Keys, bucket'[j].expires > 0
              PROVE  bucket'[j].expires = bucket'[j].lastRefill + TtlSec(p) * MsPerSec
  BY DEF Fresh, Present, TtlSec, CeilDiv, Full
<1>1. CASE j # k
  BY <1>1, ScriptTypes DEF Fresh, Present
<1>2. CASE j = k
  <2>1. bucket'[k] = [tokens |-> Left(k, p), lastRefill |-> now,
                      expires |-> now + TtlSec(p) * MsPerSec]
    BY ScriptTypes
  <2>. QED
    BY <1>2, <2>1
<1>. QED
  BY <1>1, <1>2

\* After the script the bucket holds what it left.
LEMMA ScriptLevel ==
  ASSUME TypeOK, NEW k \in Keys, NEW p \in Presets, Script(k, p), now' = now
  PROVE  /\ Level(k, p)' = Left(k, p)
         /\ \A j \in Keys : j # k => Level(j, p)' = Level(j, p)
<1>1. ASSUME NEW j \in Keys, j # k PROVE Level(j, p)' = Level(j, p)
  <2>1. bucket'[j] = bucket[j]
    BY <1>1, ScriptTypes
  <2>. QED
    BY <2>1 DEF Level, Present, Elapsed, SmallerOf, Full
<1>2. Level(k, p)' = Left(k, p)
  <2>1. bucket'[k] = [tokens |-> Left(k, p), lastRefill |-> now,
                      expires |-> now + TtlSec(p) * MsPerSec]
    BY ScriptTypes
  <2>2. bucket'[k].tokens = Left(k, p) /\ bucket'[k].lastRefill = now /\ bucket'[k].expires > 0
    BY <2>1, ScriptTypes
  <2>3. Elapsed(k)' = 0
    BY <2>2 DEF Elapsed, TypeOK
  <2>4. Elapsed(k)' * Rate[p] = 0
    BY <2>3, PresetAssumption
  <2>5. Left(k, p) \in Nat /\ Left(k, p) <= Full(p) /\ Full(p) \in Nat
    BY LevelBounds
  <2>6. Level(k, p)' = SmallerOf(Full(p), Left(k, p) + Elapsed(k)' * Rate[p])
    BY <2>2 DEF Level, Present, Full, SmallerOf
  <2>. QED
    BY <2>4, <2>5, <2>6 DEF SmallerOf
<1>. QED
  BY <1>1, <1>2

LEMMA ScriptBudget ==
  ASSUME TypeOK, NEW k \in Keys, NEW p \in Presets, Budget(p), Script(k, p),
         UNCHANGED <<now, age>>
  PROVE  Budget(p)'
<1>. SUFFICES ASSUME NEW j \in Keys
              PROVE  taken'[j][p] * Unit + Level(j, p)' <= Full(p) + Rate[p] * age
  BY DEF Budget, Full
<1>1. taken[j][p] * Unit + Level(j, p) <= Full(p) + Rate[p] * age
  BY DEF Budget
<1>2. CASE j # k
  <2>1. taken'[j][p] = taken[j][p]
    BY <1>2 DEF Script, TypeOK
  <2>. QED
    BY <1>1, <1>2, <2>1, ScriptLevel
<1>3. CASE j = k
  <2>1. taken[k][p] \in Nat /\ Unit \in Nat /\ Level(k, p) \in Nat
    BY LevelBounds, UnitAssumption DEF TypeOK
  <2>2. Level(k, p)' = Left(k, p)
    BY ScriptLevel
  <2>3. CASE Allows(k, p)
    <3>1. taken'[k][p] = taken[k][p] + 1
      BY <2>3 DEF Script, TypeOK
    <3>2. (taken[k][p] + 1) * Unit = taken[k][p] * Unit + Unit
      BY <2>1
    <3>3. Left(k, p) = Level(k, p) - Unit
      BY <2>3 DEF Left
    <3>4. taken[k][p] * Unit \in Nat
      BY <2>1, Times
    <3>. QED
      BY <1>1, <1>3, <2>1, <2>2, <3>1, <3>2, <3>3, <3>4
  <2>4. CASE ~ Allows(k, p)
    BY <1>1, <1>3, <2>2, <2>4 DEF Left, Script
  <2>. QED
    BY <2>3, <2>4
<1>. QED
  BY <1>2, <1>3

\* A millisecond adds at most what flows in, and so does an expiry.
LEMMA TickLevel ==
  ASSUME TypeOK, NEW k \in Keys, NEW p \in Presets, Fresh(p), Tick
  PROVE  Level(k, p)' <= Level(k, p) + Rate[p]
<1>1. /\ now \in Nat /\ now' = now + 1
      /\ bucket'[k] = (IF bucket[k].expires <= now + 1 THEN NoBucket ELSE bucket[k])
  BY DEF Tick, TypeOK
<1>2. Rate[p] \in Nat /\ Full(p) \in Nat /\ Level(k, p) \in Nat
  BY LevelBounds, PresetAssumption
<1>3. CASE ~ Present(k)
  BY <1>2, <1>3, <1>1 DEF Level, Present, NoBucket, SmallerOf, Full
<1>4. CASE Present(k)
  <2>. DEFINE tokens == bucket[k].tokens
              refilled == bucket[k].lastRefill
              flown == Elapsed(k) * Rate[p]
  <2>1. tokens \in Nat /\ refilled \in Nat /\ Elapsed(k) \in Nat /\ flown \in Nat
    BY LevelBounds DEF TypeOK
  <2>2. Level(k, p) = SmallerOf(Full(p), tokens + flown)
    BY <1>4 DEF Level
  <2>3. CASE bucket[k].expires <= now + 1
    <3>1. Level(k, p)' = Full(p)
      BY <1>1, <2>3 DEF Level, Present, NoBucket, Full
    <3>2. TtlSec(p) * MsPerSec <= Elapsed(k) + 1 /\ TtlSec(p) * MsPerSec \in Nat
      <4>1. bucket[k].expires = refilled + TtlSec(p) * MsPerSec
        BY <1>4 DEF Fresh
      <4>. QED
        BY <1>1, <2>1, <2>3, <4>1, TtlCovers DEF Elapsed
    <3>3. (TtlSec(p) * MsPerSec) * Rate[p] <= (Elapsed(k) + 1) * Rate[p]
      BY <1>2, <2>1, <3>2, Monotone
    <3>4. (Elapsed(k) + 1) * Rate[p] = flown + Rate[p]
      BY <1>2, <2>1
    <3>5. Full(p) <= flown + Rate[p]
      BY <1>2, <2>1, <3>2, <3>3, <3>4, TtlCovers, Times
    <3>. HIDE DEF flown, tokens
    <3>. QED
      BY <1>2, <2>1, <2>2, <3>1, <3>5 DEF SmallerOf
  <2>4. CASE ~ (bucket[k].expires <= now + 1)
    <3>1. bucket'[k] = bucket[k]
      BY <1>1, <2>4
    <3>2. Elapsed(k)' \in Nat /\ Elapsed(k)' <= Elapsed(k) + 1
      BY <1>1, <2>1, <3>1 DEF Elapsed
    <3>3. Elapsed(k)' * Rate[p] <= (Elapsed(k) + 1) * Rate[p]
      BY <1>2, <2>1, <3>2, Monotone
    <3>4. (Elapsed(k) + 1) * Rate[p] = flown + Rate[p]
      BY <1>2, <2>1
    <3>5. Elapsed(k)' * Rate[p] \in Nat
      BY <1>2, <3>2, Times
    <3>6. Level(k, p)' = SmallerOf(Full(p), tokens + Elapsed(k)' * Rate[p])
      BY <1>4, <3>1 DEF Level, Present, SmallerOf, Full
    <3>. HIDE DEF flown, tokens
    <3>. QED
      BY <1>2, <2>1, <2>2, <3>3, <3>4, <3>5, <3>6 DEF SmallerOf
  <2>. QED
    BY <2>3, <2>4
<1>. QED
  BY <1>3, <1>4

LEMMA TickBudget ==
  ASSUME TypeOK, NEW p \in Presets, Fresh(p), Budget(p), Tick
  PROVE  Fresh(p)' /\ Budget(p)'
<1>1. Fresh(p)'
  <2>. SUFFICES ASSUME NEW k \in Keys, bucket'[k].expires > 0
                PROVE  bucket'[k].expires = bucket'[k].lastRefill + TtlSec(p) * MsPerSec
    BY DEF Fresh, Present, TtlSec, CeilDiv, Full
  <2>1. bucket'[k] = NoBucket \/ bucket'[k] = bucket[k]
    BY DEF Tick
  <2>. QED
    BY <2>1 DEF NoBucket, Fresh, Present
<1>2. Budget(p)'
  <2>. SUFFICES ASSUME NEW k \in Keys
                PROVE  taken[k][p] * Unit + Level(k, p)' <= Full(p) + Rate[p] * (age + 1)
    BY DEF Budget, Full, Tick
  <2>1. taken[k][p] * Unit + Level(k, p) <= Full(p) + Rate[p] * age
    BY DEF Budget
  <2>2. Rate[p] \in Nat /\ age \in Nat /\ taken[k][p] \in Nat /\ Unit \in Nat
    BY PresetAssumption, UnitAssumption DEF TypeOK
  <2>3. Rate[p] * (age + 1) = Rate[p] * age + Rate[p]
    BY <2>2
  <2>4. taken[k][p] * Unit \in Nat /\ Rate[p] * age \in Nat
    BY <2>2, Times
  <2>5. Full(p) \in Nat /\ Level(k, p) \in Nat /\ Level(k, p)' \in Int
    <3>1. bucket'[k] \in [tokens: Nat, lastRefill: Nat, expires: Nat] /\ now' \in Nat
      BY DEF Tick, NoBucket, TypeOK
    <3>2. Elapsed(k)' \in Nat
      BY <3>1 DEF Elapsed
    <3>3. Elapsed(k)' * Rate[p] \in Nat
      BY <2>2, <3>2, Times
    <3>4. Level(k, p)' = (IF bucket'[k].expires > 0
                          THEN SmallerOf(Full(p), bucket'[k].tokens + Elapsed(k)' * Rate[p])
                          ELSE Full(p))
      BY DEF Level, Present, SmallerOf, Full
    <3>. QED
      BY <3>1, <3>3, <3>4, LevelBounds DEF SmallerOf
  <2>. QED
    BY <2>1, <2>2, <2>3, <2>4, <2>5, TickLevel
<1>. QED
  BY <1>1, <1>2

\* A clock that is set back takes nothing out of a bucket, and adds nothing.
LEMMA StepBackBudget ==
  ASSUME TypeOK, NEW p \in Presets, Fresh(p), Budget(p), StepBack
  PROVE  Fresh(p)' /\ Budget(p)'
<1>1. Fresh(p)'
  BY DEF StepBack, Fresh, Present, TtlSec, CeilDiv, Full
<1>2. Budget(p)'
  <2>. SUFFICES ASSUME NEW k \in Keys
                PROVE  taken[k][p] * Unit + Level(k, p)' <= Full(p) + Rate[p] * age
    BY DEF Budget, Full, StepBack, history
  <2>1. bucket' = bucket /\ now' \in Nat /\ now' < now /\ now \in Nat
    BY DEF StepBack, TypeOK
  <2>2. Elapsed(k) \in Nat /\ Elapsed(k)' \in Nat /\ Elapsed(k)' <= Elapsed(k)
    BY <2>1 DEF Elapsed, TypeOK
  <2>3. Rate[p] \in Nat
    BY PresetAssumption
  <2>4. Elapsed(k)' * Rate[p] <= Elapsed(k) * Rate[p]
    BY <2>2, <2>3, Monotone
  <2>5. Elapsed(k)' * Rate[p] \in Nat /\ Elapsed(k) * Rate[p] \in Nat
    BY <2>2, <2>3, Times
  <2>6. Level(k, p)' = (IF bucket[k].expires > 0
                        THEN SmallerOf(Full(p), bucket[k].tokens + Elapsed(k)' * Rate[p])
                        ELSE Full(p))
    BY <2>1 DEF Level, Present, SmallerOf, Full
  <2>7. bucket[k].tokens \in Nat /\ Full(p) \in Nat /\ Level(k, p) \in Nat
    BY LevelBounds DEF TypeOK
  <2>8. Level(k, p)' <= Level(k, p) /\ Level(k, p)' \in Nat
    BY <2>4, <2>5, <2>6, <2>7 DEF Level, Present, SmallerOf
  <2>9. taken[k][p] * Unit + Level(k, p) <= Full(p) + Rate[p] * age
    BY DEF Budget
  <2>10. taken[k][p] * Unit \in Nat /\ Rate[p] * age \in Nat
    BY Times, UnitAssumption, PresetAssumption DEF TypeOK
  <2>. QED
    BY <2>7, <2>8, <2>9, <2>10
<1>. QED
  BY <1>1, <1>2

LEMMA StepBudget ==
  ASSUME TypeOK, NEW p, Presets = {p}, Fresh(p), Budget(p), [Next]_vars
  PROVE  Fresh(p)' /\ Budget(p)'
<1>. p \in Presets
  OBVIOUS
<1>1. ASSUME NEW k \in Keys, NEW q \in Presets, Script(k, q), UNCHANGED <<now, age>>
      PROVE  Fresh(p)' /\ Budget(p)'
  <2>1. Script(k, p)
    BY <1>1
  <2>. QED
    BY <1>1, <2>1, ScriptFresh, ScriptBudget
<1>2. CASE Tick
  BY <1>2, TickBudget
<1>3. CASE StepBack
  BY <1>3, StepBackBudget
<1>4. CASE taken' = taken /\ UNCHANGED <<bucket, now, age>>
  BY <1>4 DEF Fresh, Budget, Level, Elapsed, Present, TtlSec, CeilDiv, Full, SmallerOf
<1>. QED
  BY <1>1, <1>2, <1>3, <1>4, StepKinds

LEMMA InitBudget ==
  ASSUME Init, NEW p \in Presets
  PROVE  Fresh(p) /\ Budget(p)
<1>1. ASSUME NEW k \in Keys PROVE ~ Present(k) /\ taken[k][p] = 0 /\ age = 0
  BY DEF Init, Present, NoBucket
<1>2. Full(p) \in Nat
  BY Times, UnitAssumption, PresetAssumption DEF Full
<1>. QED
  BY <1>1, <1>2, UnitAssumption, PresetAssumption DEF Fresh, Budget, Level

\* With one preset to a key nobody takes more than a full bucket and what has
\* flowed in, whatever the faults and the clock do; in particular a bucket that
\* has expired and starts full again gives nothing away.
THEOREM OnePresetKeepsRate ==
  ASSUME NEW p, Presets = {p}
  PROVE  Spec => []RateKept
<1>. p \in Presets
  OBVIOUS
<1>1. Init => Fresh(p) /\ Budget(p)
  BY InitBudget
<1>2. TypeOK /\ Fresh(p) /\ Budget(p) /\ [Next]_vars => Fresh(p)' /\ Budget(p)'
  BY StepBudget
<1>3. TypeOK /\ Budget(p) => RateKept
  <2>. SUFFICES ASSUME TypeOK, Budget(p), NEW k \in Keys
                PROVE  taken[k][p] * Unit <= Full(p) + Rate[p] * age
    BY DEF RateKept
  <2>1. taken[k][p] * Unit + Level(k, p) <= Full(p) + Rate[p] * age
    BY DEF Budget
  <2>2. taken[k][p] * Unit \in Nat /\ Rate[p] * age \in Nat
    BY Times, UnitAssumption, PresetAssumption DEF TypeOK
  <2>. QED
    BY <2>1, <2>2, LevelBounds
<1>. QED
  BY <1>1, <1>2, <1>3, TypeCorrect, PTL DEF Spec

-----------------------------------------------------------------------------
(* The contract                                                            *)

\* Redis's clock goes forward.
Forward == back = 0 => \A k \in Keys : bucket[k].lastRefill <= now

LEMMA StepForward ==
  ASSUME TypeOK, Forward, [Next]_vars, back' = 0
  PROVE  back = 0 /\ ~ StepBack /\ Forward'
<1>1. back \in Nat /\ ~ StepBack
  BY DEF StepBack, TypeOK
<1>2. back = 0
  BY <1>1 DEF Next, Consume, Eval, EvalLost, NoScript, Load, CommandFails, Answer, Flush,
     Tick, vars, history
<1>3. ASSUME NEW k \in Keys, NEW p \in Presets, Script(k, p), UNCHANGED <<now, age>>
      PROVE  \A j \in Keys : bucket'[j].lastRefill <= now'
  <2>. SUFFICES ASSUME NEW j \in Keys PROVE bucket'[j].lastRefill <= now
    BY <1>3
  <2>1. bucket'[k] = [tokens |-> Left(k, p), lastRefill |-> now,
                      expires |-> now + TtlSec(p) * MsPerSec]
    BY <1>3, ScriptTypes
  <2>2. now \in Nat
    BY DEF TypeOK
  <2>3. j # k => bucket'[j] = bucket[j]
    BY <1>3, ScriptTypes
  <2>. QED
    BY <1>2, <2>1, <2>2, <2>3 DEF Forward
<1>4. Tick => \A j \in Keys : bucket'[j].lastRefill <= now'
  BY <1>2 DEF Tick, NoBucket, Forward, TypeOK
<1>5. UNCHANGED <<bucket, now, age>> => \A j \in Keys : bucket'[j].lastRefill <= now'
  BY <1>2 DEF Forward
<1>. QED
  BY <1>1, <1>2, <1>3, <1>4, <1>5, StepKinds DEF Forward

\* A bucket that has not been touched is refilled all the time.
LEMMA TickRefills ==
  ASSUME TypeOK, NEW k \in Keys, NEW p \in Presets, Fresh(p), Forward, back = 0, Tick
  PROVE  Level(k, p)' = IF Level(k, p) + Rate[p] <= Full(p)
                        THEN Level(k, p) + Rate[p] ELSE Full(p)
<1>. DEFINE tokens == bucket[k].tokens
            flown == Elapsed(k) * Rate[p]
<1>1. /\ now \in Nat /\ now' = now + 1
      /\ bucket'[k] = (IF bucket[k].expires <= now + 1 THEN NoBucket ELSE bucket[k])
  BY DEF Tick, TypeOK
<1>2. Rate[p] \in Nat /\ Rate[p] > 0 /\ Full(p) \in Nat /\ tokens \in Nat /\ flown \in Nat
  BY LevelBounds, PresetAssumption DEF TypeOK
<1>3. CASE ~ Present(k)
  BY <1>1, <1>2, <1>3 DEF Level, Present, NoBucket, SmallerOf, Full
<1>4. CASE Present(k)
  <2>1. Level(k, p) = SmallerOf(Full(p), tokens + flown)
    BY <1>4 DEF Level
  <2>2. bucket[k].lastRefill \in Nat /\ bucket[k].lastRefill <= now
    BY DEF TypeOK, Forward
  <2>3. Elapsed(k) = now - bucket[k].lastRefill /\ Elapsed(k) \in Nat
    BY <1>1, <2>2 DEF Elapsed
  <2>4. (Elapsed(k) + 1) * Rate[p] = flown + Rate[p]
    BY <1>2, <2>3
  <2>5. CASE bucket[k].expires <= now + 1
    <3>1. Level(k, p)' = Full(p)
      BY <1>1, <2>5 DEF Level, Present, NoBucket, Full
    <3>2. TtlSec(p) * MsPerSec <= Elapsed(k) + 1 /\ TtlSec(p) * MsPerSec \in Nat
      <4>1. bucket[k].expires = bucket[k].lastRefill + TtlSec(p) * MsPerSec
        BY <1>4 DEF Fresh
      <4>. QED
        BY <1>1, <2>2, <2>3, <2>5, <4>1, TtlCovers
    <3>3. (TtlSec(p) * MsPerSec) * Rate[p] <= (Elapsed(k) + 1) * Rate[p]
      BY <1>2, <2>3, <3>2, Monotone
    <3>4. Full(p) <= flown + Rate[p]
      BY <1>2, <2>4, <3>2, <3>3, TtlCovers, Times
    <3>. HIDE DEF flown, tokens
    <3>. QED
      BY <1>2, <2>1, <3>1, <3>4 DEF SmallerOf
  <2>6. CASE ~ (bucket[k].expires <= now + 1)
    <3>1. bucket'[k] = bucket[k]
      BY <1>1, <2>6
    <3>2. Elapsed(k)' = Elapsed(k) + 1
      BY <1>1, <2>2, <2>3, <3>1 DEF Elapsed
    <3>3. Elapsed(k)' * Rate[p] = flown + Rate[p]
      BY <2>4, <3>2
    <3>4. Level(k, p)' = SmallerOf(Full(p), tokens + Elapsed(k)' * Rate[p])
      BY <1>4, <3>1 DEF Level, Present, SmallerOf, Full
    <3>. HIDE DEF flown, tokens
    <3>. QED
      BY <1>2, <2>1, <3>3, <3>4 DEF SmallerOf
  <2>. QED
    BY <2>5, <2>6
<1>. QED
  BY <1>3, <1>4

\* Level and answer in the contract.
Levels == [k \in Keys |-> Level(k, Only)]
Answered(c) ==
  IF call[c].pc \in {"allowed", "denied", "open"} THEN call[c].pc ELSE "none"
Answers == [c \in Calls |-> Answered(c)]

Kept == [Contract!Promised]_<<Levels, Answers>>

\* The script is a drain of the bucket, or leaves it alone.
LEMMA ScriptDrains ==
  ASSUME TypeOK, Presets = {Only}, NEW k \in Keys, Script(k, Only), now' = now
  PROVE  IF Allows(k, Only) THEN Contract!Drain(k)
                            ELSE Levels' = Levels /\ Levels[k] < Unit
<1>1. Only \in Presets
  OBVIOUS
<1>2. Level(k, Only)' = Left(k, Only) /\ \A j \in Keys : j # k => Level(j, Only)' = Level(j, Only)
  BY <1>1, ScriptLevel
<1>3. Level(k, Only) \in Nat
  BY <1>1, LevelBounds
<1>4. CASE Allows(k, Only)
  <2>1. Levels' = [Levels EXCEPT ![k] = @ - Unit]
    BY <1>2, <1>4 DEF Levels, Left
  <2>2. Levels[k] >= Unit
    BY <1>4 DEF Levels, Allows
  <2>. QED
    BY <1>4, <2>1, <2>2 DEF Contract!Drain, Levels
<1>5. CASE ~ Allows(k, Only)
  <2>1. Levels' = Levels
    BY <1>2, <1>5 DEF Levels, Left
  <2>2. Levels[k] < Unit
    BY <1>3, <1>5, UnitAssumption DEF Levels, Allows
  <2>. QED
    BY <1>5, <2>1, <2>2
<1>. QED
  BY <1>4, <1>5

\* A call goes on, with or without an answer.
LEMMA GotoTells ==
  ASSUME TypeOK, NEW c \in Calls, NEW l \in Pcs, Goto(c, l)
  PROVE  Answers' = [Answers EXCEPT ![c] =
                       IF l \in {"allowed", "denied", "open"} THEN l ELSE "none"]
  BY DEF TypeOK, Goto, Answers, Answered

\* Without a token and without a tick the levels stay.
LEMMA LevelsStay ==
  ASSUME UNCHANGED <<bucket, now, age>>
  PROVE  Levels' = Levels
  BY DEF Levels, Level, Present, Elapsed, SmallerOf, Full

LEMMA EvalKept ==
  ASSUME TypeOK, Presets = {Only}, NEW c \in Calls, Eval(c)
  PROVE  Kept
<1>. DEFINE k == call[c].key
<1>1. k \in Keys /\ call[c].preset = Only
  BY DEF Eval, AtEval, TypeOK
<1>2. Script(k, Only) /\ now' = now
      /\ Goto(c, IF Allows(k, Only) THEN "allowed" ELSE "denied")
  BY <1>1 DEF Eval
<1>. HIDE DEF k
<1>3. CASE Allows(k, Only)
  <2>1. Answers' = [Answers EXCEPT ![c] = "allowed"]
    BY <1>2, <1>3, GotoTells DEF Pcs
  <2>2. Contract!Drain(k)
    BY <1>1, <1>2, <1>3, ScriptDrains
  <2>3. Contract!Allow(c, k)
    BY <2>1, <2>2 DEF Contract!Allow, Contract!Told, Answers, Answered
  <2>. QED
    BY <1>1, <2>3 DEF Kept, Contract!Promised
<1>4. CASE ~ Allows(k, Only)
  <2>1. Answers' = [Answers EXCEPT ![c] = "denied"]
    BY <1>2, <1>4, GotoTells DEF Pcs
  <2>2. Levels' = Levels /\ Levels[k] < Unit
    BY <1>1, <1>2, <1>4, ScriptDrains
  <2>3. Contract!Deny(c, k)
    BY <2>1, <2>2 DEF Contract!Deny, Contract!Told, Answers, Answered, Levels
  <2>. QED
    BY <1>1, <2>3 DEF Kept, Contract!Promised
<1>. QED
  BY <1>3, <1>4

LEMMA EvalLostKept ==
  ASSUME TypeOK, Presets = {Only}, NEW c \in Calls, EvalLost(c)
  PROVE  Kept
<1>. DEFINE k == call[c].key
<1>1. k \in Keys /\ call[c].preset = Only
  BY DEF EvalLost, AtEval, TypeOK
<1>2. Script(k, Only) /\ now' = now
  BY <1>1 DEF EvalLost
<1>. HIDE DEF k
<1>3. Contract!Drain(k) \/ Levels' = Levels
  BY <1>1, <1>2, ScriptDrains
<1>4. CASE UNCHANGED call
  <2>1. Answers' = Answers
    BY <1>4 DEF Answers, Answered
  <2>2. CASE Contract!Drain(k)
    <3>1. Contract!Waste(k)
      BY <2>1, <2>2 DEF Contract!Waste, Answers, Answered
    <3>. QED
      BY <1>1, <3>1 DEF Kept, Contract!Promised
  <2>3. CASE Levels' = Levels
    BY <2>1, <2>3 DEF Kept
  <2>. QED
    BY <1>3, <2>2, <2>3
<1>5. CASE Goto(c, "open")
  <2>1. Answers' = [Answers EXCEPT ![c] = "open"]
    BY <1>5, GotoTells DEF Pcs
  <2>2. Contract!LetThrough(c)
    BY <1>1, <1>3, <2>1
       DEF Contract!LetThrough, Contract!Told, Answers, Answered, Levels
  <2>. QED
    BY <2>2 DEF Kept, Contract!Promised
<1>. QED
  BY <1>4, <1>5 DEF EvalLost

\* A step of a call that leaves the buckets alone.
LEMMA QuietKept ==
  ASSUME TypeOK, NEW c \in Calls, UNCHANGED <<bucket, now, age>>,
         \/ Answers' = Answers
         \/ Answers' = [Answers EXCEPT ![c] = "none"]
         \/ Answers' = [Answers EXCEPT ![c] = "open"]
  PROVE  Kept
<1>1. Levels' = Levels
  BY LevelsStay
<1>2. CASE Answers' = Answers
  BY <1>1, <1>2 DEF Kept
<1>3. CASE Answers' = [Answers EXCEPT ![c] = "none"]
  <2>1. Contract!Forget(c)
    BY <1>1, <1>3 DEF Contract!Forget, Contract!Told, Answers, Answered, Levels
  <2>. QED
    BY <2>1 DEF Kept, Contract!Promised
<1>4. CASE Answers' = [Answers EXCEPT ![c] = "open"]
  <2>1. Contract!LetThrough(c)
    BY <1>1, <1>4 DEF Contract!LetThrough, Contract!Told, Answers, Answered, Levels
  <2>. QED
    BY <2>1 DEF Kept, Contract!Promised
<1>. QED
  BY <1>2, <1>3, <1>4

LEMMA TickKept ==
  ASSUME TypeOK, Presets = {Only}, Fresh(Only), Forward, back = 0, Tick
  PROVE  Kept
<1>1. Only \in Presets
  OBVIOUS
<1>2. Levels' = [k \in Keys |-> IF Levels[k] + Rate[Only] <= Full(Only)
                                THEN Levels[k] + Rate[Only] ELSE Full(Only)]
  BY <1>1, TickRefills DEF Levels
<1>3. Answers' = Answers
  BY DEF Tick, Answers, Answered
<1>4. Contract!Refill
  BY <1>2, <1>3 DEF Contract!Refill, Levels, Answers, Answered
<1>. QED
  BY <1>4 DEF Kept, Contract!Promised

LEMMA StepKept ==
  ASSUME TypeOK, Presets = {Only}, Fresh(Only), Forward, back' = 0, [Next]_vars
  PROVE  Kept
<1>1. ASSUME NEW c \in Calls, NEW k \in Keys, NEW p \in Presets, Consume(c, k, p)
      PROVE  Kept
  <2>1. Answers' = Answers /\ UNCHANGED <<bucket, now, age>>
    BY <1>1 DEF Consume, history, TypeOK, Answers, Answered
  <2>. QED
    BY <2>1, QuietKept
<1>2. ASSUME NEW c \in Calls, Eval(c) PROVE Kept
  BY <1>2, EvalKept
<1>3. ASSUME NEW c \in Calls, EvalLost(c) PROVE Kept
  BY <1>3, EvalLostKept
<1>4. ASSUME NEW c \in Calls, NoScript(c) \/ Load(c) \/ CommandFails(c) PROVE Kept
  <2>1. UNCHANGED <<bucket, now, age>> /\ \E l \in {"load", "eval", "open"} : Goto(c, l)
    BY <1>4 DEF NoScript, Load, CommandFails, history
  <2>2. \/ Answers' = [Answers EXCEPT ![c] = "none"]
        \/ Answers' = [Answers EXCEPT ![c] = "open"]
    BY <2>1, GotoTells DEF Pcs
  <2>. QED
    BY <2>1, <2>2, QuietKept
<1>5. ASSUME NEW c \in Calls, Answer(c) PROVE Kept
  <2>1. UNCHANGED <<bucket, now, age>> /\ Answers' = [Answers EXCEPT ![c] = "none"]
    BY <1>5 DEF Answer, Idle, history, TypeOK, Answers, Answered
  <2>. QED
    BY <2>1, QuietKept
<1>6. CASE Flush \/ UNCHANGED vars
  <2>1. UNCHANGED <<bucket, now, age, call>>
    BY <1>6 DEF Flush, vars, history
  <2>2. Levels' = Levels /\ Answers' = Answers
    BY <2>1, LevelsStay DEF Answers, Answered
  <2>. QED
    BY <2>2 DEF Kept
<1>7. back = 0 /\ ~ StepBack
  BY StepForward
<1>8. CASE Tick
  BY <1>7, <1>8, TickKept
<1>. QED
  BY <1>1, <1>2, <1>3, <1>4, <1>5, <1>6, <1>7, <1>8 DEF Next

LEMMA InitKept ==
  ASSUME Init
  PROVE  Forward /\ Contract!CInit
<1>1. Forward
  <2>. SUFFICES ASSUME NEW k \in Keys PROVE bucket[k].lastRefill <= now
    BY DEF Forward
  <2>. QED
    BY DEF Init, NoBucket
<1>2. Contract!CInit
  BY DEF Init, Contract!CInit, Level, Present, NoBucket, Idle
<1>. QED
  BY <1>1, <1>2

\* With one preset to a key, and until the clock is set back, the limiter
\* implements a bucket that is refilled all the time: nobody is denied a token
\* that is there, and nobody gets one that is not, whatever fails.
THEOREM ImplementsContract ==
  ASSUME NEW p, Presets = {p}
  PROVE  Spec => KeepsContract
<1>1. Presets = {Only}
  BY DEF Only
<1>2. Init => Fresh(Only) /\ Budget(Only) /\ Forward /\ Contract!CInit
  BY <1>1, InitBudget, InitKept
<1>3. TypeOK /\ Fresh(Only) /\ Budget(Only) /\ Forward /\ [Next]_vars
        => Fresh(Only)' /\ Budget(Only)' /\ Forward'
  BY <1>1, StepBudget, StepForward DEF Forward
<1>4. TypeOK /\ Fresh(Only) /\ Forward /\ [Next]_vars => [Contract!CNext]_(Contract!cvars)
  <2>. SUFFICES ASSUME TypeOK, Fresh(Only), Forward, [Next]_vars
                PROVE  [Contract!CNext]_(Contract!cvars)
    OBVIOUS
  <2>1. CASE back' = 0
    <3>1. back = 0 /\ Kept
      BY <1>1, <2>1, StepKept, StepForward
    <3>2. CASE Contract!Promised
      BY <2>1, <3>1, <3>2 DEF Contract!CNext
    <3>3. CASE Levels' = Levels /\ Answers' = Answers
      BY <2>1, <3>1, <3>3 DEF Contract!cvars, Answers, Answered, Levels
    <3>. QED
      BY <3>1, <3>2, <3>3 DEF Kept
  <2>2. CASE back' # 0
    BY <2>2 DEF Contract!CNext
  <2>. QED
    BY <2>1, <2>2
<1>. QED
  BY <1>2, <1>3, <1>4, TypeCorrect, PTL DEF Spec, KeepsContract, Contract!CSpec
=============================================================================
