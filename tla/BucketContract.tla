--------------------------- MODULE BucketContract ---------------------------
(***************************************************************************)
(* What a rate limiter of one preset promises: a bucket for each key that  *)
(* is refilled all the time, gives a token to every request it lets        *)
(* through, and refuses only when it holds less than a token.  There are   *)
(* no stored levels here, no expiry and no commands.  Once a clock has     *)
(* been set back nothing is promised.                                      *)
(***************************************************************************)
EXTENDS Integers

CONSTANTS
  Keys, Calls,
  Token,  \* units in a token
  Brim,   \* units a full bucket holds
  Flow    \* units that flow in per tick

VARIABLES
  level,  \* level[k]: units in the bucket of k
  answer, \* answer[c]: "none", "allowed", "denied" or "open"
  steady  \* the clock has gone forward so far

cvars == <<level, answer, steady>>

CInit ==
  /\ level = [k \in Keys |-> Brim]
  /\ answer = [c \in Calls |-> "none"]
  /\ steady = TRUE

Refill ==
  /\ level' = [k \in Keys |-> IF level[k] + Flow <= Brim THEN level[k] + Flow ELSE Brim]
  /\ UNCHANGED answer

\* A token leaves the bucket of k.
Drain(k) == level[k] >= Token /\ level' = [level EXCEPT ![k] = @ - Token]

Told(c, a) == answer' = [answer EXCEPT ![c] = a]

Allow(c, k) == Drain(k) /\ Told(c, "allowed")

Deny(c, k) == level[k] < Token /\ Told(c, "denied") /\ UNCHANGED level

\* Out of order: whoever asks is let through, and may have taken a token.
LetThrough(c) == Told(c, "open") /\ (UNCHANGED level \/ \E k \in Keys : Drain(k))

\* A token goes to nobody.
Waste(k) == Drain(k) /\ UNCHANGED answer

Forget(c) == Told(c, "none") /\ UNCHANGED level

Promised ==
  \/ Refill
  \/ \E k \in Keys : Waste(k)
  \/ \E c \in Calls :
       LetThrough(c) \/ Forget(c) \/ \E k \in Keys : Allow(c, k) \/ Deny(c, k)

CNext == (steady /\ steady' /\ Promised) \/ ~ steady'

CSpec == CInit /\ [][CNext]_cvars
=============================================================================
