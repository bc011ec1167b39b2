---------------------------- MODULE SessionStore ----------------------------
(***************************************************************************)
(* What user-service promises about sessions, as if every request were one *)
(* step: a session is opened once, for one user; only its latest token is  *)
(* accepted; it ends alone, together with all the others of its user, or   *)
(* by the clock; and it never comes back.  There are no records, indexes,  *)
(* copies or commands here.                                                *)
(***************************************************************************)
EXTENDS Integers

CONSTANTS Users, Sids, Null

VARIABLES
  clock,
  live,    \* live[s]: the user of s and when its accepted token was signed
  listed,  \* the sessions that ending all of a user's has to reach
  used     \* the ids that have been given away

svars == <<clock, live, listed, used>>

SInit ==
  /\ clock = 0
  /\ live = [s \in Sids |-> Null]
  /\ listed = {} /\ used = {}

Open(s, u) ==
  /\ s \notin used
  /\ used' = used \cup {s}
  /\ live' = [live EXCEPT ![s] = [user |-> u, iat |-> clock]]
  /\ listed' \in {listed, listed \cup {s}}
  /\ UNCHANGED clock

\* The id goes to something that is not a session.
Spend(s) ==
  /\ s \notin used
  /\ used' = used \cup {s}
  /\ UNCHANGED <<clock, live, listed>>

\* The client learns of a session that was opened before.
List(s) ==
  /\ live[s] # Null
  /\ listed' = listed \cup {s}
  /\ UNCHANGED <<clock, live, used>>

Rotate(s) ==
  /\ live[s] # Null
  /\ live' = [live EXCEPT ![s].iat = clock]
  /\ UNCHANGED <<clock, listed, used>>

Without(S) == [s \in Sids |-> IF s \in S THEN Null ELSE live[s]]

End(S) == live' = Without(S) /\ listed' = listed \ S /\ UNCHANGED <<clock, used>>

SessionsOf(u) == {s \in Sids : live[s] # Null /\ live[s].user = u}

EndAll(u) ==
  \E S \in SUBSET SessionsOf(u) : SessionsOf(u) \cap listed \subseteq S /\ End(S)

\* The clock may end any session, and take any out of what is listed.
Tick ==
  /\ clock' = clock + 1
  /\ \E S \in SUBSET Sids : live' = Without(S) /\ listed' \subseteq listed \ S
  /\ UNCHANGED used

SNext ==
  \/ \E s \in Sids : (\E u \in Users : Open(s, u)) \/ Spend(s) \/ List(s) \/ Rotate(s) \/ End({s})
  \/ \E u \in Users : EndAll(u)
  \/ Tick

StoreSpec == SInit /\ [][SNext]_svars
=============================================================================
