------------------------- MODULE SequentialSessions -------------------------
(***************************************************************************)
(* The device sessions when requests come one at a time: what login,       *)
(* refresh, logout, logout-all and revoke promise a user whose requests do *)
(* not overlap (a run of Sessions shows that logoutAll breaks its promise  *)
(* when they do).  Redis still drops keys between any two commands, and a  *)
(* request may be cut off after each of them.                              *)
(***************************************************************************)
EXTENDS Sessions

ASSUME OneAtATime == \A p, q \in Requests : p = q

ASSUME NullIsNoView == Null \notin [user: Users, iat: 0..MaxTime]

\* The index of a user and the records of the sessions in it are renewed by
\* different requests (refresh renews only the record), so an index may run out
\* while a session that was in it lives on.
VARIABLE lapsed  \* history: the sessions that were in an index when it ran out

seqVars == <<now, session, index, req, issued, birth, lapsed>>

\* The sessions in an index that the next tick drops.
Lapsing == {s \in Sids : \E u \in Users :
              s \in index[u].ids /\ index[u].expires # Null /\ index[u].expires <= now + 1}

SeqInit == Init /\ lapsed = {}

\* A request sends its next command, or is cut off; no key runs out.
SeqStep ==
  /\ \E r \in Requests : Arrive(r) \/ Step(r) \/ Abort(r)
  /\ UNCHANGED lapsed

SeqTick ==
  /\ Tick
  /\ lapsed' = lapsed \cup Lapsing

SeqNext == SeqStep \/ SeqTick

SeqSpec == SeqInit /\ [][SeqNext]_seqVars

-----------------------------------------------------------------------------
(* Properties                                                              *)

\* Every live session a client holds is in its user's index, so that logoutAll
\* and the session list can see it, unless the index it was in has run out.
HeldSessionsIndexed ==
  \A s \in Sids : session[s] # Null /\ Held(s) =>
    s \in index[session[s].userId].ids \cup lapsed

\* No client holds a newer token of a live session than the stored one: the
\* last rotation decides which token is accepted, and no request puts an older
\* one back.
LatestTokenStored ==
  \A s \in Sids : session[s] # Null =>
    \A t \in issued : t.sid = s => t.iat <= session[s].token.iat

\* When logoutAll is done (asked for, or after a reused token), no session of
\* the user that a client holds is alive, except one that was in an index when
\* it ran out.
LogoutAllEndsIndexed ==
  [][\A r \in Requests : DelIndex(r) =>
       \A s \in Sids : session'[s] # Null /\ Held(s) /\ session'[s].userId = req[r].user =>
         s \in lapsed]_seqVars

\* A session lives while its record does, or while a request will SET it back.
Copies(s) == {req[r].copy : r \in {q \in Requests : req[q].sid = s}} \ {Null}

View(rec) == [user |-> rec.userId, iat |-> rec.token.iat]

Live == [s \in Sids |-> IF session[s] # Null THEN View(session[s])
                        ELSE IF Copies(s) # {} THEN View(CHOOSE c \in Copies(s) : TRUE)
                        ELSE Null]

Store == INSTANCE SessionStore WITH
  clock <- now, live <- Live,
  listed <- {s \in Sids : Live[s] # Null /\ Held(s)} \ lapsed,
  used <- {s \in Sids : birth[s] # Null}

\* One request at a time, the Redis commands amount to the sessions of
\* SessionStore, wherever a request is cut off and whatever runs out.
KeepsStore == Store!StoreSpec
=============================================================================
