---------------------------- MODULE MailContract ----------------------------
(***************************************************************************)
(* What a mailer promises whoever publishes events: an email for each      *)
(* event, and not a second one.  There are no pods, offsets, keys or       *)
(* leases here, only the two ways out: an event may be given up, and one   *)
(* whose email may be out may be sent again.  Once a handler has outlived  *)
(* its reservation, a second email needs no other excuse.                  *)
(***************************************************************************)
EXTENDS Integers

CONSTANT Events

VARIABLES
  posted,  \* events in the topic that can be read
  mails,   \* mails[e]: emails sent for e
  again,   \* events that may be sent again
  given,   \* events the mailer may have given up
  steady   \* no handler has outlived its reservation so far

cvars == <<posted, mails, again, given, steady>>

CInit ==
  /\ posted = {} /\ again = {} /\ given = {}
  /\ mails = [e \in Events |-> 0]
  /\ steady = TRUE

\* e is published, perhaps into a topic that is stuck.
Post(e) ==
  /\ posted' = posted \cup {e} /\ given' \in {given, given \cup {e}}
  /\ UNCHANGED <<mails, again, steady>>

\* An email goes out, the first one for e as long as the promise holds.
Mail(e) ==
  /\ e \in posted
  /\ steady /\ e \notin again' => mails[e] = 0
  /\ mails' = [mails EXCEPT ![e] = @ + 1]
  /\ again' \in {again, again \cup {e}}
  /\ UNCHANGED <<posted, given, steady>>

\* Something goes wrong about the events in E, a handler outlives its reservation,
\* or both.
Falter(E) ==
  /\ again' \in {again, again \cup E} /\ given' \in {given, given \cup E}
  /\ steady' \in {steady, FALSE}
  /\ UNCHANGED <<posted, mails>>

CNext ==
  \/ \E e \in Events : Post(e) \/ Mail(e)
  \/ \E E \in SUBSET Events : Falter(E)

CSpec == CInit /\ [][CNext]_cvars

\* Every event is mailed in the end, or given up.
Delivery == \A e \in Events : e \in posted ~> mails[e] > 0 \/ e \in given
=============================================================================
