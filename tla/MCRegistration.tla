--------------------------- MODULE MCRegistration ---------------------------
(* Instances of Registration for TLC.                                      *)
EXTENDS Registration, TLC

CONSTANTS m1, s1, s2, s3, s4, r1, r2

\* Emails, fresh session ids and slots are interchangeable.
Symmetry == Permutations(Emails) \cup Permutations(Sids) \cup Permutations(Requests)

\* Nobody has tried an OTP yet.
Untried ==
  /\ matched = {} /\ \A s \in Sids : wrong[s] = 0 /\ attempts[s].count = 0
  /\ \A r \in Requests : req[r].pc # "countAttempt"

\* Every sendOtp that was let through has been answered.
NobodySends == \A r \in Requests : req[r].pc = "idle" \/ req[r].sid \in told

Used == {s \in Sids : started[s] # Null}

\* All sessions and the whole clock as long as nobody tries an OTP; then the
\* tries, of two sessions in one tick or of one session with time passing.
\* Nothing they write is read by sendOtp, but a user, who ends the requests for
\* an email.
Bounds == Untried \/ (NobodySends /\ 2 * Cardinality(Used) + now <= 4)

\* No states are told apart by what is not read any more: the counters of
\* sendOtp once somebody tries, and published, which no property here is about.
Seen == <<now, IF Untried THEN rate ELSE <<>>, otp, reg, attempts, user, req,
          started, told, matched, wrong>>
=============================================================================
