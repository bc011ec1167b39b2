---------------------------- MODULE MCSequential ----------------------------
(* An instance of SequentialSessions for TLC.                              *)
EXTENDS SequentialSessions, TLC

CONSTANTS u1, u2, s1, s2, d1, d2, r1

\* Users, devices and fresh session ids are interchangeable.
Symmetry == Permutations(Users) \cup Permutations(Sids) \cup Permutations(Fingerprints)
=============================================================================
