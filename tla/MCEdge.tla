------------------------------- MODULE MCEdge -------------------------------
(* Instances of Edge for TLC.                                              *)
EXTENDS Edge, TLC

CONSTANTS u1, u2, s1, s2, r1, r2

\* Users, fresh ids and slots are interchangeable.
Symmetry == Permutations(Users) \cup Permutations(Sids) \cup Permutations(Requests)
=============================================================================
