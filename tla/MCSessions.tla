---------------------------- MODULE MCSessions ----------------------------
(* Instances of Sessions for TLC.                                        *)
EXTENDS Sessions, TLC

CONSTANTS u1, u2, s1, s2, d1, d2, r1, r2

\* Users, devices, slots and fresh session ids are interchangeable.
Symmetry ==
  Permutations(Users) \cup Permutations(Sids)
    \cup Permutations(Fingerprints) \cup Permutations(Requests)
===========================================================================
