----------------------------- MODULE MCConsumer -----------------------------
(* Instances of IdempotentConsumer for TLC.                                *)
EXTENDS IdempotentConsumer
CONSTANTS p1, p2, e1, e2
=============================================================================
