----------------------------- MODULE MCLifecycle -----------------------------
(* Instances of ServiceLifecycle for TLC.                                  *)
EXTENDS ServiceLifecycle
CONSTANTS prisma, redis, r1, r2
=============================================================================
