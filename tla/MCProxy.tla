------------------------------- MODULE MCProxy -------------------------------
(* Instances of GatewayProxy for TLC.                                      *)
EXTENDS GatewayProxy
CONSTANTS c1, c2
=============================================================================
