------------------------------ MODULE MCDrain ------------------------------
(* Instances of GatewayDrain for TLC.                                     *)
EXTENDS GatewayDrain
CONSTANTS c1, c2
=============================================================================
