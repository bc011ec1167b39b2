------------------------------ MODULE MCBucket ------------------------------
(* Instances of TokenBucket for TLC.                                       *)
EXTENDS TokenBucket, TLC
CONSTANTS k1, k2, c1, c2, default, auth

\* One preset: 2 tokens, and 4/3 a second.
OneCapacity == default :> 2
OneRate == default :> 2

\* Two: auth has half the capacity and half the rate of default (a tenth in the
\* gateway).
TwoCapacity == default :> 2 @@ auth :> 1
TwoRate == default :> 2 @@ auth :> 1
=============================================================================
