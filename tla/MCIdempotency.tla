--------------------------- MODULE MCIdempotency ---------------------------
(* Instances of Idempotency for TLC: one API process as docker-compose.yml *)
(* deploys it, or two that share Redis; two or three requests.  A tick is a *)
(* second: Timeout 1, ClaimTTL 5, Poll 1 (rounded up from half a second);  *)
(* ResponseTTL is cut from 120 to little more than ClaimTTL.                *)
EXTENDS Idempotency

CONSTANTS r1, r2, r3, i1, i2

TwoReqs   == {r1, r2}
ThreeReqs == {r1, r2, r3}
One       == {i1}
Two       == {i1, i2}

TwoOnTwo     == [r \in TwoReqs |-> IF r = r1 THEN i1 ELSE i2]
ThreeOnOne   == [r \in ThreeReqs |-> i1]
=============================================================================
