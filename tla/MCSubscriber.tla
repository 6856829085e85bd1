---------------------------- MODULE MCSubscriber ----------------------------
(* Subscriber for TLC with room for two loops: one more than the code runs. *)
EXTENDS Subscriber

CONSTANTS l1, l2

TwoLoops == {l1, l2}
=============================================================================
