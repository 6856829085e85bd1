-------------------------- MODULE MCCircuitBreaker --------------------------
(* CircuitBreaker for TLC: two calls at a time, and a reset timeout that is *)
(* no whole number of seconds.                                              *)
EXTENDS CircuitBreaker

CONSTANTS c1, c2, c3

ThreeCallers == {c1, c2, c3}
=============================================================================
