--------------------------- MODULE MCCircuitBreaker ---------------------------
(* Finite instance of CircuitBreaker for TLC.                              *)
EXTENDS CircuitBreaker
=============================================================================
