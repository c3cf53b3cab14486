-------------------------- MODULE MCCircuitBreaker --------------------------
(* The breaker with few callers and a short clock. *)
EXTENDS CircuitBreaker
=============================================================================
