------------------------------ MODULE CircuitMC ------------------------------
(* Values of the constants of CircuitBreaker for the model checker. *)
EXTENDS CircuitBreaker

CONSTANTS c1, c2, c3
ThreeCallers == {c1, c2, c3}
=============================================================================
