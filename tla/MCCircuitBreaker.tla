-------------------------- MODULE MCCircuitBreaker --------------------------
(* Two executors of one breaker, thresholds of one and two failures, a     *)
(* cooldown that is over at once and one that takes a tick.                *)
EXTENDS CircuitBreaker
CONSTANTS c1, c2

MCCallers == {c1, c2}
MCThresholds == {1, 2}
MCCooldowns == {0, 1}
=============================================================================
