--------------------------- MODULE MCControlPlane ---------------------------
(* Two workers, so that one can be silent while the other pulses, and a    *)
(* command channel of one, behind the command the actor has in hand.       *)
EXTENDS ControlPlane
CONSTANTS w1, w2

MCWorkers == {w1, w2}
=============================================================================
