---------------------------- MODULE MCExecution ----------------------------
(* One intent decided twice (the second decision is a duplicate when the   *)
(* first one's order was acknowledged), channels of one place, two tries   *)
(* per submission, and a breaker that opens at the first failed decision   *)
(* and probes after one tick.  Any number of intents is what the theorems  *)
(* of Execution_proofs are about.                                          *)
EXTENDS Execution
CONSTANTS i1, exec, nobody

MCIntents == {i1}
MCThresholds == {1}
MCCooldowns == {0}
=============================================================================
