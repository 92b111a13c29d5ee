----------------------------- MODULE MCRecovery -----------------------------
(* Two intents per process and one crash, so that an entry, a key and an   *)
(* order of the first process can meet the second's.                       *)
EXTENDS Recovery
=============================================================================
