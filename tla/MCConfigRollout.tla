--------------------------- MODULE MCConfigRollout ---------------------------
(* A configured asset and a symbol that only a command can subscribe; two   *)
(* edits of the file are what overtaking needs.                             *)
EXTENDS ConfigRollout
CONSTANTS s1, s2, c1

MCSymbols == {s1, s2}
MCAssets == {s1}
MCClients == {c1}
MCVersions == 0 .. 2
MCInvalid == {0}
=============================================================================
