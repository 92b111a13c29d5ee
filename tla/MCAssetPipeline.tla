--------------------------- MODULE MCAssetPipeline ---------------------------
(* Two intents: an entry and its exit, or two entries with a swap between   *)
(* them, and channels of one, so that the second meets the first in every   *)
(* place and finds every channel full.                                      *)
EXTENDS AssetPipeline

MCPolicies == {"DropNewest", "DropOldest"}
=============================================================================
