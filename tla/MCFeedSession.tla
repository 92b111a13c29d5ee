--------------------------- MODULE MCFeedSession ---------------------------
(* Two symbols, one of them configured, three sessions: enough for a tick  *)
(* to be replayed, and for a replay of it to be replayed if it could be.   *)
EXTENDS FeedSession
CONSTANTS s1, s2

MCSymbols == {s1, s2}
MCStart == {s1}
=============================================================================
