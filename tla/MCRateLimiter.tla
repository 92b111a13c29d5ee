--------------------------- MODULE MCRateLimiter ---------------------------
(* Two symbols share the limiter.  At rate 1 a full bucket of two tokens   *)
(* does not afford an order of three; at rate 2 it affords one and a third. *)
EXTENDS RateLimiter
CONSTANTS s1, s2

MCSymbols == {s1, s2}
MCRates == {1, 2}
=============================================================================
