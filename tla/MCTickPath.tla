----------------------------- MODULE MCTickPath -----------------------------
(* A quote with a spread, a locked one, a crossed one, a trade and a bar.   *)
EXTENDS TickPath

Raw(type, bid, ask, last) == [type |-> type, bid |-> bid, ask |-> ask, last |-> last]

MCFeed == {Raw("Quote", 1, 3, 2), Raw("Quote", 2, 2, 2), Raw("Quote", 3, 2, 2),
           Raw("Trade", 1, 3, 3), Raw("Bar", 1, 1, 1)}
=============================================================================
