---------------------------- MODULE MCOrderBook ----------------------------
(* Two orders of up to two lots and two prices; the account starts short,   *)
(* flat or long.  Averages are of at most three lots, so sixths are exact.  *)
EXTENDS OrderBook, TLC
CONSTANTS o1, o2

MCOrders == {o1, o2}
MCPrices == {1, 2}
MCPositions == {-1, 0, 1}
MCSymmetry == Permutations(MCOrders)
=============================================================================
