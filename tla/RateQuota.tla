------------------------------ MODULE RateQuota ------------------------------
(***************************************************************************)
(* What the order rate limiter promises: one pool shared by all symbols    *)
(* and one quota per symbol, each filling at its rate up to one second's   *)
(* worth, and an order passes only by taking Cost from both.  Quotas fill  *)
(* as time passes, whether or not anybody asks.                            *)
(***************************************************************************)
EXTENDS Integers

CONSTANTS Symbols, Rates, Second, Cost

VARIABLES pool, quota   \* records [level, rate]; quota is per symbol

vars == <<pool, quota>>

Full(r) == [level |-> r * Second, rate |-> r]

Fill(q) == [q EXCEPT !.level = IF @ + q.rate < q.rate * Second
                                 THEN @ + q.rate
                                 ELSE q.rate * Second]

Take(q) == [q EXCEPT !.level = @ - Cost]

Elapse == /\ pool' = Fill(pool)
          /\ quota' = [s \in Symbols |-> Fill(quota[s])]

Pass(s) == /\ pool.level >= Cost /\ quota[s].level >= Cost
           /\ pool' = Take(pool)
           /\ quota' = [quota EXCEPT ![s] = Take(@)]

\* New rates start from a full pool; only quotas nobody has drawn on change.
SetRates(g, p) == /\ pool' = Full(g)
                  /\ \E unused \in SUBSET {s \in Symbols : quota[s] = Full(quota[s].rate)} :
                       quota' = [s \in Symbols |-> IF s \in unused THEN Full(p) ELSE quota[s]]

\* A symbol's rate applies from its last request on, not from now on.
SetSymbolRate(s, r) == /\ \E l \in 0..(r * Second) :
                            quota' = [quota EXCEPT ![s] = [level |-> l, rate |-> r]]
                       /\ UNCHANGED pool

Init == \E g, p \in Rates : pool = Full(g) /\ quota = [s \in Symbols |-> Full(p)]

Next == \/ Elapse
        \/ \E s \in Symbols : Pass(s)
        \/ \E g, p \in Rates : SetRates(g, p)
        \/ \E s \in Symbols, r \in Rates : SetSymbolRate(s, r)

Spec == Init /\ [][Next]_vars
=============================================================================
