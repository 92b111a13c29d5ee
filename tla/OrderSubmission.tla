--------------------------- MODULE OrderSubmission ---------------------------
(***************************************************************************)
(* What an execution thread promises about an intent: it places orders for *)
(* it only until the broker's acknowledgement of one has come back.  An    *)
(* order whose acknowledgement was lost may be placed again; one that was  *)
(* acknowledged never is.                                                  *)
(***************************************************************************)
EXTENDS Integers

CONSTANT Intents

VARIABLES
  orders,   \* orders[i]: how many orders the broker holds for intent i
  placed    \* intents with an acknowledged order

vars == <<orders, placed>>

Place(i) == /\ i \notin placed
            /\ orders' = [orders EXCEPT ![i] = @ + 1]
            /\ placed' = placed \cup {i}

PlaceUnheard(i) == /\ i \notin placed
                   /\ orders' = [orders EXCEPT ![i] = @ + 1]
                   /\ UNCHANGED placed

Init == orders = [i \in Intents |-> 0] /\ placed = {}

Next == \E i \in Intents : Place(i) \/ PlaceUnheard(i)

Spec == Init /\ [][Next]_vars
=============================================================================
