------------------------------- MODULE OrderBook -------------------------------
(***************************************************************************)
(* What the engine knows of its orders and its position: OrderTracker and  *)
(* its state machines (execution), the position and equity of              *)
(* PortfolioManager and the open orders of KillSwitch (core), the handlers *)
(* on_fill, on_reject and on_cancel that update all of them                *)
(* (execution_manager.rs), the reconciliation with the broker at each start*)
(* (engine.rs, reconcile_and_rehydrate) and the periodic check.            *)
(*                                                                         *)
(* An order enters the tracker by reconciliation only: execute_decision    *)
(* (module Execution) enters what it submits in the kill switch's list.    *)
(* No thread of the program calls the three handlers; here the broker's    *)
(* reports reach them in any order, each with the id its order is known    *)
(* by.  Their calls on the breaker are in CircuitBreaker.  One symbol.     *)
(***************************************************************************)
EXTENDS Integers, FiniteSets, FiniteSetsExt

CONSTANTS
  Orders,            \* orders the broker may come to hold
  MaxQty, Prices,    \* quantities 1 .. MaxQty; prices
  InitialPositions,  \* positions of the account before the first start
  Scale,             \* bound: money is counted in units of 1/Scale, so that
                     \* no average price of a run is rounded
  MaxStarts          \* bound: starts of the process

ASSUME OrderBookAssumption ==
  /\ MaxQty \in Nat \ {0} /\ Prices \subseteq Nat \ {0} /\ Prices # {}
  /\ InitialPositions \subseteq Int /\ Scale \in Nat \ {0} /\ MaxStarts \in Nat \ {0}

VARIABLES
  broker,         \* the broker's orders
  account,        \* the broker's position
  reports,        \* reports on their way
  phase, starts,  \* "down", "queried" (open orders received) or "up"
  tracked,        \* the tracker: a function from the orders it has
  listed,         \* open orders of the kill switch
  pos,            \* the position record of PortfolioManager
  equity, peak,
  check,          \* what the periodic check has done last, and been told
  warned,         \* what the step just taken has warned of
  missed,         \* history: orders filled between the two queries
  seen,           \* history: the positions query of this start succeeded
  calm            \* history: no fill was on its way when the check asked for
                  \* the positions, and none has been handled since

book == <<tracked, listed, pos, equity, peak>>
checks == <<check, calm>>
vars == <<broker, account, reports, phase, starts, book, checks, warned, missed, seen>>

States == {"Pending", "Submitted", "PartiallyFilled", "Filled", "Cancelled", "Rejected",
           "Expired", "Replaced"}
Flat == [net |-> 0, avg |-> 0, cur |-> 0, realized |-> 0]
Asleep == [last |-> "orders compared", answer |-> <<>>]
Unplaced == [side |-> "buy", qty |-> 0, filled |-> 0, state |-> "none"]

Init ==
  /\ broker = [o \in Orders |-> Unplaced] /\ account \in InitialPositions /\ reports = {}
  /\ phase = "down" /\ starts = 0 /\ tracked = <<>> /\ listed = {}
  /\ pos = Flat /\ equity = 0 /\ peak = 0
  /\ check = Asleep /\ calm = FALSE /\ warned = {} /\ missed = {} /\ seen = FALSE

-----------------------------------------------------------------------------
(* The state machine of an order, and the tracker around it.               *)

Allowed(state) ==
  CASE state = "Pending"         -> {"Submitted", "Rejected"}
    [] state = "Submitted"       -> {"PartiallyFilled", "Filled", "Cancelled", "Rejected"}
    [] state = "PartiallyFilled" -> {"PartiallyFilled", "Filled", "Cancelled"}
    [] OTHER                     -> {}

\* The events and the states they lead to.
Events == {"Submit", "PartialFill", "FullFill", "Cancel", "Reject", "Expire", "Replace"}
Target == [Submit  |-> "Submitted", PartialFill |-> "PartiallyFilled", FullFill |-> "Filled",
           Cancel  |-> "Cancelled", Reject |-> "Rejected",
           Expire  |-> "Expired",   Replace |-> "Replaced"]

\* The machine's total after an event: fills add up, other events count nothing.
Counted(total, event, qty) == IF event \in {"PartialFill", "FullFill"} THEN total + qty ELSE total

\* transition_order: the machine takes the event and the record follows it,
\* or nothing changes.  An order that expires or is replaced counts as cancelled.
Status(state) == IF state \in {"Expired", "Replaced"} THEN "Cancelled" ELSE state
Transition(t, event, qty) ==
  IF Target[event] \notin Allowed(t.machine) THEN t
  ELSE [t EXCEPT !.machine = Target[event], !.status = Status(Target[event]),
                 !.filled = Counted(@, event, qty)]

SubmitOrder(t)           == Transition(t, "Submit", 0)
PartialFillOrder(t, qty) == Transition(t, "PartialFill", qty)
FullFillOrder(t, qty)    == Transition(t, "FullFill", qty)

\* update_fill: a report as large as the order fills it, whatever was filled.
UpdateFill(t, qty) == IF qty >= t.qty THEN FullFillOrder(t, t.qty)
                                      ELSE PartialFillOrder(t, qty)

NewMachine == [machine |-> "Pending", filled |-> 0]
CreateOrder(qty) == [machine |-> NewMachine.machine, status |-> "Pending", qty |-> qty,
                     filled |-> NewMachine.filled]

\* An order of the broker's answer: created, submitted, and filled as far as
\* the answer says.
Rehydrated(order) == LET new == SubmitOrder(CreateOrder(order.qty))
                     IN  IF order.filled > 0 THEN PartialFillOrder(new, order.filled) ELSE new

Tracked == DOMAIN tracked
Update(o, t) == tracked' = [tracked EXCEPT ![o] = t]

-----------------------------------------------------------------------------
(* The position.                                                           *)

Abs(n) == IF n < 0 THEN -n ELSE n
Sign(n) == IF n > 0 THEN 1 ELSE IF n < 0 THEN -1 ELSE 0
Least(a, b) == IF a < b THEN a ELSE b

\* What closing qty of position p realizes.
\* Mutant: the same for a short position as for a long one.
RealizedUnsigned(p, price, qty) == Least(qty, Abs(p.net)) * (Scale * price - p.avg)

Realized(p, price, qty) == Least(qty, Abs(p.net)) * (Scale * price - p.avg) * Sign(p.net)

\* Adding averages the price; closing and turning realize a gain.
Filled(p, price, qty, buy) ==
  LET delta == IF buy THEN qty ELSE -qty
      net   == p.net + delta
  IN  IF Sign(p.net) * Sign(delta) >= 0
      THEN [p EXCEPT !.net = net, !.cur = price,
                     !.avg = (p.avg * Abs(p.net) + Scale * price * qty) \div Abs(net)]
      ELSE [net |-> net, cur |-> price, avg |-> IF net = 0 THEN 0 ELSE p.avg,
            realized |-> p.realized + Realized(p, price, qty)]

\* Equity above the initial one, with the price at cur.
Equity(p, cur) == p.net * (Scale * cur - p.avg) + p.realized
RecalculateEquity(p) == /\ pos' = p /\ equity' = Equity(p, p.cur)
                        /\ peak' = IF equity' > peak THEN equity' ELSE peak

-----------------------------------------------------------------------------
(* The kill switch's list.                                                 *)

TrackOpenOrder(o)  == listed' = listed \cup {o}
RemoveOpenOrder(o) == listed' = listed \ {o}

-----------------------------------------------------------------------------
(* The broker.                                                             *)

\* An order of this process is accepted, and entered in the switch's list.
Place(o, side, qty) ==
  /\ phase = "up" /\ broker[o].state = "none"
  /\ broker' = [broker EXCEPT ![o] = [side |-> side, qty |-> qty, filled |-> 0, state |-> "open"]]
  /\ TrackOpenOrder(o)
  /\ UNCHANGED <<account, reports, phase, starts, tracked, pos, equity, peak, checks, missed, seen>>

\* The lots of a set of reports.
Unhandled(S) == FoldSet(LAMBDA r, n : r.qty + n, 0, S)

\* What happens at the broker is reported to a process that is up.
Report(o, kind, qty, price) ==
  reports' = IF phase # "up" THEN reports
             ELSE reports \cup {[order |-> o, kind |-> kind, qty |-> qty, price |-> price,
                                 at |-> broker[o].filled]}

BrokerFills(o, qty, price) ==
  LET order == broker[o] IN
  /\ order.state = "open" /\ order.filled + qty <= order.qty
  /\ broker' = [broker EXCEPT ![o].filled = @ + qty,
                              ![o].state = IF order.filled + qty = order.qty THEN "done" ELSE "open"]
  /\ account' = account + (IF order.side = "buy" THEN qty ELSE -qty)
  /\ missed' = IF phase = "queried" THEN missed \cup {o} ELSE missed
  /\ Report(o, "fill", qty, price)
  /\ UNCHANGED <<phase, starts, book, checks, seen>>

BrokerEnds(o, kind) ==
  /\ broker[o].state = "open" /\ (kind = "reject" => broker[o].filled = 0)
  /\ broker' = [broker EXCEPT ![o].state = "done"]
  /\ Report(o, kind, 0, 0)
  /\ UNCHANGED <<account, phase, starts, book, checks, missed, seen>>

-----------------------------------------------------------------------------
(* The handlers.                                                           *)

Handles(r) == /\ phase = "up" /\ r \in reports /\ reports' = reports \ {r}
              /\ UNCHANGED <<broker, account, phase, starts, check, missed, seen>>

\* Every fill is entered in the portfolio as bought.
OnFill(r) ==
  /\ r.kind = "fill" /\ Handles(r)
  /\ IF r.order \in Tracked THEN Update(r.order, UpdateFill(tracked[r.order], r.qty))
                            ELSE UNCHANGED tracked
  /\ RemoveOpenOrder(r.order)
  /\ RecalculateEquity(Filled(pos, r.price, r.qty, TRUE)) /\ calm' = FALSE

\* The tracker is not told.
\* Mutant: nor is the list.
OnRejectKeeps(r) ==
  r.kind = "reject" /\ Handles(r) /\ UNCHANGED <<listed, tracked, pos, equity, peak, calm>>

OnReject(r) ==
  /\ r.kind = "reject" /\ Handles(r)
  /\ RemoveOpenOrder(r.order)
  /\ UNCHANGED <<tracked, pos, equity, peak, calm>>

\* update_status sets the record and leaves its machine alone.
\* Mutant: cancelled through the machine, which is then terminal.
CancelledTerminal(t) == Transition(t, "Cancel", 0)

Cancelled(t) == [t EXCEPT !.status = "Cancelled"]

OnCancel(r) ==
  /\ r.kind = "cancel" /\ Handles(r)
  /\ IF r.order \in Tracked THEN Update(r.order, Cancelled(tracked[r.order]))
                            ELSE UNCHANGED tracked
  /\ RemoveOpenOrder(r.order)
  /\ UNCHANGED <<pos, equity, peak, calm>>

-----------------------------------------------------------------------------
(* Starts and crashes.                                                     *)

Crash == /\ phase # "down" /\ starts < MaxStarts /\ phase' = "down"
         /\ tracked' = <<>> /\ listed' = {} /\ pos' = Flat /\ equity' = 0 /\ peak' = 0
         /\ reports' = {} /\ missed' = {} /\ seen' = FALSE
         /\ check' = Asleep /\ calm' = FALSE
         /\ UNCHANGED <<broker, account, starts>>

\* AlpacaExecutionPort's queries: the answer, or nothing when the request, its
\* status or the parsing of its body fails.  A side that is not "buy" is read
\* as a sell; only orders that are open are asked for.
ParseSide(side) == IF side = "buy" THEN "buy" ELSE "sell"
OpenOrders ==
  [o \in {x \in Orders : broker[x].state = "open"} |->
     [side |-> ParseSide(broker[o].side), qty |-> broker[o].qty, filled |-> broker[o].filled]]
Positions == IF account = 0 THEN {} ELSE {account}
Answers(result) == {<<result>>, <<>>}

\* Either query may fail, and the start goes on.
QueryOpenOrders ==
  /\ phase = "down" /\ phase' = "queried" /\ starts' = starts + 1
  /\ \E answer \in Answers(OpenOrders) :
       tracked' = IF answer = <<>> THEN <<>>
                  ELSE [o \in DOMAIN answer[1] |-> Rehydrated(answer[1][o])]
  /\ UNCHANGED <<broker, account, reports, listed, pos, equity, peak, checks, missed, seen>>

\* A position is entered as one fill at the current price; its average is
\* then the broker's.
\* Mutant: entered as bought.
EnteredBought(net, cur, avg) == [Filled(Flat, cur, Abs(net), TRUE) EXCEPT !.avg = Scale * avg]

Entered(net, cur, avg) == [Filled(Flat, cur, Abs(net), net > 0) EXCEPT !.avg = Scale * avg]

QueryPositions ==
  /\ phase = "queried" /\ phase' = "up"
  /\ \E answer \in Answers(Positions), cur, avg \in Prices :
       /\ seen' = (answer # <<>>)
       /\ IF answer \in {<<>>, <<{}>>}
          THEN UNCHANGED <<pos, equity, peak>>
          ELSE \E net \in answer[1] : RecalculateEquity(Entered(net, cur, avg))
  /\ UNCHANGED <<broker, account, reports, starts, tracked, listed, checks, missed>>

-----------------------------------------------------------------------------
(* The periodic check.                                                     *)

IsFlat(net) == net = 0
OpenOrdersCount ==
  Cardinality({o \in Tracked : tracked[o].status \in {"Submitted", "PartiallyFilled"}})

\* Warnings for the answers to the two queries.
PositionDrift(answer) ==
  CASE answer = <<>>                               -> {}
    [] answer = <<{}>> /\ ~IsFlat(pos.net)         -> {"position not found at broker"}
    [] answer \notin {<<>>, <<{}>>} /\ IsFlat(pos.net) -> {"position not tracked"}
    [] OTHER                                       -> {}
OrderDrift(answer) ==
  IF answer # <<>> /\ answer[1] # OpenOrdersCount THEN {"open order count"} ELSE {}

\* Its thread goes from one of its steps to the next, with the answer to a query.
Checks(step, next, answer) ==
  /\ phase = "up" /\ check.last = step /\ check' = [last |-> next, answer |-> answer]
  /\ UNCHANGED <<broker, account, reports, phase, starts, book, missed, seen>>

\* Every minute while the switch is not thrown: the broker is asked, then its
\* answer compared with what is known here by then; nothing is corrected.
AskPositions ==
  /\ \E answer \in Answers(Positions) : Checks("orders compared", "positions asked", answer)
  /\ calm' = (Unhandled(reports) = 0) /\ warned' = {}

ComparePositions ==
  /\ Checks("positions asked", "positions compared", <<>>)
  /\ warned' = PositionDrift(check.answer) /\ UNCHANGED calm

\* Of the orders only their number is used.
AskOrders ==
  /\ \E answer \in Answers(Cardinality(DOMAIN OpenOrders)) :
       Checks("positions compared", "orders asked", answer)
  /\ calm' = FALSE /\ warned' = {}

CompareOrders ==
  /\ Checks("orders asked", "orders compared", <<>>)
  /\ warned' = OrderDrift(check.answer) /\ UNCHANGED calm

PeriodicCheck == AskPositions \/ ComparePositions \/ AskOrders \/ CompareOrders

Step ==
  \/ \E o \in Orders, side \in {"buy", "sell"}, qty \in 1 .. MaxQty : Place(o, side, qty)
  \/ \E o \in Orders, qty \in 1 .. MaxQty, price \in Prices : BrokerFills(o, qty, price)
  \/ \E o \in Orders, kind \in {"cancel", "reject"} : BrokerEnds(o, kind)
  \/ \E r \in reports : OnFill(r) \/ OnReject(r) \/ OnCancel(r)
  \/ Crash \/ QueryOpenOrders \/ QueryPositions

Next == (Step /\ warned' = {}) \/ PeriodicCheck

Spec == Init /\ [][Next]_vars

-----------------------------------------------------------------------------
(* Properties.                                                             *)

TypeOK ==
  /\ \A o \in Orders : broker[o].filled \in 0 .. broker[o].qty
  /\ Tracked \subseteq Orders /\ listed \subseteq Orders /\ missed \subseteq Orders
  /\ \A o \in Tracked : tracked[o].machine \in States /\ tracked[o].status \in States
  /\ phase \in {"down", "queried", "up"} /\ starts \in 0 .. MaxStarts /\ seen \in BOOLEAN
  /\ check.last \in {"positions asked", "positions compared", "orders asked", "orders compared"}
  /\ calm \in BOOLEAN
  /\ warned \subseteq {"position not found at broker", "position not tracked", "open order count"}
  /\ {account, pos.net, pos.avg, equity, peak} \subseteq Int /\ peak >= equity

\* Cancellations overtaking fills, fills in parts, restarts in between: the
\* tracker's filled quantity is what the broker has filled, less the reports
\* on their way, for every order the tracker has.
FillsAreCounted ==
  \A o \in Tracked \ missed :
    tracked[o].filled + Unhandled({r \in reports : r.order = o}) = broker[o].filled

\* A restart takes the position over, long or short, and every bought lot
\* moves it as it moves the account.  The periodic check has nothing to say
\* of the position unless a fill was on its way when it asked the broker, or
\* one was handled before it looked here.
PositionFollowsBuys ==
  phase = "up" /\ seen /\ (\A o \in Orders : broker[o].side = "sell" => broker[o].filled = 0)
    => /\ pos.net + Unhandled(reports) = account
       /\ calm => warned \subseteq {"open order count"}

\* Trading at a price is worth nothing by itself: after a fill the equity is
\* that of the position before it, marked at the price of the fill; unless
\* the fill turns a short position long, where the code keeps the old average.
FillsAreNeutral ==
  [][phase = "up" /\ phase' = "up" /\ ~(pos.net < 0 /\ pos.net' > 0)
       => equity' = Equity(pos, pos'.cur)]_vars

\* The kill switch's list names no order that is over: an order it still
\* has is open at the broker, or a report of it is on its way.
ListedAreOpen ==
  \A o \in listed : broker[o].state = "open" \/ \E r \in reports : r.order = o
=============================================================================

