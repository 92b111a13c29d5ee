--------------------------- MODULE OrderBook_proofs ---------------------------
(***************************************************************************)
(* Proofs about the order book, for any number of orders, quantities and   *)
(* prices, any initial position and any number of starts.                  *)
(***************************************************************************)
EXTENDS OrderBook, FiniteSetTheorems, WellFoundedInduction, TLAPS

-----------------------------------------------------------------------------
(***************************************************************************)
(* The quantity of a set of reports.                                       *)
(***************************************************************************)

\* Reports whose quantities are orders' quantities, or none.
Sized(S) == IsFiniteSet(S) /\ \A r \in S : r.qty \in 0 .. MaxQty

\* The reported lots one by one, which are counted where the model adds.
Lots(S) == {lot \in S \X (1 .. MaxQty) : lot[2] <= lot[1].qty}
Total(S) == Cardinality(Lots(S))

\* The function that the fold chooses.
IsFold(g, S) ==
  g = [T \in SUBSET S |->
         IF T = {} THEN 0 ELSE LET r == CHOOSE x \in T : TRUE IN r.qty + g[T \ {r}]]

(* The lots of a report are as many as its quantity, and no other's.       *)
LEMMA TotalSplits ==
  ASSUME NEW S, Sized(S)
  PROVE  /\ Total(S) \in Nat
         /\ \A r \in S : Total(S) = r.qty + Total(S \ {r})
<1>1. MaxQty \in Nat
  BY OrderBookAssumption
<1>2. ASSUME NEW T \in SUBSET S
      PROVE  IsFiniteSet(Lots(T)) /\ Total(T) \in Nat
  <2>1. IsFiniteSet(T) /\ IsFiniteSet(1 .. MaxQty)
    <3>1. IsFiniteSet(T)
      BY FS_Subset DEF Sized
    <3>2. 1 \in Int /\ MaxQty \in Int
      BY <1>1
    <3>3. QED
      BY <3>1, <3>2, FS_Interval
  <2>2. IsFiniteSet(T \X (1 .. MaxQty))
    BY <2>1, FS_Product
  <2>3. Lots(T) \in SUBSET (T \X (1 .. MaxQty))
    BY DEF Lots
  <2>4. QED
    BY <2>2, <2>3, FS_Subset, FS_CardinalityType DEF Total
<1>3. ASSUME NEW r \in S
      PROVE  Total(S) = r.qty + Total(S \ {r})
  <2> DEFINE Own == {r} \X (1 .. r.qty)
             Rest == S \ {r}
  <2>1. r.qty \in 0 .. MaxQty
    BY DEF Sized
  <2>2. IsFiniteSet(Own) /\ Cardinality(Own) = r.qty
    <3>1. IsFiniteSet({r}) /\ Cardinality({r}) = 1
      BY FS_Singleton
    <3>2. 1 \in Int /\ r.qty \in Int
      BY <2>1, <1>1
    <3>3. IsFiniteSet(1 .. r.qty)
          /\ Cardinality(1 .. r.qty) = IF 1 > r.qty THEN 0 ELSE r.qty - 1 + 1
      BY <3>2, FS_Interval
    <3>4. IsFiniteSet(Own) /\ Cardinality(Own) = Cardinality({r}) * Cardinality(1 .. r.qty)
      BY <3>1, <3>3, FS_Product
    <3>5. Cardinality(1 .. r.qty) = r.qty
      BY <3>3, <2>1, <1>1
    <3>6. QED
      BY <3>1, <3>4, <3>5, <3>2
  <2>3. Lots(S) = Own \cup Lots(Rest) /\ Own \cap Lots(Rest) = {}
    BY <2>1, <1>1 DEF Lots
  <2>4. IsFiniteSet(Lots(Rest)) /\ Total(Rest) \in Nat
    BY <1>2
  <2>5. Cardinality(Own \cup Lots(Rest))
          = Cardinality(Own) + Cardinality(Lots(Rest)) - Cardinality(Own \cap Lots(Rest))
    BY <2>2, <2>4, FS_Union
  <2>6. Cardinality(Own \cap Lots(Rest)) = 0
    BY <2>3, FS_EmptySet
  <2> HIDE DEF Own, Rest
  <2>7. Total(S) = r.qty + Total(Rest)
    BY <2>1, <2>2, <2>3, <2>4, <2>5, <2>6, <1>1 DEF Total
  <2>8. QED
    BY <2>7 DEF Rest
<1>4. QED
  BY <1>2, <1>3

(* No report, no lots.                                                     *)
LEMMA TotalOfNone == Total({}) = 0
<1>1. Lots({}) = {}
  BY DEF Lots
<1>2. QED
  BY <1>1, FS_EmptySet DEF Total

(* The fold is the total, whatever order it chooses: the counts satisfy    *)
(* its recursion, and a smallest set at which another function that does   *)
(* differs would have a smaller one.                                       *)
LEMMA UnhandledIsTotal ==
  ASSUME NEW S, Sized(S)
  PROVE  Unhandled(S) = Total(S)
<1> DEFINE g == [T \in SUBSET S |-> Total(T)]
           h == CHOOSE f : IsFold(f, S)
<1>1. Unhandled(S) = h[S]
  BY DEF Unhandled, FoldSet, MapThenFoldSet, IsFold
<1>2. \A T \in SUBSET S : Sized(T)
  BY FS_Subset DEF Sized
<1>3. IsFold(g, S)
  <2>1. g[{}] = 0
    BY TotalOfNone
  <2>2. ASSUME NEW T \in SUBSET S, T # {}
        PROVE  LET r == CHOOSE x \in T : TRUE IN g[T] = r.qty + g[T \ {r}]
    <3> DEFINE r == CHOOSE x \in T : TRUE
    <3>1. r \in T /\ T \ {r} \in SUBSET S /\ Sized(T)
      BY <1>2, <2>2
    <3> HIDE DEF r
    <3>2. Total(T) = r.qty + Total(T \ {r})
      BY <3>1, TotalSplits
    <3>3. QED
      BY <3>1, <3>2 DEF r
  <2>3. QED
    BY <2>1, <2>2 DEF IsFold
<1>4. IsFold(h, S)
  BY <1>3
<1> HIDE DEF h
<1>5. \A T \in SUBSET S : h[T] = g[T]
  <2> DEFINE Bad == {T \in SUBSET S : h[T] # g[T]}
  <2> SUFFICES ASSUME Bad # {} PROVE FALSE
    OBVIOUS
  <2>1. Bad \subseteq FiniteSubsetsOf(S)
    BY <1>2 DEF FiniteSubsetsOf, Sized
  <2>2. IsWellFoundedOn(StrictSubsetOrdering(S), FiniteSubsetsOf(S))
    BY FS_StrictSubsetOrderingWellFounded
  <2>3. PICK T \in Bad : \A E \in Bad : <<E, T>> \notin StrictSubsetOrdering(S)
    BY <2>1, <2>2, WFMin
  <2>4. T # {}
    BY <1>3, <1>4 DEF IsFold
  <2> DEFINE r == CHOOSE x \in T : TRUE
             E == T \ {r}
  <2>5. r \in T
    BY <2>4
  <2>6. E \notin Bad
    <3>1. E \in SUBSET S /\ T \in SUBSET S /\ E \subseteq T /\ E # T
      BY <2>5
    <3> HIDE DEF E, Bad
    <3>2. <<E, T>> \in StrictSubsetOrdering(S)
      BY <3>1 DEF StrictSubsetOrdering
    <3>3. QED
      BY <2>3, <3>2
  <2>7. h[T \ {r}] = g[T \ {r}]
    BY <2>6
  <2>8. T \in SUBSET S /\ h[T] # g[T]
    OBVIOUS
  <2>9. h[T] = r.qty + h[T \ {r}] /\ g[T] = r.qty + g[T \ {r}]
    <3> HIDE DEF g, Bad
    <3>1. QED
      BY <1>3, <1>4, <2>4, <2>8 DEF IsFold
  <2>10. QED
    BY <2>7, <2>8, <2>9
<1>6. QED
  BY <1>1, <1>5

(* What the steps need of it: nothing of nothing.                          *)
LEMMA UnhandledNone == Unhandled({}) = 0
<1>1. Sized({})
  BY FS_EmptySet DEF Sized
<1>2. QED
  BY <1>1, UnhandledIsTotal, TotalOfNone

(* A report less.                                                          *)
LEMMA UnhandledLess ==
  ASSUME NEW S, Sized(S), NEW r \in S
  PROVE  /\ Unhandled(S) = r.qty + Unhandled(S \ {r})
         /\ Unhandled(S) \in Nat /\ Unhandled(S \ {r}) \in Nat
<1>1. Sized(S \ {r})
  BY FS_Subset DEF Sized
<1>2. QED
  BY <1>1, UnhandledIsTotal, TotalSplits

(* A report more; one that counts nothing may have been among them.        *)
LEMMA UnhandledMore ==
  ASSUME NEW S, Sized(S), NEW r, r.qty \in 0 .. MaxQty, r \notin S \/ r.qty = 0
  PROVE  /\ Unhandled(S \cup {r}) = Unhandled(S) + r.qty
         /\ Unhandled(S) \in Nat
         /\ Sized(S \cup {r})
<1>1. Sized(S \cup {r})
  <2>1. IsFiniteSet(S \cup {r})
    BY FS_AddElement DEF Sized
  <2>2. QED
    BY <2>1 DEF Sized
<1>2. Unhandled(S) \in Nat
  BY UnhandledIsTotal, TotalSplits
<1>3. r.qty \in Nat
  BY OrderBookAssumption
<1>4. CASE r \in S
  <2>1. S \cup {r} = S
    BY <1>4
  <2>2. r.qty = 0
    BY <1>4
  <2>3. Unhandled(S) = Unhandled(S) + r.qty
    BY <1>2, <2>2
  <2>4. QED
    BY <1>1, <1>2, <2>1, <2>3
<1>5. CASE r \notin S
  <2>1. (S \cup {r}) \ {r} = S
    BY <1>5
  <2>2. Unhandled(S \cup {r}) = r.qty + Unhandled(S)
    BY <1>1, <2>1, UnhandledLess
  <2>3. QED
    BY <1>1, <1>2, <1>3, <2>2
<1>6. QED
  BY <1>4, <1>5

-----------------------------------------------------------------------------
(***************************************************************************)
(* The invariant.                                                          *)
(***************************************************************************)

Sides == {"buy", "sell"}
BrokerOrders == [side : Sides, qty : 0 .. MaxQty, filled : Nat, state : {"none", "open", "done"}]
Reports == [order : Orders, kind : {"fill", "cancel", "reject"}, qty : 0 .. MaxQty, price : Nat,
            at : Nat]
Records == [machine : States, status : States, qty : Nat, filled : Nat]
PositionRecords == [net : Int, avg : Int, cur : Int, realized : Int]

BrokerOK ==
  /\ broker \in [Orders -> BrokerOrders] /\ account \in Int
  /\ \A o \in Orders :
       /\ broker[o].filled \in 0 .. broker[o].qty
       /\ broker[o].state = "none" => broker[o].filled = 0

\* A fill is reported at the quantity the broker had filled before it, so no
\* two reports of fills are alike.
ReportsOK ==
  /\ reports \subseteq Reports /\ IsFiniteSet(reports)
  /\ \A r \in reports :
       /\ broker[r.order].state # "none"
       /\ r.kind = "fill" => /\ r.qty > 0 /\ r.price \in Prices
                             /\ r.at + r.qty <= broker[r.order].filled
       /\ r.kind # "fill" => r.qty = 0

BooksOK ==
  /\ Tracked \subseteq Orders /\ tracked \in [Tracked -> Records]
  /\ listed \subseteq Orders /\ missed \subseteq Orders
  /\ pos \in PositionRecords /\ equity \in Int /\ peak \in Int /\ peak >= equity
  /\ seen \in BOOLEAN
  /\ warned \subseteq {"position not found at broker", "position not tracked", "open order count"}

\* A process that is not up has been told of nothing and has nothing.
PhaseOK ==
  /\ phase \in {"down", "queried", "up"} /\ starts \in 0 .. MaxStarts
  /\ phase = "down" => starts < MaxStarts /\ tracked = <<>> /\ missed = {} /\ seen = FALSE
  /\ phase # "up" => /\ reports = {} /\ listed = {} /\ pos = Flat /\ equity = 0 /\ peak = 0
                     /\ calm = FALSE

\* The record of an order keeps its size, takes every fill, and is terminal
\* only when the order is full.
TrackedInv ==
  \A o \in Tracked :
    /\ tracked[o].qty = broker[o].qty /\ broker[o].state # "none"
    /\ o \notin missed =>
         /\ tracked[o].machine \in {"Submitted", "PartiallyFilled", "Filled"}
         /\ tracked[o].machine = "Filled" => tracked[o].filled = tracked[o].qty

OnlyBuys == \A o \in Orders : broker[o].side = "sell" => broker[o].filled = 0

\* While all is calm, what the check has been told of the position is true.
AnswerInv ==
  phase = "up" /\ seen /\ OnlyBuys /\ calm
    /\ check.last = "positions asked" /\ check.answer # <<>>
    => (check.answer = <<{}>> <=> pos.net = 0)

BookInv == /\ BrokerOK /\ ReportsOK /\ BooksOK /\ PhaseOK
           /\ TrackedInv /\ FillsAreCounted /\ PositionFollowsBuys /\ ListedAreOpen /\ AnswerInv

-----------------------------------------------------------------------------
(***************************************************************************)
(* The position record.                                                    *)
(***************************************************************************)

(* A fill moves the net position by its quantity and the record stays one. *)
LEMMA FilledMoves ==
  ASSUME NEW p \in PositionRecords, NEW price \in Nat, NEW qty \in Nat \ {0}, NEW buy \in BOOLEAN
  PROVE  /\ Filled(p, price, qty, buy) \in PositionRecords
         /\ Filled(p, price, qty, buy).net = p.net + (IF buy THEN qty ELSE -qty)
<1> DEFINE delta == IF buy THEN qty ELSE -qty
           net == p.net + delta
<1>1. /\ p.net \in Int /\ p.avg \in Int /\ p.realized \in Int /\ Scale \in Int /\ price \in Int
      /\ delta \in Int /\ delta # 0 /\ net \in Int
  BY OrderBookAssumption DEF PositionRecords
<1>2. Abs(p.net) \in Nat /\ Abs(net) \in Nat /\ Sign(p.net) \in Int /\ Sign(delta) \in Int
  BY <1>1 DEF Abs, Sign
<1>3. Least(qty, Abs(p.net)) \in Int
  BY <1>2 DEF Least
<1>4. Scale * price \in Int
  BY <1>1
<1>5. p.avg * Abs(p.net) \in Int /\ Scale * price * qty \in Int
  BY <1>1, <1>2, <1>4
<1>6. CASE Sign(p.net) * Sign(delta) >= 0
  <2>1. net # 0
    BY <1>1, <1>6 DEF Sign
  <2>2. Abs(net) \in Nat \ {0}
    BY <1>1, <2>1 DEF Abs
  <2>3. (p.avg * Abs(p.net) + Scale * price * qty) \div Abs(net) \in Int
    <3> DEFINE num == p.avg * Abs(p.net) + Scale * price * qty
    <3>1. num \in Int
      BY <1>5
    <3> HIDE DEF num
    <3>2. num \div Abs(net) \in Int
      BY <3>1, <2>2
    <3>3. QED
      BY <3>2 DEF num
  <2> HIDE DEF delta, net
  <2>4. Filled(p, price, qty, buy)
          = [p EXCEPT !.net = net, !.cur = price,
                      !.avg = (p.avg * Abs(p.net) + Scale * price * qty) \div Abs(net)]
    BY <1>6 DEF Filled, delta, net
  <2>5. Filled(p, price, qty, buy) \in PositionRecords /\ Filled(p, price, qty, buy).net = net
    BY <1>1, <2>3, <2>4 DEF PositionRecords
  <2>6. QED
    BY <2>5 DEF net, delta
<1>7. CASE ~(Sign(p.net) * Sign(delta) >= 0)
  <2>1. p.realized + Realized(p, price, qty) \in Int
    <3>1. Scale * price - p.avg \in Int
      BY <1>1, <1>4
    <3>2. Least(qty, Abs(p.net)) * (Scale * price - p.avg) \in Int
      BY <3>1, <1>3
    <3>3. Realized(p, price, qty) \in Int
      BY <3>2, <1>2 DEF Realized
    <3>4. QED
      BY <3>3, <1>1
  <2> HIDE DEF delta, net
  <2>2. Filled(p, price, qty, buy)
          = [net |-> net, cur |-> price, avg |-> IF net = 0 THEN 0 ELSE p.avg,
             realized |-> p.realized + Realized(p, price, qty)]
    BY <1>7 DEF Filled, delta, net
  <2>3. Filled(p, price, qty, buy) \in PositionRecords /\ Filled(p, price, qty, buy).net = net
    BY <1>1, <2>1, <2>2 DEF PositionRecords
  <2>4. QED
    BY <2>3 DEF net, delta
<1>8. QED
  BY <1>6, <1>7

(* Recalculating keeps the types, and the peak above the equity.           *)
LEMMA Recalculated ==
  ASSUME peak \in Int, NEW p \in PositionRecords, RecalculateEquity(p)
  PROVE  pos' \in PositionRecords /\ equity' \in Int /\ peak' \in Int /\ peak' >= equity'
<1>1. /\ p.net \in Int /\ p.avg \in Int /\ p.cur \in Int /\ p.realized \in Int /\ Scale \in Int
  BY OrderBookAssumption DEF PositionRecords
<1>2. Scale * p.cur - p.avg \in Int
  BY <1>1
<1>3. p.net * (Scale * p.cur - p.avg) \in Int
  BY <1>1, <1>2
<1>4. Equity(p, p.cur) \in Int
  BY <1>1, <1>3 DEF Equity
<1>5. QED
  BY <1>4 DEF RecalculateEquity

(* A start enters the position with the broker's sign, long or short.      *)
LEMMA EnteredFollows ==
  ASSUME NEW net \in Int, net # 0, NEW cur \in Prices, NEW avg \in Prices
  PROVE  Entered(net, cur, avg) \in PositionRecords /\ Entered(net, cur, avg).net = net
<1>1. cur \in Nat /\ avg \in Nat /\ Scale * avg \in Int
  <2>1. cur \in Nat /\ avg \in Nat /\ Scale \in Nat
    BY OrderBookAssumption
  <2>2. QED
    BY <2>1
<1>2. Flat \in PositionRecords /\ Flat.net = 0
  BY DEF Flat, PositionRecords
<1>3. Abs(net) \in Nat \ {0} /\ (net > 0) \in BOOLEAN
  BY DEF Abs
<1>4. /\ Filled(Flat, cur, Abs(net), net > 0) \in PositionRecords
      /\ Filled(Flat, cur, Abs(net), net > 0).net
           = Flat.net + (IF net > 0 THEN Abs(net) ELSE -Abs(net))
  BY <1>1, <1>2, <1>3, FilledMoves, ZenonT(20)
<1>5. Filled(Flat, cur, Abs(net), net > 0).net = net
  BY <1>2, <1>4 DEF Abs
<1>6. QED
  BY <1>1, <1>4, <1>5 DEF Entered, PositionRecords

-----------------------------------------------------------------------------
(***************************************************************************)
(* The record of an order.                                                 *)
(***************************************************************************)

(* Any event leaves a record of the same size.                             *)
LEMMA TransitionKeeps ==
  ASSUME NEW t \in Records, NEW event \in Events, NEW qty \in Nat
  PROVE  /\ Transition(t, event, qty) \in Records
         /\ Transition(t, event, qty).qty = t.qty
<1>1. Target[event] \in States /\ Status(Target[event]) \in States
  BY DEF Target, Events, States, Status
<1>2. Counted(t.filled, event, qty) \in Nat
  BY DEF Counted, Records
<1>3. QED
  BY <1>1, <1>2 DEF Transition, Records

(* A fill of a record that is neither full nor over is counted; it closes  *)
(* the record only if it is as large as the order.                         *)
LEMMA FillCounts ==
  ASSUME NEW t \in Records, NEW qty \in Nat
  PROVE  /\ UpdateFill(t, qty) \in Records /\ UpdateFill(t, qty).qty = t.qty
         /\ t.machine \in {"Submitted", "PartiallyFilled"} =>
              \/ /\ qty < t.qty /\ UpdateFill(t, qty).machine = "PartiallyFilled"
                 /\ UpdateFill(t, qty).filled = t.filled + qty
              \/ /\ qty >= t.qty /\ UpdateFill(t, qty).machine = "Filled"
                 /\ UpdateFill(t, qty).filled = t.filled + t.qty
<1>1. t.qty \in Nat /\ "PartialFill" \in Events /\ "FullFill" \in Events
  BY DEF Records, Events
<1>2. UpdateFill(t, qty) \in Records /\ UpdateFill(t, qty).qty = t.qty
  BY <1>1, TransitionKeeps DEF UpdateFill, FullFillOrder, PartialFillOrder
<1>3. ASSUME t.machine \in {"Submitted", "PartiallyFilled"}
      PROVE  /\ FullFillOrder(t, t.qty).machine = "Filled"
             /\ FullFillOrder(t, t.qty).filled = t.filled + t.qty
             /\ PartialFillOrder(t, qty).machine = "PartiallyFilled"
             /\ PartialFillOrder(t, qty).filled = t.filled + qty
  <2>1. "Filled" \in Allowed(t.machine) /\ "PartiallyFilled" \in Allowed(t.machine)
    BY <1>3 DEF Allowed
  <2>2. Target["FullFill"] = "Filled" /\ Target["PartialFill"] = "PartiallyFilled"
    BY DEF Target
  <2>3. QED
    BY <2>1, <2>2 DEF FullFillOrder, PartialFillOrder, Transition, Counted, Records
<1>4. QED
  BY <1>1, <1>2, <1>3 DEF UpdateFill

(* A start takes over what the broker has filled of an order.              *)
LEMMA RehydratedFollows ==
  ASSUME NEW order, order.qty \in Nat, order.filled \in Nat
  PROVE  /\ Rehydrated(order) \in Records
         /\ Rehydrated(order).qty = order.qty /\ Rehydrated(order).filled = order.filled
         /\ Rehydrated(order).machine \in {"Submitted", "PartiallyFilled"}
<1> DEFINE new == SubmitOrder(CreateOrder(order.qty))
<1>1. new = [machine |-> "Submitted", status |-> "Submitted", qty |-> order.qty, filled |-> 0]
  BY DEF SubmitOrder, CreateOrder, NewMachine, Transition, Target, Allowed, Status, Counted
<1> HIDE DEF new
<1>2. PartialFillOrder(new, order.filled)
        = [machine |-> "PartiallyFilled", status |-> "PartiallyFilled", qty |-> order.qty,
           filled |-> order.filled]
  <2>1. Target["PartialFill"] = "PartiallyFilled" /\ "PartiallyFilled" \in Allowed("Submitted")
    BY DEF Target, Allowed
  <2>2. Counted(0, "PartialFill", order.filled) = order.filled
    BY DEF Counted
  <2>3. Status("PartiallyFilled") = "PartiallyFilled"
    BY DEF Status
  <2>4. QED
    BY <1>1, <2>1, <2>2, <2>3 DEF PartialFillOrder, Transition
<1>3. Rehydrated(order) = IF order.filled > 0 THEN PartialFillOrder(new, order.filled) ELSE new
  BY DEF Rehydrated, new
<1>4. QED
  BY <1>1, <1>2, <1>3 DEF Records, States

-----------------------------------------------------------------------------
(***************************************************************************)
(* The steps.                                                              *)
(***************************************************************************)

Of(o) == {r \in reports : r.order = o}

(* Reports of one order are reports, so their quantities add up as well.   *)
LEMMA AllSized ==
  ASSUME ReportsOK
  PROVE  Sized(reports) /\ \A o \in Orders : Sized(Of(o))
<1>1. Sized(reports)
  BY DEF ReportsOK, Reports, Sized
<1>2. ASSUME NEW o \in Orders
      PROVE  Sized(Of(o))
  <2>1. Of(o) \in SUBSET reports
    BY DEF Of
  <2>2. QED
    BY <1>1, <2>1, FS_Subset DEF Sized
<1>3. QED
  BY <1>1, <1>2

(* An order of this process: its id is new, so nothing names it yet.       *)
LEMMA PlaceStep ==
  ASSUME BookInv, NEW o \in Orders, NEW side \in Sides, NEW qty \in 1 .. MaxQty,
         Place(o, side, qty), warned' = {}
  PROVE  BookInv'
<1> USE DEF BookInv
<1>1. /\ phase = "up" /\ broker[o].state = "none"
      /\ broker' = [broker EXCEPT ![o] = [side |-> side, qty |-> qty, filled |-> 0,
                                          state |-> "open"]]
      /\ listed' = listed \cup {o}
      /\ UNCHANGED <<account, reports, phase, starts, tracked, pos, equity, peak, check, calm,
                     missed, seen>>
  BY DEF Place, TrackOpenOrder, checks
<1>2. qty \in 0 .. MaxQty /\ qty \in Nat
  BY OrderBookAssumption
<1>3. /\ broker'[o] = [side |-> side, qty |-> qty, filled |-> 0, state |-> "open"]
      /\ \A x \in Orders : x # o => broker'[x] = broker[x]
      /\ broker' \in [Orders -> BrokerOrders]
  BY <1>1, <1>2 DEF BrokerOK, BrokerOrders
<1>4. BrokerOK'
  BY <1>1, <1>2, <1>3 DEF BrokerOK
<1>5. ReportsOK'
  <2>1. \A r \in reports : r.order \in Orders /\ r.order # o
    BY <1>1 DEF ReportsOK, Reports
  <2>2. QED
    BY <1>1, <1>3, <2>1 DEF ReportsOK
<1>6. BooksOK'
  BY <1>1 DEF BooksOK, Tracked
<1>7. PhaseOK'
  BY <1>1 DEF PhaseOK
<1>8. o \notin Tracked
  BY <1>1 DEF TrackedInv
<1>9. TrackedInv' /\ FillsAreCounted'
  <2>1. Tracked \subseteq Orders
    BY DEF BooksOK
  <2>2. QED
    BY <1>1, <1>3, <1>8, <2>1 DEF TrackedInv, FillsAreCounted, Tracked
<1>10. PositionFollowsBuys' /\ AnswerInv'
  <2>1. broker[o].filled = 0
    BY <1>1 DEF BrokerOK
  <2>2. ASSUME OnlyBuys', NEW x \in Orders, broker[x].side = "sell"
        PROVE  broker[x].filled = 0
    BY <1>3, <2>1, <2>2 DEF OnlyBuys
  <2>3. QED
    BY <1>1, <2>2 DEF PositionFollowsBuys, OnlyBuys, AnswerInv
<1>11. ListedAreOpen'
  <2>1. listed \subseteq Orders
    BY DEF BooksOK
  <2>2. QED
    BY <1>1, <1>3, <2>1 DEF ListedAreOpen
<1>12. QED
  BY <1>4, <1>5, <1>6, <1>7, <1>9, <1>10, <1>11

(* The broker fills, and reports to a process that is up; a fill between   *)
(* the two queries is told to nobody.                                      *)
LEMMA BrokerFillsStep ==
  ASSUME BookInv, NEW o \in Orders, NEW qty \in 1 .. MaxQty, NEW price \in Prices,
         BrokerFills(o, qty, price), warned' = {}
  PROVE  BookInv'
<1> USE DEF BookInv
<1> DEFINE r == [order |-> o, kind |-> "fill", qty |-> qty, price |-> price,
                 at |-> broker[o].filled]
<1>1. /\ broker[o].state = "open" /\ broker[o].filled + qty <= broker[o].qty
      /\ broker' = [broker EXCEPT ![o].filled = @ + qty,
                                  ![o].state = IF broker[o].filled + qty = broker[o].qty
                                               THEN "done" ELSE "open"]
      /\ account' = account + (IF broker[o].side = "buy" THEN qty ELSE -qty)
      /\ missed' = IF phase = "queried" THEN missed \cup {o} ELSE missed
      /\ reports' = IF phase # "up" THEN reports ELSE reports \cup {r}
      /\ UNCHANGED <<phase, starts, tracked, listed, pos, equity, peak, check, calm, seen>>
  BY DEF BrokerFills, Report, book, checks
<1>2. /\ qty \in 0 .. MaxQty /\ qty \in Nat /\ qty > 0 /\ price \in Nat
      /\ broker[o] \in BrokerOrders /\ broker[o].filled \in Nat /\ broker[o].qty \in Nat
  <2>1. MaxQty \in Nat /\ Prices \subseteq Nat
    BY OrderBookAssumption
  <2>2. broker[o] \in BrokerOrders
    BY DEF BrokerOK
  <2>3. broker[o].qty \in Nat
    BY <2>1, <2>2 DEF BrokerOrders
  <2>4. QED
    BY <2>1, <2>2, <2>3 DEF BrokerOrders
<1>3. /\ broker' \in [Orders -> BrokerOrders]
      /\ broker'[o].filled = broker[o].filled + qty /\ broker'[o].qty = broker[o].qty
      /\ broker'[o].side = broker[o].side /\ broker'[o].state \in {"open", "done"}
      /\ broker'[o].filled < broker'[o].qty => broker'[o].state = "open"
      /\ \A x \in Orders : x # o => broker'[x] = broker[x]
  <2> DEFINE state == IF broker[o].filled + qty = broker[o].qty THEN "done" ELSE "open"
  <2>1. broker'[o] = [broker[o] EXCEPT !.filled = @ + qty, !.state = state]
    BY <1>1 DEF BrokerOK
  <2>2. broker[o].filled + qty \in Nat /\ state \in {"open", "done"}
    BY <1>2
  <2>3. \A x \in Orders : x # o => broker'[x] = broker[x]
    BY <1>1 DEF BrokerOK
  <2>4. broker[o].filled + qty < broker[o].qty => state = "open"
    BY <1>2
  <2> HIDE DEF state
  <2>5. /\ broker'[o] \in BrokerOrders
        /\ broker'[o].filled = broker[o].filled + qty /\ broker'[o].qty = broker[o].qty
        /\ broker'[o].side = broker[o].side /\ broker'[o].state = state
    BY <1>2, <2>1, <2>2 DEF BrokerOrders
  <2>6. broker' \in [Orders -> BrokerOrders]
    <3>1. broker' = [x \in Orders |-> broker'[x]]
      BY <1>1 DEF BrokerOK
    <3>2. \A x \in Orders : broker'[x] \in BrokerOrders
      BY <2>3, <2>5 DEF BrokerOK
    <3>3. QED
      BY <3>1, <3>2
  <2>7. QED
    BY <2>2, <2>3, <2>4, <2>5, <2>6
<1>4. BrokerOK'
  <2>1. account' \in Int
    BY <1>1, <1>2 DEF BrokerOK
  <2>2. ASSUME NEW x \in Orders
        PROVE  /\ broker'[x].filled \in 0 .. broker'[x].qty
               /\ broker'[x].state = "none" => broker'[x].filled = 0
    <3>1. CASE x = o
      BY <1>1, <1>2, <1>3, <3>1
    <3>2. CASE x # o
      BY <1>3, <3>2 DEF BrokerOK
    <3>3. QED
      BY <3>1, <3>2
  <2>3. QED
    BY <1>3, <2>1, <2>2 DEF BrokerOK
<1>5. r \notin reports /\ r.qty \in 0 .. MaxQty /\ r.order = o
  BY <1>2 DEF ReportsOK, Reports
<1>6. ReportsOK'
  <2>1. r \in Reports
    BY <1>2 DEF Reports
  <2>2. IsFiniteSet(reports')
    BY <1>1, FS_AddElement DEF ReportsOK
  <2>3. ASSUME NEW x \in reports
        PROVE  /\ broker'[x.order].state # "none"
               /\ x.kind = "fill" => x.at + x.qty <= broker'[x.order].filled
    <3>1. x.order \in Orders /\ x.at \in Nat /\ x.qty \in Nat
      BY OrderBookAssumption DEF ReportsOK, Reports
    <3>2. CASE x.order = o
      <4>1. x.kind = "fill" => x.at + x.qty <= broker[o].filled
        BY <3>2 DEF ReportsOK
      <4>2. QED
        BY <1>2, <1>3, <3>1, <3>2, <4>1
    <3>3. CASE x.order # o
      BY <1>3, <3>1, <3>3 DEF ReportsOK
    <3>4. QED
      BY <3>2, <3>3
  <2>4. /\ broker'[r.order].state # "none" /\ r.kind = "fill" /\ r.qty > 0 /\ r.price \in Prices
        /\ r.at + r.qty <= broker'[r.order].filled
    BY <1>2, <1>3
  <2> HIDE DEF r
  <2>5. \A x \in reports' : x \in reports \/ x = r
    BY <1>1
  <2>6. reports' \subseteq Reports
    BY <2>1, <2>5 DEF ReportsOK
  <2>7. ASSUME NEW x \in reports'
        PROVE  /\ broker'[x.order].state # "none"
               /\ x.kind = "fill" => /\ x.qty > 0 /\ x.price \in Prices
                                     /\ x.at + x.qty <= broker'[x.order].filled
               /\ x.kind # "fill" => x.qty = 0
    BY <2>3, <2>4, <2>5 DEF ReportsOK
  <2>8. QED
    BY <2>2, <2>6, <2>7 DEF ReportsOK
<1>7. BooksOK'
  BY <1>1 DEF BooksOK, Tracked
<1>8. PhaseOK'
  BY <1>1 DEF PhaseOK
<1>9. TrackedInv'
  <2>1. \A x \in Tracked : /\ x \in Orders /\ broker'[x].qty = broker[x].qty
                           /\ broker[x].state # "none" => broker'[x].state # "none"
    BY <1>3 DEF BooksOK
  <2>2. missed \subseteq missed'
    BY <1>1
  <2>3. QED
    BY <1>1, <2>1, <2>2 DEF TrackedInv, Tracked
<1> HIDE DEF r
<1>10. FillsAreCounted'
  <2>1. SUFFICES ASSUME NEW x \in Tracked, x \notin missed'
                 PROVE  tracked[x].filled + Unhandled(Of(x)') = broker'[x].filled
    BY <1>1 DEF FillsAreCounted, Tracked, Of
  <2>2. x \in Orders /\ x \notin missed /\ phase # "down" /\ tracked[x].filled \in Nat
    <3>1. x \in Orders /\ tracked[x] \in Records
      BY <2>1 DEF BooksOK
    <3>2. phase # "down"
      BY <2>1 DEF PhaseOK, Tracked
    <3>3. QED
      BY <1>1, <2>1, <3>1, <3>2 DEF Records
  <2>3. tracked[x].filled + Unhandled(Of(x)) = broker[x].filled
    BY <2>1, <2>2 DEF FillsAreCounted, Of
  <2>4. CASE x # o
    <3>1. Of(x)' = Of(x)
      BY <1>1, <1>5, <2>4 DEF Of
    <3>2. QED
      BY <1>3, <2>2, <2>3, <2>4, <3>1
  <2>5. CASE x = o
    <3>1. phase = "up"
      BY <1>1, <2>1, <2>2, <2>5 DEF PhaseOK
    <3>2. Of(x)' = Of(x) \cup {r} /\ r \notin Of(x)
      BY <1>1, <1>5, <2>5, <3>1 DEF Of
    <3>3. Sized(Of(x))
      BY <2>2, AllSized
    <3>4. Unhandled(Of(x)') = Unhandled(Of(x)) + qty /\ Unhandled(Of(x)) \in Nat
      <4>1. r.qty = qty
        BY DEF r
      <4>2. QED
        BY <1>5, <3>2, <3>3, <4>1, UnhandledMore
    <3>5. QED
      BY <1>2, <1>3, <2>2, <2>3, <2>5, <3>4
  <2>6. QED
    BY <2>4, <2>5
<1>11. PositionFollowsBuys' /\ AnswerInv'
  <2>1. SUFFICES ASSUME phase = "up", seen, OnlyBuys'
                 PROVE  pos.net + Unhandled(reports') = account' /\ OnlyBuys
    BY <1>1 DEF PositionFollowsBuys, OnlyBuys, AnswerInv
  <2>2. broker[o].side = "buy" /\ account' = account + qty
    <3>1. broker'[o].filled # 0
      BY <1>2, <1>3
    <3>2. broker[o].side # "sell"
      BY <1>3, <2>1, <3>1 DEF OnlyBuys
    <3>3. QED
      BY <1>1, <1>2, <3>2 DEF BrokerOrders, Sides
  <2>3. OnlyBuys
    BY <1>3, <2>1, <2>2 DEF OnlyBuys
  <2>4. pos.net + Unhandled(reports) = account
    BY <2>1, <2>3 DEF PositionFollowsBuys, OnlyBuys
  <2>5. Unhandled(reports') = Unhandled(reports) + qty /\ Unhandled(reports) \in Nat
    <3>1. reports' = reports \cup {r} /\ r.qty = qty
      BY <1>1, <2>1 DEF r
    <3>2. QED
      BY <1>5, <3>1, AllSized, UnhandledMore
  <2>6. pos.net \in Int /\ account \in Int
    BY DEF BooksOK, PositionRecords, BrokerOK
  <2>7. QED
    BY <1>2, <2>2, <2>3, <2>4, <2>5, <2>6
<1>12. ListedAreOpen'
  <2>1. SUFFICES ASSUME NEW x \in listed
                 PROVE  broker'[x].state = "open" \/ \E y \in reports' : y.order = x
    BY <1>1 DEF ListedAreOpen
  <2>2. x \in Orders /\ phase = "up"
    BY DEF BooksOK, PhaseOK
  <2>3. CASE x = o
    BY <1>1, <1>5, <2>2, <2>3
  <2>4. CASE x # o
    BY <1>1, <1>3, <2>2, <2>4 DEF ListedAreOpen
  <2>5. QED
    BY <2>3, <2>4
<1>13. QED
  BY <1>4, <1>6, <1>7, <1>8, <1>9, <1>10, <1>11, <1>12

(* The broker ends an order; a rejection or a cancellation counts nothing. *)
LEMMA BrokerEndsStep ==
  ASSUME BookInv, NEW o \in Orders, NEW kind \in {"cancel", "reject"},
         BrokerEnds(o, kind), warned' = {}
  PROVE  BookInv'
<1> USE DEF BookInv
<1> DEFINE r == [order |-> o, kind |-> kind, qty |-> 0, price |-> 0, at |-> broker[o].filled]
<1>1. /\ broker[o].state = "open"
      /\ broker' = [broker EXCEPT ![o].state = "done"]
      /\ reports' = IF phase # "up" THEN reports ELSE reports \cup {r}
      /\ UNCHANGED <<account, phase, starts, tracked, listed, pos, equity, peak, check, calm,
                     missed, seen>>
  BY DEF BrokerEnds, Report, book, checks
<1>2. broker[o] \in BrokerOrders /\ broker[o].filled \in Nat /\ 0 \in 0 .. MaxQty
  BY OrderBookAssumption DEF BrokerOK, BrokerOrders
<1>3. /\ broker' \in [Orders -> BrokerOrders] /\ broker'[o].state = "done"
      /\ \A x \in Orders : /\ x # o => broker'[x] = broker[x]
                           /\ broker'[x].filled = broker[x].filled
                           /\ broker'[x].qty = broker[x].qty /\ broker'[x].side = broker[x].side
                           /\ broker'[x].state = "none" <=> broker[x].state = "none"
  <2>1. broker'[o] = [broker[o] EXCEPT !.state = "done"]
    BY <1>1 DEF BrokerOK
  <2>2. \A x \in Orders : x # o => broker'[x] = broker[x]
    BY <1>1 DEF BrokerOK
  <2>3. /\ broker'[o] \in BrokerOrders /\ broker'[o].state = "done"
        /\ broker'[o].filled = broker[o].filled /\ broker'[o].qty = broker[o].qty
        /\ broker'[o].side = broker[o].side
    BY <1>2, <2>1 DEF BrokerOrders
  <2>4. broker' \in [Orders -> BrokerOrders]
    <3>1. broker' = [x \in Orders |-> broker'[x]]
      BY <1>1 DEF BrokerOK
    <3>2. \A x \in Orders : broker'[x] \in BrokerOrders
      BY <2>2, <2>3 DEF BrokerOK
    <3>3. QED
      BY <3>1, <3>2
  <2>5. QED
    BY <1>1, <2>2, <2>3, <2>4
<1>4. BrokerOK'
  BY <1>1, <1>3 DEF BrokerOK
<1>5. r.qty \in 0 .. MaxQty /\ r.order = o /\ r.qty = 0 /\ r.kind # "fill" /\ r \in Reports
  BY <1>2 DEF Reports
<1> HIDE DEF r
<1>6. ReportsOK'
  <2>1. IsFiniteSet(reports')
    BY <1>1, FS_AddElement DEF ReportsOK
  <2>2. \A x \in reports' : x \in reports \/ x = r
    BY <1>1
  <2>3. reports' \subseteq Reports
    BY <1>5, <2>2 DEF ReportsOK
  <2>4. ASSUME NEW x \in reports'
        PROVE  /\ broker'[x.order].state # "none"
               /\ x.kind = "fill" => /\ x.qty > 0 /\ x.price \in Prices
                                     /\ x.at + x.qty <= broker'[x.order].filled
               /\ x.kind # "fill" => x.qty = 0
    <3>1. x.order \in Orders
      BY <2>3 DEF Reports
    <3>2. CASE x \in reports
      BY <1>3, <3>1, <3>2 DEF ReportsOK
    <3>3. CASE x = r
      BY <1>3, <1>5, <3>3
    <3>4. QED
      BY <2>2, <3>2, <3>3
  <2>5. QED
    BY <2>1, <2>3, <2>4 DEF ReportsOK
<1>7. BooksOK'
  BY <1>1 DEF BooksOK, Tracked
<1>8. PhaseOK'
  BY <1>1 DEF PhaseOK
<1>9. TrackedInv'
  <2>1. Tracked \subseteq Orders
    BY DEF BooksOK
  <2>2. QED
    BY <1>1, <1>3, <2>1 DEF TrackedInv, Tracked
<1>10. FillsAreCounted'
  <2>1. SUFFICES ASSUME NEW x \in Tracked, x \notin missed
                 PROVE  tracked[x].filled + Unhandled(Of(x)') = broker'[x].filled
    BY <1>1 DEF FillsAreCounted, Tracked, Of
  <2>2. x \in Orders
    BY DEF BooksOK
  <2>3. Unhandled(Of(x)') = Unhandled(Of(x))
    <3>1. CASE Of(x)' = Of(x)
      BY <3>1
    <3>2. CASE Of(x)' = Of(x) \cup {r}
      <4>1. Sized(Of(x))
        BY <2>2, AllSized
      <4>2. Unhandled(Of(x)') = Unhandled(Of(x)) + 0 /\ Unhandled(Of(x)) \in Nat
        BY <1>5, <3>2, <4>1, UnhandledMore
      <4>3. QED
        BY <4>2
    <3>3. QED
      BY <1>1, <1>5, <3>1, <3>2 DEF Of
  <2>4. QED
    BY <1>3, <2>1, <2>2, <2>3 DEF FillsAreCounted, Of
<1>11. PositionFollowsBuys' /\ AnswerInv'
  <2>1. Unhandled(reports') = Unhandled(reports)
    <3>1. CASE reports' = reports \cup {r}
      <4>1. Unhandled(reports') = Unhandled(reports) + 0 /\ Unhandled(reports) \in Nat
        BY <1>5, <3>1, AllSized, UnhandledMore
      <4>2. QED
        BY <4>1
    <3>2. QED
      BY <1>1, <3>1
  <2>2. OnlyBuys' => OnlyBuys
    BY <1>3 DEF OnlyBuys
  <2>3. QED
    BY <1>1, <2>1, <2>2 DEF PositionFollowsBuys, OnlyBuys, AnswerInv
<1>12. ListedAreOpen'
  <2>1. SUFFICES ASSUME NEW x \in listed
                 PROVE  broker'[x].state = "open" \/ \E y \in reports' : y.order = x
    BY <1>1 DEF ListedAreOpen
  <2>2. x \in Orders /\ phase = "up"
    BY DEF BooksOK, PhaseOK
  <2>3. CASE x = o
    BY <1>1, <1>5, <2>2, <2>3
  <2>4. CASE x # o
    BY <1>1, <1>3, <2>2, <2>4 DEF ListedAreOpen
  <2>5. QED
    BY <2>3, <2>4
<1>13. QED
  BY <1>4, <1>6, <1>7, <1>8, <1>9, <1>10, <1>11, <1>12

(* What the three handlers share: the report is gone, and its order from   *)
(* the switch's list.                                                      *)
LEMMA HandledShared ==
  ASSUME BookInv, NEW r \in reports, Handles(r), RemoveOpenOrder(r.order)
  PROVE  /\ BrokerOK' /\ ReportsOK' /\ PhaseOK' /\ ListedAreOpen'
         /\ listed' \subseteq Orders
         /\ Unhandled(reports) = r.qty + Unhandled(reports') /\ Unhandled(reports') \in Nat
         /\ \A x \in Orders : /\ Unhandled(Of(x)') \in Nat
                              /\ Unhandled(Of(x)) = Unhandled(Of(x)')
                                                      + (IF x = r.order THEN r.qty ELSE 0)
<1> USE DEF BookInv
<1>1. /\ phase = "up" /\ reports' = reports \ {r} /\ listed' = listed \ {r.order}
      /\ UNCHANGED <<broker, account, phase, starts, check, missed, seen>>
  BY DEF Handles, RemoveOpenOrder
<1>2. BrokerOK'
  BY <1>1 DEF BrokerOK
<1>3. ReportsOK'
  <2>1. IsFiniteSet(reports')
    BY <1>1, FS_RemoveElement DEF ReportsOK
  <2>2. QED
    BY <1>1, <2>1 DEF ReportsOK
<1>4. PhaseOK'
  BY <1>1 DEF PhaseOK
<1>5. ListedAreOpen' /\ listed' \subseteq Orders
  BY <1>1 DEF ListedAreOpen, BooksOK
<1>6. Unhandled(reports) = r.qty + Unhandled(reports') /\ Unhandled(reports') \in Nat
  BY <1>1, AllSized, UnhandledLess
<1>7. ASSUME NEW x \in Orders
      PROVE  /\ Unhandled(Of(x)') \in Nat
             /\ Unhandled(Of(x)) = Unhandled(Of(x)') + (IF x = r.order THEN r.qty ELSE 0)
  <2>1. Sized(Of(x)) /\ r.qty \in Nat
    BY AllSized, OrderBookAssumption DEF ReportsOK, Reports
  <2>2. CASE x = r.order
    <3>1. r \in Of(x) /\ Of(x)' = Of(x) \ {r}
      BY <1>1, <2>2 DEF Of
    <3>2. Unhandled(Of(x)) = r.qty + Unhandled(Of(x)') /\ Unhandled(Of(x)') \in Nat
      BY <2>1, <3>1, UnhandledLess
    <3>3. QED
      BY <2>1, <2>2, <3>2
  <2>3. CASE x # r.order
    <3>1. Of(x)' = Of(x)
      BY <1>1, <2>3 DEF Of
    <3>2. Unhandled(Of(x)) \in Nat
      BY <2>1, UnhandledIsTotal, TotalSplits
    <3>3. QED
      BY <2>3, <3>1, <3>2
  <2>4. QED
    BY <2>2, <2>3
<1>8. QED
  BY <1>2, <1>3, <1>4, <1>5, <1>6, <1>7

(* A fill is counted in the record of its order, if the tracker has one,   *)
(* and moves the position as it had moved the account.                     *)
LEMMA OnFillStep ==
  ASSUME BookInv, NEW r \in reports, OnFill(r), warned' = {}
  PROVE  BookInv'
<1> USE DEF BookInv
<1> DEFINE o == r.order
<1>1. /\ r.kind = "fill" /\ Handles(r) /\ RemoveOpenOrder(o)
      /\ RecalculateEquity(Filled(pos, r.price, r.qty, TRUE))
      /\ tracked' = IF o \in Tracked THEN [tracked EXCEPT ![o] = UpdateFill(tracked[o], r.qty)]
                                     ELSE tracked
      /\ calm' = FALSE /\ UNCHANGED <<broker, account, phase, starts, check, missed, seen>>
  BY DEF OnFill, Handles, Update
<1>2. /\ o \in Orders /\ r.qty \in Nat \ {0} /\ r.price \in Nat /\ r.at \in Nat
      /\ r.at + r.qty <= broker[o].filled
      /\ broker[o].filled \in Nat /\ broker[o].qty \in Nat /\ broker[o].filled <= broker[o].qty
  <2>1. r \in Reports /\ r.qty > 0 /\ r.at + r.qty <= broker[o].filled
    BY <1>1 DEF ReportsOK
  <2>2. o \in Orders /\ r.qty \in Nat \ {0} /\ r.price \in Nat /\ r.at \in Nat
    BY <2>1, OrderBookAssumption DEF Reports
  <2>3. broker[o].filled \in 0 .. broker[o].qty /\ broker[o].qty \in 0 .. MaxQty
    BY <2>2 DEF BrokerOK, BrokerOrders
  <2>4. QED
    BY <2>1, <2>2, <2>3, OrderBookAssumption
<1>3. /\ BrokerOK' /\ ReportsOK' /\ PhaseOK' /\ ListedAreOpen' /\ listed' \subseteq Orders
      /\ Unhandled(reports) = r.qty + Unhandled(reports') /\ Unhandled(reports') \in Nat
      /\ \A x \in Orders : /\ Unhandled(Of(x)') \in Nat
                           /\ Unhandled(Of(x)) = Unhandled(Of(x)')
                                                   + (IF x = o THEN r.qty ELSE 0)
  BY <1>1, HandledShared
<1> HIDE DEF o
<1>4. /\ Filled(pos, r.price, r.qty, TRUE) \in PositionRecords
      /\ Filled(pos, r.price, r.qty, TRUE).net = pos.net + r.qty
  BY <1>2, FilledMoves DEF BooksOK
<1>5. /\ pos' \in PositionRecords /\ equity' \in Int /\ peak' \in Int /\ peak' >= equity'
      /\ pos'.net = pos.net + r.qty
  <2>1. pos' = Filled(pos, r.price, r.qty, TRUE) /\ peak \in Int
    BY <1>1 DEF RecalculateEquity, BooksOK
  <2>2. QED
    BY <1>1, <1>4, <2>1, Recalculated
<1>6. /\ Tracked' = Tracked /\ Tracked \subseteq Orders /\ tracked \in [Tracked -> Records]
      /\ \A x \in Tracked : x # o => tracked'[x] = tracked[x]
      /\ o \in Tracked => tracked'[o] = UpdateFill(tracked[o], r.qty)
  BY <1>1 DEF BooksOK, Tracked
<1>7. \A x \in Tracked : tracked'[x] \in Records /\ tracked'[x].qty = tracked[x].qty
  <2>1. r.qty \in Nat /\ \A x \in Tracked : tracked[x] \in Records
    BY <1>2, <1>6
  <2>2. \A t \in Records : /\ UpdateFill(t, r.qty) \in Records
                           /\ UpdateFill(t, r.qty).qty = t.qty
    BY <2>1, FillCounts
  <2>3. QED
    BY <1>6, <2>1, <2>2
<1>8. BooksOK'
  <2>1. tracked' \in [Tracked -> Records]
    <3>1. tracked' = [x \in Tracked |-> tracked'[x]]
      BY <1>1, <1>6
    <3>2. QED
      BY <3>1, <1>7
  <2>2. QED
    BY <1>1, <1>3, <1>5, <1>6, <2>1 DEF BooksOK
<1>9. ASSUME NEW x \in Tracked
      PROVE  /\ tracked'[x].qty = broker[x].qty /\ broker[x].state # "none"
             /\ x \notin missed =>
                  /\ tracked'[x].machine \in {"Submitted", "PartiallyFilled", "Filled"}
                  /\ tracked'[x].machine = "Filled" => tracked'[x].filled = tracked'[x].qty
                  /\ tracked'[x].filled + Unhandled(Of(x)') = broker[x].filled
  <2>1. /\ tracked[x].qty = broker[x].qty /\ broker[x].state # "none"
        /\ x \notin missed =>
             /\ tracked[x].machine \in {"Submitted", "PartiallyFilled", "Filled"}
             /\ tracked[x].machine = "Filled" => tracked[x].filled = tracked[x].qty
             /\ tracked[x].filled + Unhandled(Of(x)) = broker[x].filled
    BY DEF TrackedInv, FillsAreCounted, Of
  <2>2. x \in Orders /\ tracked[x] \in Records /\ tracked[x].filled \in Nat
    BY <1>6 DEF Records
  <2>3. CASE x # o
    <3>1. Unhandled(Of(x)) = Unhandled(Of(x)') /\ Unhandled(Of(x)') \in Nat
      BY <1>3, <2>2, <2>3
    <3>2. QED
      BY <1>6, <2>1, <2>3, <3>1
  <2>4. CASE x = o
    <3>1. Unhandled(Of(o)) = Unhandled(Of(o)') + r.qty /\ Unhandled(Of(o)') \in Nat
      BY <1>2, <1>3
    <3>2. tracked'[o].qty = broker[o].qty /\ broker[o].state # "none"
      BY <1>7, <2>1, <2>4
    <3>3. ASSUME o \notin missed
          PROVE  /\ tracked'[o].machine \in {"Submitted", "PartiallyFilled", "Filled"}
                 /\ tracked'[o].machine = "Filled" => tracked'[o].filled = tracked'[o].qty
                 /\ tracked'[o].filled + Unhandled(Of(o)') = broker[o].filled
      <4>1. tracked[o].filled + r.qty <= broker[o].filled
        BY <1>2, <2>1, <2>2, <2>4, <3>1, <3>3
      <4>2. tracked[o].machine \in {"Submitted", "PartiallyFilled"}
        BY <1>2, <2>1, <2>2, <2>4, <3>3, <4>1
      <4>3. \/ /\ tracked'[o].machine = "PartiallyFilled"
               /\ tracked'[o].filled = tracked[o].filled + r.qty
            \/ /\ r.qty >= tracked[o].qty /\ tracked'[o].machine = "Filled"
               /\ tracked'[o].filled = tracked[o].filled + tracked[o].qty
        <5>1. tracked[o] \in Records /\ r.qty \in Nat
          BY <1>2, <2>2, <2>4
        <5>2. QED
          BY <1>6, <2>4, <4>2, <5>1, FillCounts
      <4>4. CASE /\ tracked'[o].machine = "PartiallyFilled"
                 /\ tracked'[o].filled = tracked[o].filled + r.qty
        BY <1>2, <2>1, <2>2, <2>4, <3>1, <3>3, <4>4
      <4>5. CASE /\ r.qty >= tracked[o].qty /\ tracked'[o].machine = "Filled"
                 /\ tracked'[o].filled = tracked[o].filled + tracked[o].qty
        <5>1. tracked[o].filled = 0 /\ r.qty = tracked[o].qty
          BY <1>2, <2>1, <2>2, <2>4, <4>1, <4>5
        <5>2. QED
          BY <1>2, <2>1, <2>2, <2>4, <3>1, <3>2, <3>3, <4>5, <5>1
      <4>6. QED
        BY <4>3, <4>4, <4>5
    <3>4. QED
      BY <2>4, <3>2, <3>3
  <2>5. QED
    BY <2>3, <2>4
<1>10. TrackedInv' /\ FillsAreCounted'
  BY <1>1, <1>6, <1>9 DEF TrackedInv, FillsAreCounted, Of
<1>11. PositionFollowsBuys' /\ AnswerInv'
  <2>1. SUFFICES ASSUME phase = "up", seen, OnlyBuys
                 PROVE  pos'.net + Unhandled(reports') = account
    BY <1>1 DEF PositionFollowsBuys, OnlyBuys, AnswerInv
  <2>2. pos.net + Unhandled(reports) = account /\ pos.net \in Int
    BY <2>1 DEF PositionFollowsBuys, OnlyBuys, BooksOK, PositionRecords
  <2>3. QED
    BY <1>2, <1>3, <1>5, <2>2
<1>12. QED
  BY <1>3, <1>8, <1>10, <1>11

(* A rejection counts nothing.                                             *)
LEMMA OnRejectStep ==
  ASSUME BookInv, NEW r \in reports, OnReject(r), warned' = {}
  PROVE  BookInv'
<1> USE DEF BookInv
<1>1. /\ r.kind = "reject" /\ Handles(r) /\ RemoveOpenOrder(r.order)
      /\ UNCHANGED <<broker, account, phase, starts, check, missed, seen, tracked, pos, equity, peak,
                     calm>>
  BY DEF OnReject, Handles
<1>2. r.qty = 0
  BY <1>1 DEF ReportsOK
<1>3. /\ BrokerOK' /\ ReportsOK' /\ PhaseOK' /\ ListedAreOpen' /\ listed' \subseteq Orders
      /\ Unhandled(reports) = Unhandled(reports')
      /\ \A x \in Orders : Unhandled(Of(x)) = Unhandled(Of(x)')
  BY <1>1, <1>2, HandledShared
<1>4. BooksOK'
  BY <1>1, <1>3 DEF BooksOK, Tracked
<1>5. TrackedInv'
  BY <1>1 DEF TrackedInv, Tracked
<1>6. FillsAreCounted'
  <2>1. \A x \in Tracked : x \in Orders
    BY DEF BooksOK
  <2>2. QED
    BY <1>1, <1>3, <2>1 DEF FillsAreCounted, Tracked, Of
<1>7. PositionFollowsBuys' /\ AnswerInv'
  BY <1>1, <1>3 DEF PositionFollowsBuys, AnswerInv, OnlyBuys
<1>8. QED
  BY <1>3, <1>4, <1>5, <1>6, <1>7

(* Nor does a cancellation, whose record keeps its machine.                *)
LEMMA OnCancelStep ==
  ASSUME BookInv, NEW r \in reports, OnCancel(r), warned' = {}
  PROVE  BookInv'
<1> USE DEF BookInv
<1> DEFINE o == r.order
<1>1. /\ r.kind = "cancel" /\ Handles(r) /\ RemoveOpenOrder(o)
      /\ tracked' = IF o \in Tracked THEN [tracked EXCEPT ![o] = Cancelled(tracked[o])]
                                     ELSE tracked
      /\ UNCHANGED <<broker, account, phase, starts, check, missed, seen, pos, equity, peak, calm>>
  BY DEF OnCancel, Handles, Update
<1>2. r.qty = 0
  BY <1>1 DEF ReportsOK
<1>3. /\ BrokerOK' /\ ReportsOK' /\ PhaseOK' /\ ListedAreOpen' /\ listed' \subseteq Orders
      /\ Unhandled(reports) = Unhandled(reports')
      /\ \A x \in Orders : Unhandled(Of(x)) = Unhandled(Of(x)')
  BY <1>1, <1>2, HandledShared
<1> HIDE DEF o
<1>4. /\ Tracked' = Tracked /\ Tracked \subseteq Orders /\ tracked \in [Tracked -> Records]
      /\ \A x \in Tracked : tracked'[x] \in {tracked[x], Cancelled(tracked[x])}
  BY <1>1 DEF BooksOK, Tracked
<1>5. \A x \in Tracked : /\ tracked'[x] \in Records
                         /\ tracked'[x].machine = tracked[x].machine
                         /\ tracked'[x].qty = tracked[x].qty
                         /\ tracked'[x].filled = tracked[x].filled
  <2>1. \A t \in Records : /\ Cancelled(t) \in Records /\ Cancelled(t).machine = t.machine
                           /\ Cancelled(t).qty = t.qty /\ Cancelled(t).filled = t.filled
    BY DEF Cancelled, Records, States
  <2>2. QED
    BY <1>4, <2>1
<1>6. BooksOK'
  <2>1. tracked' \in [Tracked -> Records]
    <3>1. tracked' = [x \in Tracked |-> tracked'[x]]
      BY <1>1, <1>4
    <3>2. QED
      BY <3>1, <1>5
  <2>2. QED
    BY <1>1, <1>3, <1>4, <2>1 DEF BooksOK
<1>7. TrackedInv'
  BY <1>1, <1>4, <1>5 DEF TrackedInv
<1>8. FillsAreCounted'
  <2>1. \A x \in Tracked : x \in Orders
    BY DEF BooksOK
  <2>2. ASSUME NEW x \in Tracked \ missed
        PROVE  tracked'[x].filled + Unhandled(Of(x)') = broker[x].filled
    <3>1. tracked[x].filled + Unhandled(Of(x)) = broker[x].filled
      BY DEF FillsAreCounted, Of
    <3>2. x \in Tracked /\ x \in Orders
      BY <2>1
    <3>3. tracked'[x].filled = tracked[x].filled
      BY <1>5, <3>2
    <3>4. Unhandled(Of(x)) = Unhandled(Of(x)')
      BY <1>3, <3>2
    <3>5. QED
      BY <3>1, <3>3, <3>4
  <2>3. Tracked' \ missed' = Tracked \ missed /\ broker' = broker
    BY <1>1, <1>4
  <2>4. QED
    BY <2>2, <2>3 DEF FillsAreCounted, Of
<1>9. PositionFollowsBuys' /\ AnswerInv'
  BY <1>1, <1>3 DEF PositionFollowsBuys, AnswerInv, OnlyBuys
<1>10. QED
  BY <1>3, <1>6, <1>7, <1>8, <1>9

(* A crash leaves what the broker has, and of the process nothing.         *)
LEMMA CrashStep ==
  ASSUME BookInv, Crash, warned' = {}
  PROVE  BookInv'
<1> USE DEF BookInv
<1>1. /\ starts < MaxStarts /\ phase' = "down"
      /\ tracked' = <<>> /\ listed' = {} /\ pos' = Flat /\ equity' = 0 /\ peak' = 0
      /\ reports' = {} /\ missed' = {} /\ seen' = FALSE /\ calm' = FALSE
      /\ UNCHANGED <<broker, account, starts>>
  BY DEF Crash
<1>2. BrokerOK' /\ PhaseOK'
  BY <1>1 DEF BrokerOK, PhaseOK
<1>3. ReportsOK'
  BY <1>1, FS_EmptySet DEF ReportsOK
<1>4. Tracked' = {}
  BY <1>1 DEF Tracked
<1>5. BooksOK'
  <2>1. tracked' \in [Tracked' -> Records]
    BY <1>1, <1>4
  <2>2. Flat \in PositionRecords
    BY DEF Flat, PositionRecords
  <2>3. QED
    <3>1. Tracked' \subseteq Orders /\ listed' \subseteq Orders /\ missed' \subseteq Orders
      BY <1>1, <1>4
    <3>2. equity' \in Int /\ peak' \in Int /\ peak' >= equity'
      BY <1>1
    <3>3. seen' \in BOOLEAN /\ warned' \subseteq {"position not found at broker",
                                                "position not tracked", "open order count"}
      BY <1>1
    <3>4. pos' \in PositionRecords
      BY <1>1, <2>2
    <3>5. QED
      BY <2>1, <3>1, <3>2, <3>3, <3>4 DEF BooksOK
<1>6. TrackedInv' /\ FillsAreCounted'
  BY <1>4 DEF TrackedInv, FillsAreCounted
<1>7. PositionFollowsBuys' /\ ListedAreOpen' /\ AnswerInv'
  BY <1>1 DEF PositionFollowsBuys, ListedAreOpen, AnswerInv
<1>8. QED
  BY <1>2, <1>3, <1>5, <1>6, <1>7

(* The tracker takes over the broker's open orders, if it is answered.     *)
LEMMA QueryOpenOrdersStep ==
  ASSUME BookInv, QueryOpenOrders, warned' = {}
  PROVE  BookInv'
<1> USE DEF BookInv
<1>1. /\ phase = "down" /\ phase' = "queried" /\ starts' = starts + 1
      /\ UNCHANGED <<broker, account, reports, listed, pos, equity, peak, check, calm,
                     missed, seen>>
  BY DEF QueryOpenOrders, checks
<1>2. \/ tracked' = <<>>
      \/ tracked' = [o \in DOMAIN OpenOrders |-> Rehydrated(OpenOrders[o])]
  BY DEF QueryOpenOrders, Answers
<1>3. /\ reports = {} /\ listed = {} /\ missed = {} /\ starts < MaxStarts
      /\ starts \in Nat /\ MaxStarts \in Nat
  BY <1>1, OrderBookAssumption DEF PhaseOK
<1>4. /\ Tracked' \subseteq Orders
      /\ tracked' \in [Tracked' -> Records]
      /\ \A o \in Tracked' :
           /\ tracked'[o].qty = broker[o].qty /\ tracked'[o].filled = broker[o].filled
           /\ tracked'[o].machine \in {"Submitted", "PartiallyFilled"}
           /\ broker[o].state # "none"
  <2>1. CASE tracked' = <<>>
    <3>1. Tracked' = {}
      BY <2>1 DEF Tracked
    <3>2. QED
      BY <2>1, <3>1
  <2>2. CASE tracked' = [o \in DOMAIN OpenOrders |-> Rehydrated(OpenOrders[o])]
    <3>1. DOMAIN OpenOrders = {o \in Orders : broker[o].state = "open"}
      BY DEF OpenOrders
    <3>2. Tracked' = DOMAIN OpenOrders
      BY <2>2 DEF Tracked
    <3>3. ASSUME NEW o \in DOMAIN OpenOrders
          PROVE  /\ tracked'[o] \in Records
                 /\ tracked'[o].qty = broker[o].qty /\ tracked'[o].filled = broker[o].filled
                 /\ tracked'[o].machine \in {"Submitted", "PartiallyFilled"}
      <4>1. o \in Orders
        BY <3>1
      <4>2. OpenOrders[o].qty = broker[o].qty /\ OpenOrders[o].filled = broker[o].filled
        BY <3>1 DEF OpenOrders
      <4>3. broker[o].qty \in Nat /\ broker[o].filled \in Nat
        BY <4>1, OrderBookAssumption DEF BrokerOK, BrokerOrders
      <4>4. tracked'[o] = Rehydrated(OpenOrders[o])
        BY <2>2
      <4>5. QED
        BY <4>2, <4>3, <4>4, RehydratedFollows
    <3>4. \A o \in DOMAIN OpenOrders : broker[o].state # "none"
      BY <3>1
    <3>5. tracked' = [o \in Tracked' |-> tracked'[o]]
      BY <2>2, <3>2
    <3>6. QED
      BY <3>1, <3>2, <3>3, <3>4, <3>5
  <2>3. QED
    BY <1>2, <2>1, <2>2
<1>5. BrokerOK' /\ ReportsOK'
  BY <1>1 DEF BrokerOK, ReportsOK
<1>6. BooksOK'
  BY <1>1, <1>4 DEF BooksOK
<1>7. PhaseOK'
  <2>1. starts + 1 \in 0 .. MaxStarts
    BY <1>3
  <2>2. QED
    BY <1>1, <2>1 DEF PhaseOK
<1>8. TrackedInv'
  BY <1>1, <1>4 DEF TrackedInv
<1>9. FillsAreCounted'
  <2>1. SUFFICES ASSUME NEW o \in Tracked'
                 PROVE  tracked'[o].filled + Unhandled(Of(o)') = broker[o].filled
    BY <1>1 DEF FillsAreCounted, Of
  <2>2. Of(o)' = {}
    BY <1>1, <1>3 DEF Of
  <2>3. broker[o].filled \in Nat
    BY <1>4, OrderBookAssumption DEF BrokerOK, BrokerOrders
  <2>4. QED
    BY <1>4, <2>2, <2>3, UnhandledNone
<1>10. PositionFollowsBuys' /\ ListedAreOpen' /\ AnswerInv'
  BY <1>1, <1>3 DEF PositionFollowsBuys, ListedAreOpen, AnswerInv
<1>11. QED
  BY <1>5, <1>6, <1>7, <1>8, <1>9, <1>10

(* The position is taken over, if the broker answers; none is the flat one *)
(* a process begins with.                                                  *)
LEMMA QueryPositionsStep ==
  ASSUME BookInv, QueryPositions, warned' = {}
  PROVE  BookInv'
<1> USE DEF BookInv
<1>1. /\ phase = "queried" /\ phase' = "up"
      /\ UNCHANGED <<broker, account, reports, starts, tracked, listed, check, calm, missed>>
  BY DEF QueryPositions, checks
<1>2. reports = {} /\ listed = {} /\ pos = Flat /\ account \in Int /\ calm = FALSE
  BY <1>1 DEF PhaseOK, BrokerOK
<1>3. /\ seen' \in BOOLEAN
      /\ pos' \in PositionRecords /\ equity' \in Int /\ peak' \in Int /\ peak' >= equity'
      /\ seen' => pos'.net = account
  <2>1. PICK answer \in Answers(Positions), cur \in Prices, avg \in Prices :
          /\ seen' = (answer # <<>>)
          /\ IF answer \in {<<>>, <<{}>>}
             THEN UNCHANGED <<pos, equity, peak>>
             ELSE \E net \in answer[1] : RecalculateEquity(Entered(net, cur, avg))
    BY DEF QueryPositions
  <2>2. \/ answer = <<>>
        \/ answer = <<{}>> /\ account = 0
        \/ answer = <<{account}>> /\ account # 0
    BY DEF Answers, Positions
  <2>3. Flat.net = 0 /\ <<{}>> # <<>> /\ <<{account}>> # <<>>
    BY DEF Flat
  <2>4. CASE answer = <<>>
    <3>1. UNCHANGED <<pos, equity, peak>> /\ seen' = FALSE
      BY <2>1, <2>4
    <3>2. QED
      BY <3>1 DEF BooksOK
  <2>5. CASE answer = <<{}>> /\ account = 0
    <3>1. UNCHANGED <<pos, equity, peak>> /\ seen' \in BOOLEAN
      BY <2>1, <2>5
    <3>2. QED
      BY <1>2, <2>3, <2>5, <3>1 DEF BooksOK
  <2>6. CASE answer = <<{account}>> /\ account # 0
    <3>1. answer \notin {<<>>, <<{}>>} /\ answer[1] = {account}
      <4>1. <<{account}>>[1] = {account} /\ <<{}>>[1] = {}
        OBVIOUS
      <4>2. <<{account}>> # <<{}>>
        BY <4>1
      <4>3. QED
        BY <2>3, <2>6, <4>1, <4>2
    <3>2. RecalculateEquity(Entered(account, cur, avg)) /\ seen' \in BOOLEAN
      BY <2>1, <3>1
    <3>3. Entered(account, cur, avg) \in PositionRecords /\ Entered(account, cur, avg).net = account
      BY <1>2, <2>6, EnteredFollows
    <3>4. peak \in Int
      BY DEF BooksOK
    <3>5. pos' \in PositionRecords /\ equity' \in Int /\ peak' \in Int /\ peak' >= equity'
      BY <3>2, <3>3, <3>4, Recalculated
    <3>6. pos' = Entered(account, cur, avg)
      BY <3>2 DEF RecalculateEquity
    <3>7. QED
      BY <3>2, <3>3, <3>5, <3>6
  <2>7. QED
    BY <2>2, <2>4, <2>5, <2>6
<1>4. BrokerOK' /\ ReportsOK'
  BY <1>1 DEF BrokerOK, ReportsOK
<1>5. BooksOK'
  BY <1>1, <1>3 DEF BooksOK, Tracked
<1>6. PhaseOK'
  BY <1>1 DEF PhaseOK
<1>7. TrackedInv' /\ FillsAreCounted'
  BY <1>1 DEF TrackedInv, FillsAreCounted, Tracked
<1>8. PositionFollowsBuys'
  <2>1. SUFFICES ASSUME seen'
                 PROVE  pos'.net + Unhandled(reports') = account
    BY <1>1 DEF PositionFollowsBuys
  <2>2. QED
    BY <1>1, <1>2, <1>3, <2>1, UnhandledNone
<1>9. ListedAreOpen' /\ AnswerInv'
  BY <1>1, <1>2 DEF ListedAreOpen, AnswerInv
<1>10. QED
  BY <1>4, <1>5, <1>6, <1>7, <1>8, <1>9

(* The check changes nothing but its own state.                            *)
LEMMA CheckKeeps ==
  ASSUME BookInv, phase = "up",
         UNCHANGED <<broker, account, reports, phase, starts, tracked, listed, pos, equity, peak,
                     missed, seen>>,
         warned' \subseteq {"position not found at broker", "position not tracked",
                            "open order count"}
  PROVE  /\ BrokerOK' /\ ReportsOK' /\ BooksOK' /\ PhaseOK'
         /\ TrackedInv' /\ FillsAreCounted' /\ ListedAreOpen'
<1> USE DEF BookInv
<1>1. BrokerOK' /\ ReportsOK' /\ PhaseOK' /\ TrackedInv' /\ FillsAreCounted' /\ ListedAreOpen'
  BY DEF BrokerOK, ReportsOK, PhaseOK, TrackedInv, FillsAreCounted, ListedAreOpen, Tracked
<1>2. BooksOK'
  BY DEF BooksOK, Tracked
<1>3. QED
  BY <1>1, <1>2

(* With no fill on its way, the broker's answer is true of the position.   *)
LEMMA AskPositionsStep ==
  ASSUME BookInv, AskPositions
  PROVE  BookInv'
<1> USE DEF BookInv
<1>1. /\ phase = "up" /\ warned' = {}
      /\ UNCHANGED <<broker, account, reports, phase, starts, tracked, listed, pos, equity, peak,
                     missed, seen>>
      /\ calm' = (Unhandled(reports) = 0)
  BY DEF AskPositions, Checks, book
<1>2. PICK answer \in Answers(Positions) : check' = [last |-> "positions asked", answer |-> answer]
  BY DEF AskPositions, Checks
<1>3. seen /\ OnlyBuys => pos.net + Unhandled(reports) = account /\ pos.net \in Int
  BY <1>1 DEF PositionFollowsBuys, OnlyBuys, BooksOK, PositionRecords
<1>4. seen /\ OnlyBuys /\ calm' => pos.net = account
  <2>1. calm' => Unhandled(reports) = 0
    BY <1>1, Zenon
  <2>2. seen /\ OnlyBuys /\ Unhandled(reports) = 0 => pos.net = account
    BY <1>3
  <2>3. QED
    BY <2>1, <2>2, Zenon
<1>5. answer # <<>> => (answer = <<{}>> <=> account = 0)
  <2>1. answer = <<>> \/ (answer = <<{}>> /\ account = 0) \/ (answer = <<{account}>> /\ account # 0)
    BY DEF Answers, Positions
  <2>2. <<{account}>> # <<{}>>
    <3>1. <<{account}>>[1] = {account} /\ <<{}>>[1] = {}
      OBVIOUS
    <3>2. QED
      BY <3>1
  <2>3. QED
    BY <2>1, <2>2
<1>6. AnswerInv'
  <2>1. check'.answer = answer
    BY <1>2
  <2>2. OnlyBuys' = OnlyBuys
    BY <1>1 DEF OnlyBuys
  <2>3. QED
    BY <1>1, <1>4, <1>5, <2>1, <2>2 DEF AnswerInv
<1>7. PositionFollowsBuys'
  BY <1>1, <1>3 DEF PositionFollowsBuys, OnlyBuys
<1>8. QED
  BY <1>1, <1>6, <1>7, CheckKeeps

(* It is still true when the check looks at the position, if no fill has   *)
(* been handled meanwhile.                                                 *)
LEMMA ComparePositionsStep ==
  ASSUME BookInv, ComparePositions
  PROVE  BookInv'
<1> USE DEF BookInv
<1>1. /\ phase = "up" /\ check.last = "positions asked"
      /\ warned' = PositionDrift(check.answer)
      /\ UNCHANGED <<broker, account, reports, phase, starts, tracked, listed, pos, equity, peak,
                     missed, seen, calm>>
      /\ check' = [last |-> "positions compared", answer |-> <<>>]
  BY DEF ComparePositions, Checks, book
<1>2. warned' \subseteq {"position not found at broker", "position not tracked"}
  BY <1>1 DEF PositionDrift
<1>3. ASSUME seen, OnlyBuys, calm PROVE warned' = {}
  <2>1. check.answer # <<>> => (check.answer = <<{}>> <=> pos.net = 0)
    BY <1>1, <1>3 DEF AnswerInv
  <2>2. CASE check.answer = <<>>
    <3>1. <<>> # <<{}>>
      OBVIOUS
    <3>2. PositionDrift(<<>>) = {}
      BY <3>1 DEF PositionDrift
    <3>3. QED
      BY <1>1, <2>2, <3>2
  <2>3. CASE check.answer # <<>> /\ check.answer = <<{}>> /\ pos.net = 0
    BY <1>1, <2>3 DEF PositionDrift, IsFlat
  <2>4. CASE check.answer # <<>> /\ check.answer # <<{}>> /\ pos.net # 0
    BY <1>1, <2>4 DEF PositionDrift, IsFlat
  <2>5. QED
    BY <2>1, <2>2, <2>3, <2>4
<1>4. AnswerInv'
  BY <1>1 DEF AnswerInv
<1>5. PositionFollowsBuys'
  BY <1>1, <1>3 DEF PositionFollowsBuys, OnlyBuys
<1>6. QED
  BY <1>1, <1>2, <1>4, <1>5, CheckKeeps

(* The check of the open orders says nothing of the position.              *)
LEMMA OrdersCheckStep ==
  ASSUME BookInv, AskOrders \/ CompareOrders
  PROVE  BookInv'
<1> USE DEF BookInv
<1>1. /\ phase = "up" /\ check'.last # "positions asked"
      /\ UNCHANGED <<broker, account, reports, phase, starts, tracked, listed, pos, equity, peak,
                     missed, seen>>
  <2>1. CASE AskOrders
    <3>1. PICK answer \in Answers(Cardinality(DOMAIN OpenOrders)) :
            Checks("positions compared", "orders asked", answer)
      BY <2>1 DEF AskOrders
    <3>2. /\ phase = "up" /\ check' = [last |-> "orders asked", answer |-> answer]
          /\ UNCHANGED <<broker, account, reports, phase, starts, book, missed, seen>>
      BY <3>1 DEF Checks
    <3>3. check'.last = "orders asked"
      BY <3>2
    <3>4. QED
      BY <3>2, <3>3 DEF book
  <2>2. CASE CompareOrders
    BY <2>2 DEF CompareOrders, Checks, book
  <2>3. QED
    BY <2>1, <2>2
<1>2. warned' \subseteq {"open order count"}
  BY DEF AskOrders, CompareOrders, OrderDrift
<1>3. AnswerInv'
  BY <1>1 DEF AnswerInv
<1>4. PositionFollowsBuys'
  BY <1>1, <1>2 DEF PositionFollowsBuys
<1>5. QED
  BY <1>1, <1>2, <1>3, <1>4, CheckKeeps

-----------------------------------------------------------------------------
(* The books of the engine agree with the broker's at every step.          *)
THEOREM BookInvHolds == Spec => []BookInv
<1>1. Init => BookInv
  <2> SUFFICES ASSUME Init PROVE BookInv
    OBVIOUS
  <2>1. /\ broker = [o \in Orders |-> Unplaced] /\ account \in InitialPositions /\ reports = {}
        /\ phase = "down" /\ starts = 0 /\ tracked = <<>> /\ listed = {}
        /\ pos = Flat /\ equity = 0 /\ peak = 0
        /\ warned = {} /\ missed = {} /\ seen = FALSE /\ calm = FALSE
    BY DEF Init
  <2>2. MaxQty \in Nat /\ MaxStarts \in Nat \ {0} /\ InitialPositions \subseteq Int
    BY OrderBookAssumption
  <2>3. BrokerOK
    BY <2>1, <2>2 DEF BrokerOK, BrokerOrders, Unplaced, Sides
  <2>4. ReportsOK
    BY <2>1, FS_EmptySet DEF ReportsOK
  <2>5. Tracked = {}
    BY <2>1 DEF Tracked
  <2>6. BooksOK
    <3>1. tracked \in [Tracked -> Records]
      BY <2>1, <2>5
    <3>2. Flat \in PositionRecords
      BY DEF Flat, PositionRecords
    <3>3. QED
      <4>1. Tracked \subseteq Orders /\ listed \subseteq Orders /\ missed \subseteq Orders
        BY <2>1, <2>5
      <4>2. equity \in Int /\ peak \in Int /\ peak >= equity
        BY <2>1
      <4>3. seen \in BOOLEAN /\ warned \subseteq {"position not found at broker",
                                                "position not tracked", "open order count"}
        BY <2>1
      <4>4. pos \in PositionRecords
        BY <2>1, <3>2
      <4>5. QED
        BY <3>1, <4>1, <4>2, <4>3, <4>4 DEF BooksOK
  <2>7. PhaseOK
    BY <2>1, <2>2 DEF PhaseOK
  <2>8. TrackedInv /\ FillsAreCounted /\ PositionFollowsBuys /\ ListedAreOpen /\ AnswerInv
    BY <2>1, <2>5 DEF TrackedInv, FillsAreCounted, PositionFollowsBuys, ListedAreOpen, AnswerInv
  <2>9. QED
    BY <2>3, <2>4, <2>6, <2>7, <2>8 DEF BookInv
<1>2. BookInv /\ [Next]_vars => BookInv'
  <2> SUFFICES ASSUME BookInv, [Next]_vars PROVE BookInv'
    OBVIOUS
  <2>1. CASE Step /\ warned' = {}
    <3>1. CASE \E o \in Orders, side \in {"buy", "sell"}, qty \in 1 .. MaxQty : Place(o, side, qty)
      BY <2>1, <3>1, PlaceStep DEF Sides
    <3>2. CASE \E o \in Orders, qty \in 1 .. MaxQty, price \in Prices : BrokerFills(o, qty, price)
      BY <2>1, <3>2, BrokerFillsStep
    <3>3. CASE \E o \in Orders, kind \in {"cancel", "reject"} : BrokerEnds(o, kind)
      BY <2>1, <3>3, BrokerEndsStep
    <3>4. CASE \E r \in reports : OnFill(r) \/ OnReject(r) \/ OnCancel(r)
      BY <2>1, <3>4, OnFillStep, OnRejectStep, OnCancelStep
    <3>5. CASE Crash \/ QueryOpenOrders \/ QueryPositions
      BY <2>1, <3>5, CrashStep, QueryOpenOrdersStep, QueryPositionsStep
    <3>6. QED
      BY <2>1, <3>1, <3>2, <3>3, <3>4, <3>5 DEF Step
  <2>2. CASE PeriodicCheck
    BY <2>2, AskPositionsStep, ComparePositionsStep, OrdersCheckStep DEF PeriodicCheck
  <2>3. CASE UNCHANGED vars
    <3>1. UNCHANGED <<broker, account, reports, phase, starts, tracked, listed, pos, equity, peak,
                      check, calm, warned, missed, seen>>
      BY <2>3 DEF vars, book, checks
    <3>2. QED
      BY <3>1 DEF BookInv, BrokerOK, ReportsOK, BooksOK, PhaseOK, TrackedInv, FillsAreCounted,
                  PositionFollowsBuys, ListedAreOpen, AnswerInv, OnlyBuys, Tracked
  <2>4. QED
    BY <2>1, <2>2, <2>3 DEF Next
<1>3. QED
  BY <1>1, <1>2, PTL DEF Spec

(* Whatever overtakes whatever, the filled quantity of a record is the     *)
(* broker's less what is on its way.                                       *)
THEOREM FillsCounted == Spec => []FillsAreCounted
<1>1. BookInv => FillsAreCounted
  BY DEF BookInv
<1>2. QED
  BY <1>1, BookInvHolds, PTL

(* The position follows the account through buys and restarts, and the     *)
(* periodic check is silent about it unless a fill was on its way when it  *)
(* asked, or was handled before it compared.                               *)
THEOREM PositionFollows == Spec => []PositionFollowsBuys
<1>1. BookInv => PositionFollowsBuys
  BY DEF BookInv
<1>2. QED
  BY <1>1, BookInvHolds, PTL

(* The kill switch's list names open orders, or such whose end is on its   *)
(* way.                                                                    *)
THEOREM ListedOpen == Spec => []ListedAreOpen
<1>1. BookInv => ListedAreOpen
  BY DEF BookInv
<1>2. QED
  BY <1>1, BookInvHolds, PTL

-----------------------------------------------------------------------------
(***************************************************************************)
(* What a fill is worth.                                                   *)
(***************************************************************************)

\* The equity is that of the position, marked at its price.
Marked == equity = Equity(pos, pos.cur)

\* No fill on its way is going to have the average price rounded.
AveragesAreExact ==
  \A r \in reports : r.kind = "fill" /\ pos.net >= 0 =>
    (pos.avg * pos.net + Scale * r.price * r.qty) % (pos.net + r.qty) = 0

(* Products of integers are distributive.                                  *)
LEMMA ProductsOfInt ==
  \A a, b, c \in Int : /\ a * b \in Int /\ a * (b + c) = a * b + a * c
                       /\ a * (b - c) = a * b - a * c /\ (b + c) * a = b * a + c * a
                       /\ a * b = b * a
  OBVIOUS

(* A division without a remainder is undone by a product.                  *)
LEMMA ExactQuotient ==
  ASSUME NEW a \in Int, NEW n \in Nat \ {0}, a % n = 0
  PROVE  a \div n \in Int /\ (a \div n) * n = a
  OBVIOUS

(* A purchase at a price leaves the equity at that price, whether it adds  *)
(* to a long position or closes a short one.                               *)
LEMMA FillIsNeutral ==
  ASSUME NEW p \in PositionRecords, NEW price \in Nat, NEW qty \in Nat \ {0},
         p.net >= 0 => (p.avg * p.net + Scale * price * qty) % (p.net + qty) = 0,
         ~(p.net < 0 /\ Filled(p, price, qty, TRUE).net > 0)
  PROVE  LET f == Filled(p, price, qty, TRUE) IN Equity(f, f.cur) = Equity(p, f.cur)
<1> DEFINE n == p.net
           a == p.avg
           value == Scale * price
           f == Filled(p, price, qty, TRUE)
<1>1. n \in Int /\ a \in Int /\ p.realized \in Int /\ Scale \in Int /\ price \in Int /\ qty \in Int
  BY OrderBookAssumption DEF PositionRecords
<1>2. value \in Int
  BY <1>1
<1>3. Sign(qty) = 1 /\ n + qty \in Int
  BY <1>1 DEF Sign
<1>4. CASE n >= 0
  <2> DEFINE cost == a * n + value * qty
  <2>1. Sign(n) * Sign(qty) >= 0 /\ Abs(n) = n /\ Abs(n + qty) = n + qty /\ n + qty \in Nat \ {0}
    BY <1>1, <1>3, <1>4 DEF Sign, Abs
  <2>2. cost \in Int /\ cost % (n + qty) = 0
    BY <1>1, <1>2, <1>4
  <2>3. f = [p EXCEPT !.net = n + qty, !.cur = price, !.avg = cost \div (n + qty)]
    BY <2>1 DEF Filled
  <2> DEFINE b == cost \div (n + qty)
  <2>4. b \in Int /\ b * (n + qty) = cost
    <3> HIDE DEF cost, n
    <3>1. QED
      BY <2>1, <2>2, ExactQuotient
  <2>5. f.net = n + qty /\ f.cur = price /\ f.avg = b /\ f.realized = p.realized
    BY <2>3 DEF PositionRecords
  <2> HIDE DEF b, f, n, a, value
  <2>6. (n + qty) * (value - b) = n * (value - a)
    <3>1. (n + qty) * (value - b) = (n + qty) * value - b * (n + qty)
      BY <1>1, <1>2, <1>3, <2>4, ProductsOfInt
    <3>2. (n + qty) * value = n * value + value * qty
      BY <1>1, <1>2, ProductsOfInt
    <3>3. n * (value - a) = n * value - a * n
      BY <1>1, <1>2, ProductsOfInt
    <3>4. /\ n * value \in Int /\ value * qty \in Int /\ a * n \in Int
          /\ b * (n + qty) = a * n + value * qty
      BY <1>1, <1>2, <2>4, ProductsOfInt
    <3>5. QED
      BY <3>1, <3>2, <3>3, <3>4
  <2>7. Equity(f, f.cur) = (n + qty) * (value - b) + p.realized
    BY <2>5 DEF Equity, value
  <2>8. Equity(p, f.cur) = n * (value - a) + p.realized
    BY <2>5 DEF Equity, value, n, a
  <2>9. QED
    BY <2>6, <2>7, <2>8 DEF f
<1>5. CASE n < 0
  <2>1. Sign(n) * Sign(qty) = -1 /\ Sign(n) = -1 /\ Abs(n) = -n
    BY <1>1, <1>3, <1>5 DEF Sign, Abs
  <2>2. f = [net |-> n + qty, cur |-> price, avg |-> IF n + qty = 0 THEN 0 ELSE a,
             realized |-> p.realized + Realized(p, price, qty)]
    <3>1. ~(Sign(n) * Sign(qty) >= 0)
      BY <2>1
    <3>2. QED
      BY <3>1 DEF Filled
  <2>3. ~(n < 0 /\ f.net > 0)
    OBVIOUS
  <2> HIDE DEF f, n, a, value
  <2>4. n + qty <= 0 /\ Least(qty, Abs(n)) = qty
    <3>1. f.net = n + qty
      BY <2>2
    <3>2. n + qty <= 0
      BY <1>3, <1>5, <2>3, <3>1
    <3>3. QED
      BY <1>1, <2>1, <3>2 DEF Least
  <2> DEFINE gain == qty * (value - a)
  <2>5. gain \in Int /\ value - a \in Int
    BY <1>1, <1>2
  <2>6. Realized(p, price, qty) = -gain
    <3>1. Realized(p, price, qty) = gain * (-1)
      BY <2>1, <2>4 DEF Realized, n, a, value
    <3> HIDE DEF gain
    <3>2. QED
      BY <2>5, <3>1
  <2> DEFINE b == IF n + qty = 0 THEN 0 ELSE a
  <2>7. /\ f.net = n + qty /\ f.cur = price /\ f.avg = b
        /\ f.realized = p.realized - gain
    <3>1. f.realized = p.realized + Realized(p, price, qty)
      BY <2>2
    <3> HIDE DEF gain
    <3>2. p.realized + (-gain) = p.realized - gain
      BY <1>1, <2>5
    <3>3. QED
      BY <2>2, <2>6, <3>1, <3>2
  <2> HIDE DEF gain
  <2>8. (n + qty) * (value - b) = (n + qty) * (value - a)
    <3>1. CASE n + qty = 0
      BY <1>1, <1>2, <3>1
    <3>2. CASE n + qty # 0
      BY <3>2
    <3>3. QED
      BY <3>1, <3>2
  <2>9. (n + qty) * (value - a) = n * (value - a) + gain /\ n * (value - a) \in Int
    BY <1>1, <1>2, <2>5, ProductsOfInt DEF gain
  <2>10. Equity(f, f.cur) = (n + qty) * (value - b) + (p.realized - gain)
    BY <2>7 DEF Equity, value
  <2>11. Equity(p, f.cur) = n * (value - a) + p.realized
    BY <2>7 DEF Equity, value, n, a
  <2> HIDE DEF b
  <2>12. Equity(f, f.cur) = Equity(p, f.cur)
    BY <1>1, <2>5, <2>8, <2>9, <2>10, <2>11
  <2>13. QED
    BY <2>12 DEF f
<1>6. n >= 0 \/ n < 0
  BY <1>1
<1> HIDE DEF n
<1>7. QED
  BY <1>4, <1>5, <1>6

(* The equity is the position's at every step.                             *)
LEMMA MarkedStep ==
  ASSUME BookInv, Marked, [Next]_vars
  PROVE  Marked'
<1>1. ASSUME NEW p, RecalculateEquity(p)
      PROVE  Marked'
  BY <1>1 DEF RecalculateEquity, Marked
<1>2. CASE UNCHANGED <<pos, equity>>
  BY <1>2 DEF Marked
<1>3. CASE pos' = Flat /\ equity' = 0
  <2>1. Equity(Flat, Flat.cur) = 0
    BY OrderBookAssumption DEF Equity, Flat
  <2>2. QED
    BY <1>3, <2>1 DEF Marked
<1>4. CASE \E r \in reports : OnFill(r)
  BY <1>1, <1>4 DEF OnFill
<1>5. CASE QueryPositions
  BY <1>1, <1>2, <1>5 DEF QueryPositions
<1>6. CASE Crash
  BY <1>3, <1>6 DEF Crash
<1>7. QED
  BY <1>2, <1>4, <1>5, <1>6 DEF Next, Step, Place, BrokerFills, BrokerEnds, OnReject, OnCancel,
     QueryOpenOrders, PeriodicCheck, AskPositions, ComparePositions, AskOrders, CompareOrders,
     Checks, vars, book

(* A fill at the price of the market earns nothing, unless it turns a      *)
(* short position long, wherever the averages need no rounding.            *)
THEOREM FillsNeutral == Spec /\ []AveragesAreExact => FillsAreNeutral
<1>1. Init => Marked
  BY OrderBookAssumption DEF Init, Marked, Equity, Flat
<1>2. BookInv /\ Marked /\ [Next]_vars => Marked'
  BY MarkedStep
<1>3. BookInv /\ Marked /\ AveragesAreExact /\ [Next]_vars
        => [phase = "up" /\ phase' = "up" /\ ~(pos.net < 0 /\ pos.net' > 0)
              => equity' = Equity(pos, pos'.cur)]_vars
  <2> SUFFICES ASSUME BookInv, Marked, AveragesAreExact, Next,
                      phase = "up", phase' = "up", ~(pos.net < 0 /\ pos.net' > 0)
               PROVE  equity' = Equity(pos, pos'.cur)
    OBVIOUS
  <2>1. CASE UNCHANGED <<pos, equity>>
    BY <2>1 DEF Marked
  <2>2. CASE \E r \in reports : OnFill(r)
    <3>1. PICK r \in reports : OnFill(r)
      BY <2>2
    <3> DEFINE f == Filled(pos, r.price, r.qty, TRUE)
    <3>2. r.kind = "fill" /\ pos' = f /\ equity' = Equity(f, f.cur)
      BY <3>1 DEF OnFill, RecalculateEquity
    <3>3. pos \in PositionRecords /\ r.price \in Nat /\ r.qty \in Nat \ {0}
      <4>1. pos \in PositionRecords /\ r \in Reports /\ r.price \in Prices /\ r.qty > 0
        BY <3>2 DEF BookInv, BooksOK, ReportsOK
      <4>2. r.qty \in 0 .. MaxQty
        BY <4>1 DEF Reports
      <4>3. MaxQty \in Nat /\ Prices \subseteq Nat
        BY OrderBookAssumption
      <4>4. r.price \in Nat
        BY <4>1, <4>3
      <4>5. r.qty \in Nat \ {0}
        BY <4>1, <4>2, <4>3
      <4>6. QED
        BY <4>1, <4>4, <4>5
    <3>4. pos.net >= 0 => (pos.avg * pos.net + Scale * r.price * r.qty) % (pos.net + r.qty) = 0
      BY <3>2 DEF AveragesAreExact
    <3>5. Equity(f, f.cur) = Equity(pos, f.cur)
      BY <3>2, <3>3, <3>4, FillIsNeutral
    <3>6. QED
      BY <3>2, <3>5
  <2>3. ~QueryOpenOrders /\ ~QueryPositions /\ ~Crash
    BY DEF QueryOpenOrders, QueryPositions, Crash
  <2>4. QED
    BY <2>1, <2>2, <2>3 DEF Next, Step, Place, BrokerFills, BrokerEnds, OnReject, OnCancel,
       PeriodicCheck, AskPositions, ComparePositions, AskOrders, CompareOrders, Checks, book
<1>4. QED
  BY <1>1, <1>2, <1>3, BookInvHolds, PTL DEF Spec, FillsAreNeutral

=============================================================================
