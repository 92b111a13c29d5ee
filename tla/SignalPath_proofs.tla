-------------------------- MODULE SignalPath_proofs --------------------------
(***************************************************************************)
(* Proofs about the way of a tick: of the strategy and the order rate of   *)
(* the risk check, for any weights, thresholds, cooldowns and rates and a  *)
(* clock that is set back any number of times; and of the windows, the     *)
(* spread and the counters, for windows of any size and any ticks in any   *)
(* batches.                                                                *)
(***************************************************************************)
EXTENDS SignalPath, TickPath, SequenceTheorems, FiniteSetTheorems,
        WellFoundedInduction, TLAPS

-----------------------------------------------------------------------------
(* The ticks: what is counted of them.                                     *)

Stages == {"loop", "counted", "judge", "skip"}

(* Every tick taken is in one count; the symbol's is behind the total only *)
(* between the two increments; what an over-budget batch has skipped is    *)
(* for the symbol already and for the total when the batch ends; and a     *)
(* snapshot under way has read no more than the symbol's count.            *)
TallyInv ==
  /\ arrived \in Seq(Feed) /\ pending \in 0..Len(arrived) /\ stage \in Stages
  /\ counters \in [ticks : Nat, symbol : Nat, skips : Nat, symbolSkips : Nat]
  /\ skipped \in Nat /\ rejected \in Nat /\ snapshot \in Nat \cup {Idle}
  /\ counters.ticks + counters.symbolSkips + rejected = Taken
  /\ counters.ticks = IF stage = "counted" THEN counters.symbol + 1 ELSE counters.symbol
  /\ counters.symbolSkips <= counters.skips + skipped
  /\ stage # "skip" => skipped = 0
  /\ snapshot <= counters.symbol

LEMMA BatchTyped ==
  ASSUME NEW ticks \in Batches
  PROVE  ticks \in Seq(Feed) /\ Len(ticks) \in Nat \ {0}
<1>1. PICK n \in 1..BatchCapacity : ticks \in [1..n -> Feed]
  BY DEF Batches
<1>2. n \in Nat \ {0}
  BY TickPathAssumption
<1>3. QED
  BY <1>1, <1>2

(* What has arrived stays where it is.                                     *)
LEMMA ReceiveKeeps ==
  ASSUME TallyInv, NEW ticks \in Batches, Receive(ticks)
  PROVE  /\ arrived' \in Seq(Feed) /\ Len(arrived') = Len(arrived) + Len(ticks)
         /\ pending' \in 0..Len(arrived') /\ Taken' = Taken /\ Taken = Len(arrived)
         /\ \A n \in 1..Len(arrived) : arrived'[n] = arrived[n]
<1>1. /\ arrived \in Seq(Feed) /\ ticks \in Seq(Feed)
      /\ Len(arrived) \in Nat /\ Len(ticks) \in Nat
      /\ pending = 0 /\ arrived' = arrived \o ticks /\ pending' = Len(ticks)
  BY BatchTyped DEF TallyInv, Receive
<1>2. /\ arrived \o ticks \in Seq(Feed) /\ Len(arrived \o ticks) = Len(arrived) + Len(ticks)
      /\ \A n \in 1..Len(arrived) : (arrived \o ticks)[n] = arrived[n]
  BY <1>1, ConcatProperties
<1>3. QED
  BY <1>1, <1>2 DEF Taken

(* The processor takes the next of them.                                   *)
LEMMA AdvanceTakes ==
  ASSUME TallyInv, pending > 0, Advance, arrived' = arrived
  PROVE  /\ pending' \in 0..Len(arrived) /\ Taken' = Taken + 1
         /\ Taken \in Nat /\ Taken + 1 \in 1..Len(arrived) /\ NextTick \in Feed
<1>1. /\ arrived \in Seq(Feed) /\ Len(arrived) \in Nat
      /\ pending \in 0..Len(arrived) /\ pending' = pending - 1
  BY DEF TallyInv, Advance
<1>2. /\ pending' \in 0..Len(arrived) /\ Taken' = Taken + 1
      /\ Taken \in Nat /\ Taken + 1 \in 1..Len(arrived)
  BY <1>1 DEF Taken
<1>3. NextTick \in Feed
  BY <1>1, <1>2, ElementOfSeq DEF NextTick
<1>4. QED
  BY <1>2, <1>3

LEMMA TallyStart == TicksInit => TallyInv
<1> SUFFICES ASSUME TicksInit PROVE TallyInv
  OBVIOUS
<1>1. arrived \in Seq(Feed) /\ Len(arrived) = 0 /\ pending = 0
  BY DEF TicksInit
<1>2. QED
  BY <1>1 DEF TicksInit, TallyInv, Stages, NoCounts, Idle, Taken

LEMMA TallyStep ==
  ASSUME TallyInv, [TicksNext]_ticksVars PROVE TallyInv'
<1> DEFINE Counts == [ticks : Nat, symbol : Nat, skips : Nat, symbolSkips : Nat]
<1>1. /\ counters \in Counts /\ Taken \in Nat
      /\ counters = [ticks |-> counters.ticks, symbol |-> counters.symbol,
                     skips |-> counters.skips, symbolSkips |-> counters.symbolSkips]
  BY DEF TallyInv, Taken
<1>a. /\ counters.ticks \in Nat /\ counters.symbolSkips \in Nat /\ rejected \in Nat
      /\ Taken = counters.ticks + counters.symbolSkips + rejected
  BY DEF TallyInv
<1>2. ASSUME NEW ticks \in Batches, Receive(ticks) PROVE TallyInv'
  <2>1. arrived' \in Seq(Feed) /\ pending' \in 0..Len(arrived') /\ Taken' = Taken
    BY <1>2, ReceiveKeeps
  <2>2. QED
    BY <1>2, <2>1 DEF Receive, TallyInv
<1>3. CASE Reject
  <2>1. pending' \in 0..Len(arrived) /\ Taken' = Taken + 1
    BY <1>3, AdvanceTakes DEF Reject
  <2>2. QED
    BY <1>1, <1>3, <2>1 DEF Reject, TallyInv
<1>4. CASE Take
  <2>1. pending' \in 0..Len(arrived) /\ Taken' = Taken + 1
    BY <1>4, AdvanceTakes DEF Take
  <2>2. counters' = [ticks |-> counters.ticks + 1, symbol |-> counters.symbol,
                     skips |-> counters.skips, symbolSkips |-> counters.symbolSkips]
    BY <1>1, <1>4 DEF Take, Count
  <2>3. /\ stage = "loop" /\ stage' = "counted"
        /\ UNCHANGED <<arrived, snapshot, skipped, rejected>>
    BY <1>4 DEF Take
  <2>4. /\ counters'.ticks = counters.ticks + 1
        /\ counters'.symbol = counters.symbol /\ counters'.skips = counters.skips
        /\ counters'.symbolSkips = counters.symbolSkips
    BY <2>2
  <2>5. Taken' = counters'.ticks + counters'.symbolSkips + rejected'
    BY <1>a, <2>1, <2>3, <2>4
  <2>6. /\ counters'.ticks = counters'.symbol + 1 /\ skipped' = 0
        /\ counters'.symbolSkips <= counters'.skips + skipped'
        /\ snapshot' <= counters'.symbol
    BY <2>3, <2>4 DEF TallyInv
  <2>7. counters' \in Counts
    BY <1>1, <2>2
  <2>8. QED
    BY <2>1, <2>3, <2>5, <2>6, <2>7 DEF TallyInv, Stages
<1>5. CASE CountSymbol
  <2>1. counters' = [ticks |-> counters.ticks, symbol |-> counters.symbol + 1,
                     skips |-> counters.skips, symbolSkips |-> counters.symbolSkips]
    BY <1>1, <1>5 DEF CountSymbol, Count
  <2>2. QED
    BY <1>1, <1>5, <2>1 DEF CountSymbol, TallyInv, Stages, Idle, Taken
<1>6. CASE InTime \/ Overrun
  BY <1>6 DEF InTime, Overrun, TallyInv, Stages, Taken
<1>7. CASE Skip
  <2>1. pending' \in 0..Len(arrived) /\ Taken' = Taken + 1
    BY <1>7, AdvanceTakes DEF Skip
  <2>2. counters' = [ticks |-> counters.ticks, symbol |-> counters.symbol,
                     skips |-> counters.skips, symbolSkips |-> counters.symbolSkips + 1]
    BY <1>1, <1>7 DEF Skip, CountSkip
  <2>3. /\ stage = "skip" /\ skipped' = skipped + 1
        /\ UNCHANGED <<arrived, stage, snapshot, rejected>>
    BY <1>7 DEF Skip
  <2>4. /\ counters'.ticks = counters.ticks
        /\ counters'.symbol = counters.symbol /\ counters'.skips = counters.skips
        /\ counters'.symbolSkips = counters.symbolSkips + 1
    BY <2>2
  <2>5. Taken' = counters'.ticks + counters'.symbolSkips + rejected'
    BY <1>a, <2>1, <2>3, <2>4
  <2>6. skipped' \in Nat /\ counters'.symbolSkips <= counters'.skips + skipped'
    BY <1>1, <2>3, <2>4 DEF TallyInv
  <2>7. counters'.ticks = counters'.symbol /\ snapshot' <= counters'.symbol
    BY <2>3, <2>4 DEF TallyInv
  <2>8. counters' \in Counts
    BY <1>1, <2>2
  <2>9. QED
    BY <2>1, <2>3, <2>5, <2>6, <2>7, <2>8 DEF TallyInv
<1>8. CASE EndBatch
  <2>1. counters' = [ticks |-> counters.ticks, symbol |-> counters.symbol,
                     skips |-> counters.skips + skipped, symbolSkips |-> counters.symbolSkips]
    BY <1>1, <1>8 DEF EndBatch
  <2>2. QED
    BY <1>1, <1>8, <2>1 DEF EndBatch, TallyInv, Stages, Taken
<1>9. CASE SetFeatureParams \/ Snapshot
  <2>1. /\ UNCHANGED <<arrived, pending, stage, counters, skipped, rejected>>
        /\ snapshot' \in {snapshot, counters.symbol, Idle}
    BY <1>9 DEF SetFeatureParams, Snapshot, ReadSymbols, ReadTotals
  <2>2. snapshot' \in Nat \cup {Idle} /\ snapshot' <= counters.symbol
    BY <1>1, <2>1 DEF TallyInv, Idle
  <2>3. QED
    BY <2>1, <2>2 DEF TallyInv, Taken
<1>10. CASE UNCHANGED ticksVars
  BY <1>10 DEF ticksVars, TallyInv, Taken
<1>11. QED
  BY <1>2, <1>3, <1>4, <1>5, <1>6, <1>7, <1>8, <1>9, <1>10 DEF TicksNext, Processor

(* Between batches every tick is in exactly one count, and the totals      *)
(* cover the symbols, for any batches, budgets and malformed ticks.        *)
THEOREM TicksAccounted == TicksSpec => []TicksAreAccounted
<1>1. TallyInv => TicksAreAccounted
  BY DEF TallyInv, TicksAreAccounted, Taken
<1>2. QED
  BY <1>1, TallyStart, TallyStep, PTL DEF TicksSpec

(* Wherever in the processor's two increments a snapshot is taken, it does *)
(* not show more ticks for the symbols than in total.                      *)
THEOREM SnapshotsHold == TicksSpec => SnapshotsCover
<1>1. TallyInv => (ReadTotals => snapshot <= counters.ticks)
  BY DEF TallyInv, ReadTotals
<1>2. QED
  BY <1>1, TallyStart, TallyStep, PTL DEF TicksSpec, SnapshotsCover

-----------------------------------------------------------------------------
(* The spread the normaliser remembers is that of the last quote taken     *)
(* that had one, and what is asked for is priced at its tick.              *)
PriceInv ==
  /\ lastSpread = LatestSpread(Taken + 1)
  /\ current.tick \in 0..Taken
  /\ RequestsArePriced

(* Every set of numbers from 1 to n has a largest.                         *)
LEMMA HasLargest ==
  ASSUME NEW n \in Int, NEW D \in SUBSET (1..n), D # {}
  PROVE  Largest(D) \in D /\ \A i \in D : i <= Largest(D)
<1> DEFINE Above == {i..n : i \in D}
<1>1. IsFiniteSet(1..n)
  BY FS_Interval
<1>2. IsWellFoundedOn(StrictSubsetOrdering(1..n), FiniteSubsetsOf(1..n))
  BY <1>1, FS_StrictSubsetOrderingWellFounded
<1>3. Above \subseteq FiniteSubsetsOf(1..n) /\ Above # {}
  <2>1. ASSUME NEW i \in D PROVE i..n \in FiniteSubsetsOf(1..n)
    <3>1. i..n \subseteq 1..n
      OBVIOUS
    <3>2. QED
      BY <1>1, <3>1, FS_Subset DEF FiniteSubsetsOf
  <2>2. QED
    BY <2>1
<1> HIDE DEF Above
<1>4. PICK s \in Above : \A t \in Above : <<t, s>> \notin StrictSubsetOrdering(1..n)
  BY <1>2, <1>3, WFMin
<1>5. PICK m \in D : s = m..n
  BY DEF Above
<1>6. ASSUME NEW i \in D, i > m PROVE FALSE
  <2>1. i..n \in Above /\ i..n \subseteq 1..n /\ m..n \subseteq 1..n
    BY DEF Above
  <2>2. i..n \subseteq m..n /\ m \in m..n /\ m \notin i..n
    BY <1>6
  <2>3. QED
    BY <1>4, <1>5, <2>1, <2>2 DEF StrictSubsetOrdering
<1>7. \A i \in D : m >= i
  BY <1>6
<1>8. QED
  BY <1>7 DEF Largest

(* What is known of a tick does not change when more arrive.               *)
LEMMA SpreadKeeps ==
  ASSUME NEW n \in Int, \A i \in 1..n : arrived'[i] = arrived[i]
  PROVE  /\ LatestSpread(n)' = LatestSpread(n)
         /\ LatestSpread(n + 1)' = LatestSpread(n + 1)
         /\ n > 0 => SpreadAt(n)' = SpreadAt(n)
<1>1. ASSUME NEW m \in {n, n + 1}
      PROVE  LatestSpread(m)' = LatestSpread(m)
  <2>1. Spreads(m) \subseteq 1..(m - 1) /\ 1..(m - 1) \subseteq 1..n
    BY DEF Spreads
  <2>2. Spreads(m)' = Spreads(m)
    BY <2>1 DEF Spreads, Valid
  <2>3. CASE Spreads(m) = {}
    BY <2>2, <2>3 DEF LatestSpread
  <2>4. CASE Spreads(m) # {}
    <3> DEFINE i == Largest(Spreads(m))
    <3>1. i \in 1..n
      BY <2>1, <2>4, HasLargest
    <3>2. arrived'[i] = arrived[i] /\ Largest(Spreads(m))' = i
      BY <2>2, <3>1 DEF Largest
    <3> HIDE DEF i
    <3>3. QED
      BY <2>2, <2>4, <3>2 DEF LatestSpread, i
  <2>5. QED
    BY <2>3, <2>4
<1>2. LatestSpread(n)' = LatestSpread(n) /\ LatestSpread(n + 1)' = LatestSpread(n + 1)
  BY <1>1
<1>3. n > 0 => arrived'[n] = arrived[n]
  OBVIOUS
<1>4. QED
  BY <1>2, <1>3 DEF SpreadAt

(* A quote with a spread is the one to remember from the next tick on.     *)
LEMMA SpreadAdvances ==
  ASSUME TallyInv, NEW n \in 1..Len(arrived)
  PROVE  LatestSpread(n + 1) = IF /\ arrived[n].type = "Quote" /\ Valid(arrived[n])
                                  /\ arrived[n].ask > arrived[n].bid
                               THEN arrived[n].ask - arrived[n].bid ELSE LatestSpread(n)
<1> DEFINE quoted == /\ arrived[n].type = "Quote" /\ Valid(arrived[n])
                     /\ arrived[n].ask > arrived[n].bid
<1>1. Len(arrived) \in Nat
  BY DEF TallyInv
<1>2. 1..(n + 1 - 1) = 1..(n - 1) \cup {n} /\ n \notin 1..(n - 1)
  BY <1>1
<1>3. Spreads(n + 1) = IF quoted THEN Spreads(n) \cup {n} ELSE Spreads(n)
  BY <1>2 DEF Spreads
<1>4. CASE quoted
  <2>1. Spreads(n + 1) = Spreads(n) \cup {n} /\ Spreads(n) \subseteq 1..(n - 1)
    BY <1>3, <1>4 DEF Spreads
  <2>2. \A j \in Spreads(n + 1) : n >= j /\ (j >= n => j = n)
    BY <2>1
  <2>3. Largest(Spreads(n + 1)) = n
    BY <2>1, <2>2 DEF Largest
  <2>4. QED
    BY <1>4, <2>1, <2>3 DEF LatestSpread
<1>5. CASE ~quoted
  BY <1>3, <1>5 DEF LatestSpread
<1>6. QED
  BY <1>4, <1>5

(* What the normaliser makes of the next tick.                             *)
LEMMA NormalizeStep ==
  ASSUME TallyInv, PriceInv, pending > 0, Advance, arrived' = arrived, Valid(NextTick)
  PROVE  /\ Spread(NextTick) = SpreadAt(Taken + 1)
         /\ Normalize(NextTick) => lastSpread' = LatestSpread(Taken + 2)
<1> DEFINE t == NextTick
           n == Taken + 1
<1>1. n \in 1..Len(arrived) /\ t = arrived[n] /\ t \in Feed /\ Taken \in Nat
  BY AdvanceTakes DEF NextTick
<1>2. t.type \in {"Quote", "Trade", "Bar"} /\ t.ask \in Int /\ t.bid \in Int
  BY <1>1, TickPathAssumption
<1>3. lastSpread = LatestSpread(n)
  BY DEF PriceInv
<1>4. LatestSpread(n + 1) = IF t.type = "Quote" /\ t.ask > t.bid THEN t.ask - t.bid
                                                                  ELSE LatestSpread(n)
  BY <1>1, SpreadAdvances
<1> HIDE DEF t, n
<1>5. Spread(t) = SpreadAt(n)
  BY <1>1, <1>2, <1>3 DEF Spread, SpreadAt
<1>6. t.type = "Quote" => Spread(t) = t.ask - t.bid
  BY DEF Spread
<1>7. Normalize(t) => lastSpread' = LatestSpread(n + 1)
  BY <1>2, <1>3, <1>4, <1>6 DEF Normalize
<1>8. n + 1 = Taken + 2
  BY <1>1 DEF n
<1>9. QED
  BY <1>5, <1>7, <1>8 DEF t, n

LEMMA PriceStep ==
  ASSUME TallyInv, PriceInv, [TicksNext]_ticksVars PROVE PriceInv'
<1>1. /\ Taken \in Nat /\ arrived \in Seq(Feed) /\ Len(arrived) \in Nat
      /\ Taken <= Len(arrived) /\ current.tick \in 0..Taken
  <2>1. arrived \in Seq(Feed) /\ Len(arrived) \in Nat /\ pending \in 0..Len(arrived)
    BY DEF TallyInv
  <2>2. current.tick \in 0..Taken
    BY DEF PriceInv
  <2>3. QED
    BY <2>1, <2>2 DEF Taken
<1>2. ASSUME arrived' = arrived, pending' = pending,
             current' = current, lastSpread' = lastSpread
      PROVE  PriceInv'
  BY <1>2 DEF PriceInv, RequestsArePriced, SpreadAt, LatestSpread, Spreads, Taken
<1>3. ASSUME NEW ticks \in Batches, Receive(ticks) PROVE PriceInv'
  <2>1. /\ Taken' = Taken /\ Taken = Len(arrived)
        /\ \A n \in 1..Taken : arrived'[n] = arrived[n]
    BY <1>3, ReceiveKeeps
  <2>2. LatestSpread(Taken + 1)' = LatestSpread(Taken + 1)
    <3>1. \A m \in Int : m = Taken => LatestSpread(m + 1)' = LatestSpread(m + 1)
      BY <2>1, SpreadKeeps
    <3>2. QED
      BY <1>1, <2>1, <3>1
  <2>3. ASSUME current.tick > 0
        PROVE  SpreadAt(current.tick)' = SpreadAt(current.tick)
               /\ arrived'[current.tick] = arrived[current.tick]
    <3> DEFINE m == current.tick
    <3>1. m \in 1..Taken /\ m \in Int /\ current' = current
      BY <1>1, <1>3, <2>3 DEF Receive
    <3>2. \A i \in 1..m : arrived'[i] = arrived[i]
      BY <1>1, <2>1, <3>1
    <3> HIDE DEF m
    <3>3. SpreadAt(m)' = SpreadAt(m) /\ arrived'[m] = arrived[m]
      BY <2>3, <3>1, <3>2, SpreadKeeps DEF m
    <3>4. QED
      BY <3>1, <3>3 DEF m
  <2>4. current' = current /\ lastSpread' = lastSpread
    BY <1>3 DEF Receive
  <2>5. lastSpread' = LatestSpread(Taken + 1)' /\ current'.tick \in 0..Taken'
    BY <1>1, <2>1, <2>2, <2>4 DEF PriceInv
  <2>6. RequestsArePriced'
    BY <2>3, <2>4 DEF PriceInv, RequestsArePriced, Mid
  <2>7. QED
    BY <2>5, <2>6 DEF PriceInv
<1>4. ASSUME arrived' = arrived, Advance, pending > 0, current' = current,
             lastSpread' = LatestSpread(Taken + 2)
      PROVE  PriceInv'
  <2>1. Taken' = Taken + 1
    BY <1>4, AdvanceTakes
  <2>2. Taken' + 1 = Taken + 2
    BY <1>1, <2>1
  <2>3. LatestSpread(Taken + 1)' = LatestSpread(Taken + 2)
    BY <1>4, <2>2 DEF LatestSpread, Spreads
  <2>4. RequestsArePriced'
    BY <1>4 DEF PriceInv, RequestsArePriced, SpreadAt, LatestSpread, Spreads
  <2>5. QED
    BY <1>1, <1>4, <2>1, <2>3, <2>4 DEF PriceInv
<1>5. ASSUME arrived' = arrived, Advance, pending > 0, ~Valid(NextTick)
      PROVE  lastSpread = LatestSpread(Taken + 2)
  <2>1. Taken + 1 \in 1..Len(arrived) /\ Taken + 1 + 1 = Taken + 2
    BY <1>1, <1>5, AdvanceTakes
  <2>2. LatestSpread(Taken + 2) = LatestSpread(Taken + 1)
    BY <1>5, <2>1, SpreadAdvances DEF NextTick
  <2>3. QED
    BY <2>2 DEF PriceInv
<1>6. CASE Reject
  BY <1>4, <1>5, <1>6 DEF Reject
<1>7. CASE Take
  <2>1. /\ arrived' = arrived /\ Advance /\ pending > 0
        /\ Valid(NextTick) /\ Normalize(NextTick)
        /\ current' = [tick   |-> Taken + 1, price |-> Mid(NextTick),
                       spread |-> Spread(NextTick)]
    BY <1>7 DEF Take
  <2>2. Taken' = Taken + 1 /\ Taken' + 1 = Taken + 2
    BY <1>1, <2>1, AdvanceTakes
  <2>3. Spread(NextTick) = SpreadAt(Taken + 1) /\ lastSpread' = LatestSpread(Taken + 2)
    BY <2>1, NormalizeStep
  <2>4. LatestSpread(Taken + 1)' = LatestSpread(Taken + 2)
    BY <2>1, <2>2 DEF LatestSpread, Spreads
  <2>5. /\ current'.tick = Taken + 1 /\ current'.price = Mid(arrived[Taken + 1])
        /\ current'.spread = SpreadAt(Taken + 1)
    BY <2>1, <2>3 DEF NextTick
  <2>6. RequestsArePriced'
    BY <2>1, <2>5 DEF RequestsArePriced, SpreadAt, LatestSpread, Spreads
  <2>7. QED
    BY <1>1, <2>2, <2>3, <2>4, <2>5, <2>6 DEF PriceInv
<1>8. CASE Skip
  <2>1. arrived' = arrived /\ Advance /\ pending > 0 /\ current' = current
    BY <1>8 DEF Skip
  <2>2. CASE Valid(NextTick)
    BY <1>4, <1>8, <2>1, <2>2, NormalizeStep DEF Skip
  <2>3. CASE ~Valid(NextTick)
    BY <1>4, <1>5, <1>8, <2>1, <2>3 DEF Skip
  <2>4. QED
    BY <2>2, <2>3
<1>9. CASE CountSymbol \/ InTime \/ Overrun \/ EndBatch
  BY <1>2, <1>9 DEF CountSymbol, InTime, Overrun, EndBatch
<1>10. CASE SetFeatureParams \/ Snapshot \/ UNCHANGED ticksVars
  BY <1>2, <1>10 DEF SetFeatureParams, Snapshot, ticksVars
<1>11. QED
  BY <1>3, <1>6, <1>7, <1>8, <1>9, <1>10 DEF TicksNext, Processor

LEMMA PriceStart == TicksInit => PriceInv
<1> SUFFICES ASSUME TicksInit PROVE PriceInv
  OBVIOUS
<1>1. Taken = 0 /\ current.tick = 0 /\ lastSpread = 0
  BY DEF TicksInit, Taken, NothingTaken
<1>2. Spreads(1) = {}
  BY DEF Spreads
<1>3. QED
  BY <1>1, <1>2 DEF PriceInv, RequestsArePriced, LatestSpread

(* Whatever was skipped or malformed before it, a request for an order has *)
(* the mid price of its tick and the spread of the last quote with one.    *)
THEOREM RequestsHold == TicksSpec => []RequestsArePriced
<1>1. PriceInv => RequestsArePriced
  BY DEF PriceInv
<1>2. QED
  BY <1>1, TallyStart, TallyStep, PriceStart, PriceStep, PTL DEF TicksSpec

-----------------------------------------------------------------------------
(* A ring of n places that has been given the values of s: where its next  *)
(* place is, whether it has been filled, and what its places hold.         *)
RingOf(w, s, n) ==
  /\ w.data \in [1..n -> Int] /\ w.index \in 0..(n - 1) /\ w.full \in BOOLEAN
  /\ IF w.full THEN Len(s) >= n ELSE w.index = Len(s)
  /\ \A i \in 1..w.index : w.data[i] = s[Len(s) - w.index + i]
  /\ w.full => \A i \in (w.index + 1)..n : w.data[i] = s[Len(s) - w.index - n + i]

LEMMA FunctionIsSeq ==
  ASSUME NEW S, NEW n \in Nat, NEW f \in [1..n -> S]
  PROVE  f \in Seq(S) /\ Len(f) = n
OBVIOUS

LEMMA EmptyIs ==
  ASSUME NEW f, f = [i \in {} |-> f[i]] PROVE f = <<>>
OBVIOUS

LEMMA NextPlace ==
  ASSUME NEW n \in Nat \ {0}, NEW i \in 0..(n - 1)
  PROVE  (i + 1) % n = IF i + 1 = n THEN 0 ELSE i + 1
OBVIOUS

LEMMA EmptyRing ==
  ASSUME NEW n \in Nat \ {0} PROVE RingOf(Window(n), <<>>, n)
BY DEF RingOf, Window

LEMMA PushKeepsRing ==
  ASSUME NEW n \in Nat \ {0}, NEW w, NEW s \in Seq(Int), NEW v \in Int, RingOf(w, s, n)
  PROVE  RingOf(Push(w, v), Append(s, v), n)
<1> DEFINE x == Push(w, v)
           r == Append(s, v)
           L == Len(s)
           k == w.index
<1>1. /\ w.data \in [1..n -> Int] /\ w.full \in BOOLEAN /\ Len(w.data) = n
      /\ k \in 0..(n - 1) /\ L \in Nat
  BY FunctionIsSeq DEF RingOf
<1>2. /\ r \in Seq(Int) /\ Len(r) = L + 1 /\ r[L + 1] = v
      /\ \A i \in 1..L : r[i] = s[i]
  BY AppendProperties
<1>3. /\ x.data = [w.data EXCEPT ![k + 1] = v]
      /\ x.index = IF k + 1 = n THEN 0 ELSE k + 1
      /\ x.full = (w.full \/ k + 1 = n)
  BY <1>1, NextPlace DEF Push
<1>4. /\ x.data \in [1..n -> Int] /\ x.data[k + 1] = v
      /\ \A i \in 1..n : i # k + 1 => x.data[i] = w.data[i]
  BY <1>1, <1>3
<1>5. IF w.full THEN L >= n ELSE k = L
  BY DEF RingOf
<1>6. /\ \A i \in 1..k : w.data[i] = s[L - k + i]
      /\ w.full => \A i \in (k + 1)..n : w.data[i] = s[L - k - n + i]
  BY DEF RingOf
<1>7. n \in Int /\ k \in Int /\ 0 <= k /\ k < n /\ L \in Int /\ L >= k
  BY <1>1, <1>5
<1> HIDE DEF x, r, L, k
<1>8. ASSUME NEW i \in 1..k PROVE x.data[i] = r[L - k + i]
  <2>1. L - k + i \in 1..L /\ i \in 1..n /\ i # k + 1
    BY <1>7
  <2>2. QED
    BY <1>2, <1>4, <1>6, <2>1
<1>9. ASSUME w.full, NEW i \in (k + 2)..n PROVE x.data[i] = r[L - k - n + i]
  <2>1. L >= n
    BY <1>5, <1>9
  <2>2. L - k - n + i \in 1..L /\ i \in 1..n /\ i # k + 1 /\ i \in (k + 1)..n
    BY <1>7, <2>1
  <2>3. QED
    BY <1>2, <1>4, <1>6, <1>9, <2>2
<1>10. CASE k + 1 = n
  <2>1. x.index = 0 /\ x.full = TRUE
    BY <1>3, <1>10
  <2>2. Len(r) >= n
    BY <1>2, <1>5, <1>7, <1>10
  <2>3. ASSUME NEW i \in 1..n PROVE x.data[i] = r[Len(r) - x.index - n + i]
    <3>1. Len(r) - x.index - n + i = L + 1 - n + i
      BY <1>2, <1>7, <2>1
    <3>2. CASE i = n
      <4>1. i = k + 1 /\ L + 1 - n + i = L + 1
        BY <1>7, <1>10, <3>2
      <4>2. QED
        BY <1>2, <1>4, <3>1, <4>1
    <3>3. CASE i # n
      <4>1. i \in 1..k /\ L + 1 - n + i = L - k + i
        BY <1>7, <1>10, <3>3
      <4>2. QED
        BY <1>8, <3>1, <4>1
    <3>4. QED
      BY <3>2, <3>3
  <2>4. x.index + 1 = 1 /\ 1..x.index = {} /\ x.index \in 0..(n - 1)
    BY <1>7, <2>1
  <2>5. QED
    BY <1>4, <2>1, <2>2, <2>3, <2>4 DEF RingOf, x, r
<1>11. CASE k + 1 # n
  <2>1. x.index = k + 1 /\ x.full = w.full
    BY <1>1, <1>3, <1>11
  <2>2. x.index \in 0..(n - 1) /\ IF x.full THEN Len(r) >= n ELSE x.index = Len(r)
    BY <1>2, <1>5, <1>7, <1>11, <2>1
  <2>3. ASSUME NEW i \in 1..x.index PROVE x.data[i] = r[Len(r) - x.index + i]
    <3>1. Len(r) - x.index + i = L - k + i
      BY <1>2, <1>7, <2>1
    <3>2. CASE i = k + 1
      <4>1. L - k + i = L + 1
        BY <1>7, <3>2
      <4>2. QED
        BY <1>2, <1>4, <3>1, <3>2, <4>1
    <3>3. CASE i # k + 1
      <4>1. i \in 1..k
        BY <1>7, <2>1, <3>3
      <4>2. QED
        BY <1>8, <3>1, <4>1
    <3>4. QED
      BY <3>2, <3>3
  <2>4. ASSUME x.full, NEW i \in (x.index + 1)..n
        PROVE  x.data[i] = r[Len(r) - x.index - n + i]
    <3>1. Len(r) - x.index - n + i = L - k - n + i /\ i \in (k + 2)..n
      BY <1>2, <1>7, <2>1
    <3>2. QED
      BY <1>9, <2>1, <2>4, <3>1
  <2>5. QED
    BY <1>1, <1>4, <2>1, <2>2, <2>3, <2>4 DEF RingOf, x, r
<1>12. QED
  BY <1>10, <1>11

LEMMA PushNone ==
  ASSUME NEW n \in Nat \ {0}, NEW w, NEW s \in Seq(Int), RingOf(w, s, n)
  PROVE  RingOf(Push(w, 0), Append(s, 0), n)
<1>1. 0 \in Int
  OBVIOUS
<1>2. QED
  BY <1>1, PushKeepsRing

(* What a ring's values are, in order: the latest of what it was given.    *)
LEMMA RingShowsLatest ==
  ASSUME NEW n \in Nat \ {0}, NEW w, NEW s \in Seq(Int), RingOf(w, s, n)
  PROVE  Values(w) = Latest(s, n)
<1> DEFINE L == Len(s)
<1>1. /\ w.data \in Seq(Int) /\ w.index \in 0..(n - 1) /\ w.full \in BOOLEAN
      /\ Len(w.data) = n /\ L \in Nat
  <2>1. /\ w.data \in [1..n -> Int] /\ w.index \in 0..(n - 1) /\ w.full \in BOOLEAN
        /\ L \in Nat /\ n \in Nat
    BY DEF RingOf
  <2>2. w.data \in Seq(Int) /\ Len(w.data) = n
    BY <2>1, FunctionIsSeq
  <2>3. QED
    BY <2>1, <2>2
<1>2. /\ IF w.full THEN L >= n ELSE w.index = L
      /\ \A i \in 1..w.index : w.data[i] = s[L - w.index + i]
      /\ w.full => \A i \in (w.index + 1)..n : w.data[i] = s[L - w.index - n + i]
  BY DEF RingOf
<1>3. n \in Int /\ w.index \in Int /\ 0 <= w.index /\ w.index < n /\ L \in Int
  BY <1>1
<1> DEFINE first == SubSeq(w.data, 1, w.index)
<1>4. /\ first \in Seq(Int) /\ Len(first) = w.index
      /\ \A k \in 1..w.index : first[k] = w.data[k]
  <2>1. \A i \in 1..w.index : w.data[i] \in Int
    BY <1>1
  <2>2. (IF 1 <= w.index THEN w.index - 1 + 1 ELSE 0) = w.index /\ w.index - 1 + 1 = w.index
    BY <1>3
  <2>3. QED
    BY <1>3, <2>1, <2>2, SubSeqProperties
<1>5. CASE w.full
  <2> DEFINE rest == SubSeq(w.data, w.index + 1, n)
             late == SubSeq(s, L - n + 1, L)
  <2>1. /\ rest \in Seq(Int) /\ Len(rest) = n - w.index
        /\ \A k \in 1..(n - w.index) : rest[k] = w.data[w.index + k]
    <3> DEFINE m == w.index + 1
    <3>1. m \in Int /\ n \in Int /\ \A i \in m..n : w.data[i] \in Int
      BY <1>1
    <3>2. /\ m <= n /\ n - m + 1 = n - w.index
          /\ \A k \in 1..(n - w.index) : m + k - 1 = w.index + k
      BY <1>1
    <3> HIDE DEF m
    <3>3. /\ SubSeq(w.data, m, n) \in Seq(Int)
          /\ Len(SubSeq(w.data, m, n)) = IF m <= n THEN n - m + 1 ELSE 0
          /\ \A k \in 1..(n - m + 1) : SubSeq(w.data, m, n)[k] = w.data[m + k - 1]
      BY <3>1, SubSeqProperties
    <3>4. rest = SubSeq(w.data, m, n)
      BY DEF m
    <3> HIDE DEF rest
    <3>5. QED
      BY <3>2, <3>3, <3>4
  <2>2. /\ late \in Seq(Int) /\ Len(late) = n /\ \A k \in 1..n : late[k] = s[L - n + k]
    <3>1. /\ L - n + 1 \in Int /\ L - n + 1 <= L /\ L \in Int /\ L - (L - n + 1) + 1 = n
          /\ \A i \in (L - n + 1)..L : s[i] \in Int
      BY <1>1, <1>2, <1>5
    <3>2. /\ late \in Seq(Int) /\ Len(late) = L - (L - n + 1) + 1
          /\ \A k \in 1..(L - (L - n + 1) + 1) : late[k] = s[L - n + 1 + k - 1]
      BY <1>1, <3>1, SubSeqProperties
    <3> HIDE DEF late
    <3>3. \A k \in 1..n : L - n + 1 + k - 1 = L - n + k
      BY <1>1
    <3>4. QED
      BY <3>1, <3>2, <3>3
  <2>3. Values(w) = rest \o first
    BY <1>1, <1>5 DEF Values
  <2>4. Latest(s, n) = late
    <3>1. (IF L > n THEN L - n + 1 ELSE 1) = L - n + 1
      BY <1>1, <1>2, <1>5
    <3>2. QED
      BY <3>1 DEF Latest
  <2> HIDE DEF first, rest, late, L
  <2>5. /\ rest \o first \in Seq(Int) /\ Len(rest \o first) = n
        /\ \A k \in 1..n : (rest \o first)[k] = IF k <= n - w.index THEN rest[k]
                                                ELSE first[k - (n - w.index)]
    <3>1. Len(rest) + Len(first) = n
      BY <1>1, <1>4, <2>1
    <3>2. /\ rest \o first \in Seq(Int) /\ Len(rest \o first) = Len(rest) + Len(first)
          /\ \A k \in 1..(Len(rest) + Len(first)) :
               (rest \o first)[k] = IF k <= Len(rest) THEN rest[k] ELSE first[k - Len(rest)]
      BY <1>4, <2>1, ConcatProperties
    <3>3. QED
      BY <2>1, <3>1, <3>2
  <2>6. ASSUME NEW k \in 1..n PROVE (rest \o first)[k] = late[k]
    <3>1. CASE k <= n - w.index
      <4>1. k \in 1..(n - w.index) /\ w.index + k \in (w.index + 1)..n
            /\ L - w.index - n + (w.index + k) = L - n + k
        BY <1>3, <3>1
      <4>2. rest[k] = s[L - n + k]
        BY <1>2, <1>5, <2>1, <4>1
      <4>3. QED
        BY <2>2, <2>5, <3>1, <4>2
    <3>2. CASE ~(k <= n - w.index)
      <4> DEFINE j == k - (n - w.index)
      <4>1. j \in 1..w.index /\ L - w.index + j = L - n + k
        BY <1>3, <3>2
      <4> HIDE DEF j
      <4>2. first[j] = s[L - n + k]
        BY <1>2, <1>4, <4>1
      <4>3. QED
        BY <2>2, <2>5, <3>2, <4>2 DEF j
    <3>3. QED
      BY <3>1, <3>2
  <2>7. rest \o first = late
    BY <2>2, <2>5, <2>6, SeqEqual
  <2>8. QED
    BY <2>3, <2>4, <2>7
<1>6. CASE ~w.full
  <2> DEFINE late == SubSeq(s, 1, L)
  <2>1. Latest(s, n) = late
    <3>1. (IF L > n THEN L - n + 1 ELSE 1) = 1
      BY <1>1, <1>2, <1>6
    <3>2. QED
      BY <3>1 DEF Latest
  <2>2. late \in Seq(Int) /\ Len(late) = L /\ \A k \in 1..L : late[k] = s[k]
    BY <1>1, SubSeqProperties
  <2>3. Values(w) = first
    BY <1>6 DEF Values
  <2> HIDE DEF first, late, L
  <2>4. w.index = L /\ \A k \in 1..L : L - L + k = k
    BY <1>2, <1>6, <1>3
  <2>5. ASSUME NEW k \in 1..L PROVE first[k] = late[k]
    <3>1. first[k] = w.data[k] /\ w.data[k] = s[L - L + k]
      BY <1>2, <1>4, <2>4
    <3>2. QED
      BY <2>2, <2>4, <3>1
  <2>6. first = late
    BY <1>2, <1>4, <1>6, <2>2, <2>5, SeqEqual
  <2>7. QED
    BY <2>1, <2>3, <2>6
<1>7. QED
  BY <1>1, <1>5, <1>6

(* Every price is positive, so that a last price of 0 is none.             *)
LEMMA MidTyped ==
  ASSUME NEW t \in Feed, Valid(t) PROVE Mid(t) \in Int /\ Mid(t) > 0
<1>1. t.bid \in Int /\ t.ask \in Int /\ t.last \in Int
  BY TickPathAssumption
<1>2. QED
  BY <1>1 DEF Mid, Valid

LEMMA LargestTyped ==
  ASSUME NEW high \in Int, NEW low \in Int, NEW last \in Int
  PROVE  Largest({high - low, Distance(high, last), Distance(low, last)}) \in Int
<1> DEFINE a == high - low
           b == Distance(high, last)
           c == Distance(low, last)
<1>1. a \in Int /\ b \in Int /\ c \in Int
  BY DEF Distance
<1> HIDE DEF a, b, c
<1>2. \E x \in {a, b, c} : \A y \in {a, b, c} : x >= y
  BY <1>1
<1>3. Largest({a, b, c}) \in {a, b, c}
  BY <1>2 DEF Largest
<1>4. QED
  BY <1>1, <1>3 DEF a, b, c

LEMMA RangeTyped ==
  ASSUME NEW t \in Feed, Valid(t), NEW spread \in Int, NEW last \in Int
  PROVE  TrueRange(t, spread, last) \in Int
<1> DEFINE half == IF t.type = "Trade" THEN 0 ELSE spread
           high == Mid(t) + half
           low == Mid(t) - half
<1>1. high \in Int /\ low \in Int
  BY MidTyped
<1> HIDE DEF high, low
<1>2. Largest({high - low, Distance(high, last), Distance(low, last)}) \in Int
  BY <1>1, LargestTyped
<1>3. QED
  BY <1>2, Zenon DEF TrueRange, high, low

LEMMA SpreadTyped ==
  ASSUME TallyInv, NEW n \in 1..Len(arrived) PROVE SpreadAt(n) \in Int
<1>1. Len(arrived) \in Nat /\ \A i \in 1..Len(arrived) : arrived[i] \in Feed
  BY ElementOfSeq DEF TallyInv
<1>2. \A i \in 1..Len(arrived) : /\ arrived[i].ask \in Int /\ arrived[i].bid \in Int
                                 /\ arrived[i].type \in {"Quote", "Trade", "Bar"}
  BY <1>1, TickPathAssumption
<1>3. LatestSpread(n) \in Int
  <2>1. CASE Spreads(n) = {}
    BY <2>1 DEF LatestSpread
  <2>2. CASE Spreads(n) # {}
    <3> DEFINE i == Largest(Spreads(n))
    <3>1. Spreads(n) \subseteq 1..(n - 1) /\ n - 1 \in Int
      BY <1>1 DEF Spreads
    <3>2. i \in 1..(n - 1)
      BY <2>2, <3>1, HasLargest
    <3>3. i \in 1..Len(arrived)
      BY <1>1, <3>2
    <3> HIDE DEF i
    <3>4. LatestSpread(n) = arrived[i].ask - arrived[i].bid
      BY <2>2 DEF LatestSpread, i
    <3>5. QED
      BY <1>2, <3>3, <3>4
  <2>3. QED
    BY <2>1, <2>2
<1>4. QED
  BY <1>2, <1>3 DEF SpreadAt

(* A sequence one longer than another, and beginning with it.              *)
LEMMA AppendIs ==
  ASSUME NEW S, NEW s \in Seq(S), NEW v \in S, NEW r,
         r = [i \in 1..(Len(s) + 1) |-> r[i]],
         \A i \in 1..Len(s) : r[i] = s[i], r[Len(s) + 1] = v
  PROVE  r = Append(s, v)
<1>1. /\ Append(s, v) \in Seq(S) /\ Len(Append(s, v)) = Len(s) + 1 /\ Len(s) \in Nat
      /\ \A i \in 1..Len(s) : Append(s, v)[i] = s[i] /\ Append(s, v)[Len(s) + 1] = v
  BY AppendProperties
<1>2. r \in [1..(Len(s) + 1) -> S]
  <2>1. ASSUME NEW i \in 1..(Len(s) + 1) PROVE r[i] \in S
    <3>1. i \in 1..Len(s) \/ i = Len(s) + 1
      BY <1>1
    <3>2. \A j \in 1..Len(s) : s[j] \in S
      BY ElementOfSeq
    <3>3. QED
      BY <3>1, <3>2
  <2>2. QED
    BY <2>1
<1>3. r \in Seq(S) /\ Len(r) = Len(s) + 1
  BY <1>1, <1>2, FunctionIsSeq
<1>4. ASSUME NEW i \in 1..(Len(s) + 1) PROVE r[i] = Append(s, v)[i]
  BY <1>1
<1>5. QED
  BY <1>1, <1>3, <1>4, SeqEqual

-----------------------------------------------------------------------------
(* The references: what they are lists of.                                 *)

Listed == fresh \in 0..Taken /\ Accepted \in Seq(AcceptedTicks)

LEMMA ListedTyped ==
  ASSUME TallyInv, Listed
  PROVE  LET k == Len(Accepted)
         IN  /\ k \in Nat /\ Len(Mids) = k
             /\ \A i \in 1..k : /\ Accepted[i] \in 1..Taken /\ Valid(arrived[Accepted[i]])
                                /\ arrived[Accepted[i]] \in Feed
                                /\ Mids[i] = Mid(arrived[Accepted[i]])
             /\ \A i \in 1..k : Mids[i] \in Int /\ Mids[i] > 0
             /\ Mids \in Seq(Int)
<1> DEFINE k == Len(Accepted)
<1>1. /\ k \in Nat /\ Taken \in Nat /\ Taken <= Len(arrived) /\ Len(arrived) \in Nat
      /\ \A i \in 1..k : Accepted[i] \in AcceptedTicks
  <2>1. Taken \in Nat /\ Taken <= Len(arrived) /\ Len(arrived) \in Nat
    BY DEF TallyInv, Taken
  <2>2. k \in Nat /\ \A i \in 1..k : Accepted[i] \in AcceptedTicks
    BY ElementOfSeq DEF Listed
  <2>3. QED
    BY <2>1, <2>2
<1>2. \A n \in AcceptedTicks : n \in 1..Taken /\ n \in 1..Len(arrived) /\ Valid(arrived[n])
  BY <1>1 DEF AcceptedTicks, Listed
<1>3. \A n \in AcceptedTicks : arrived[n] \in Feed
  BY <1>2, ElementOfSeq DEF TallyInv
<1>4. \A i \in 1..k : /\ Accepted[i] \in 1..Taken /\ Valid(arrived[Accepted[i]])
                      /\ arrived[Accepted[i]] \in Feed
  BY <1>1, <1>2, <1>3
<1>5. \A i \in 1..k : Mids[i] = Mid(arrived[Accepted[i]])
  BY DEF Mids
<1>6. \A i \in 1..k : Mids[i] \in Int /\ Mids[i] > 0
  BY <1>4, <1>5, MidTyped
<1>7. Mids \in [1..k -> Int]
  BY <1>6 DEF Mids
<1>8. Mids \in Seq(Int) /\ Len(Mids) = k
  BY <1>1, <1>7, FunctionIsSeq
<1>9. QED
  BY <1>1, <1>4, <1>5, <1>6, <1>8

(* The lists derived from the prices.                                      *)
LEMMA DerivedTyped ==
  ASSUME TallyInv, Listed
  PROVE  LET k == Len(Mids)
         IN  /\ k = 0 => Rises = <<>> /\ Ranges = <<>> /\ Doubled = <<>>
             /\ k > 0 => /\ Rises \in Seq(Int) /\ Len(Rises) = k - 1
                         /\ Ranges \in Seq(Int) /\ Len(Ranges) = k - 1
                         /\ Doubled \in Seq(Int) /\ Len(Doubled) = 2 * k - 1
<1> DEFINE k == Len(Mids)
<1>1. /\ k \in Nat /\ k = Len(Accepted) /\ Taken \in Nat /\ Taken <= Len(arrived)
      /\ \A i \in 1..k : /\ Accepted[i] \in 1..Taken /\ Valid(arrived[Accepted[i]])
                         /\ arrived[Accepted[i]] \in Feed /\ Mids[i] \in Int
  <2>1. Taken \in Nat /\ Taken <= Len(arrived)
    BY DEF TallyInv, Taken
  <2>2. /\ Len(Accepted) \in Nat /\ k = Len(Accepted)
        /\ \A i \in 1..Len(Accepted) :
             /\ Accepted[i] \in 1..Taken /\ Valid(arrived[Accepted[i]])
             /\ arrived[Accepted[i]] \in Feed /\ Mids[i] \in Int
    BY ListedTyped
  <2>3. QED
    BY <2>1, <2>2
<1> HIDE DEF k
<1>2. CASE k = 0
  <2>1. 1..(Len(Mids) - 1) = {} /\ 1..(2 * Len(Mids) - 1) = {}
    BY <1>2 DEF k
  <2>2. Rises = <<>> /\ Ranges = <<>>
    <3>1. Rises = [i \in {} |-> Rises[i]] /\ Ranges = [i \in {} |-> Ranges[i]]
      BY <2>1 DEF Rises, Ranges
    <3>2. QED
      BY <3>1, EmptyIs
  <2>3. Doubled = <<>>
    <3>1. Doubled = [i \in {} |-> Doubled[i]]
      BY <2>1 DEF Doubled
    <3>2. QED
      BY <3>1, EmptyIs
  <2>4. QED
    BY <1>2, <2>2, <2>3 DEF k
<1>3. CASE k > 0
  <2>1. \A i \in 1..(k - 1) : i \in 1..k /\ i + 1 \in 1..k
    BY <1>1
  <2>2. Rises \in [1..(k - 1) -> Int]
    <3>1. \A i \in 1..(k - 1) : Mids[i + 1] - Mids[i] \in Int
      BY <1>1, <2>1
    <3>2. QED
      BY <3>1 DEF Rises, k
  <2>3. Ranges \in [1..(k - 1) -> Int]
    <3>1. ASSUME NEW i \in 1..(k - 1)
          PROVE  TrueRange(arrived[Accepted[i + 1]],
                           SpreadAt(Accepted[i + 1]), Mids[i]) \in Int
      <4> DEFINE n == Accepted[i + 1]
      <4>1. /\ n \in 1..Taken /\ Valid(arrived[n]) /\ arrived[n] \in Feed /\ Mids[i] \in Int
        BY <1>1, <2>1
      <4> HIDE DEF n
      <4>2. n \in 1..Len(arrived) /\ Len(arrived) \in Int
        BY <1>1, <4>1 DEF TallyInv
      <4>3. SpreadAt(n) \in Int
        BY <4>2, SpreadTyped
      <4>4. TrueRange(arrived[n], SpreadAt(n), Mids[i]) \in Int
        BY <4>1, <4>3, RangeTyped
      <4>5. QED
        BY <4>4 DEF n
    <3>2. QED
      BY <3>1 DEF Ranges, k
  <2>4. Doubled \in [1..(2 * k - 1) -> Int]
    <3>1. ASSUME NEW i \in 1..(2 * k - 1), i % 2 # 1 PROVE i \div 2 \in 1..(k - 1)
      BY <1>1, <3>1
    <3>2. ASSUME NEW i \in 1..(2 * k - 1), i % 2 # 1 PROVE Rises[i \div 2] \in Int
      BY <2>2, <3>1, <3>2
    <3>3. QED
      BY <3>2 DEF Doubled, k
  <2>5. k - 1 \in Nat /\ 2 * k - 1 \in Nat
    BY <1>1, <1>3
  <2>6. Rises \in Seq(Int) /\ Len(Rises) = k - 1
    BY <2>2, <2>5, FunctionIsSeq
  <2>7. Ranges \in Seq(Int) /\ Len(Ranges) = k - 1
    BY <2>3, <2>5, FunctionIsSeq
  <2>8. Doubled \in Seq(Int) /\ Len(Doubled) = 2 * k - 1
    BY <2>4, <2>5, FunctionIsSeq
  <2>9. QED
    BY <1>3, <2>6, <2>7, <2>8 DEF k
<1>4. QED
  BY <1>1, <1>2, <1>3 DEF k

(* When the same ticks are accepted as before, nothing listed changes.     *)
LEMMA SameLists ==
  ASSUME TallyInv, Listed, AcceptedTicks' = AcceptedTicks,
         \A n \in 1..Taken : arrived'[n] = arrived[n]
  PROVE  /\ Accepted' = Accepted /\ Mids' = Mids /\ Rises' = Rises
         /\ Ranges' = Ranges /\ Doubled' = Doubled
<1>1. Accepted' = Accepted
  BY DEF Accepted, Placed, Place
<1>2. /\ Len(Accepted) \in Nat /\ Taken \in Int /\ Len(Mids) = Len(Accepted)
      /\ \A i \in 1..Len(Accepted) : Accepted[i] \in 1..Taken
  BY ListedTyped DEF TallyInv, Taken
<1>3. \A i \in 1..Len(Accepted) : arrived'[Accepted[i]] = arrived[Accepted[i]]
  BY <1>2
<1>4. Mids' = Mids
  BY <1>1, <1>3 DEF Mids, Mid
<1>5. Rises' = Rises
  BY <1>4 DEF Rises
<1>6. Doubled' = Doubled
  BY <1>4, <1>5 DEF Doubled
<1>7. ASSUME NEW n \in 1..Taken PROVE SpreadAt(n)' = SpreadAt(n)
  <2>1. n \in Int /\ n > 0 /\ \A i \in 1..n : arrived'[i] = arrived[i]
    BY <1>2
  <2>2. QED
    BY <2>1, SpreadKeeps
<1>8. Ranges' = Ranges
  <2>1. ASSUME NEW i \in 1..(Len(Mids) - 1)
        PROVE  /\ SpreadAt(Accepted[i + 1])' = SpreadAt(Accepted[i + 1])
               /\ arrived'[Accepted[i + 1]] = arrived[Accepted[i + 1]]
    <3> DEFINE n == Accepted[i + 1]
    <3>1. n \in 1..Taken /\ n' = n
      BY <1>1, <1>2
    <3> HIDE DEF n
    <3>2. SpreadAt(n)' = SpreadAt(n) /\ arrived'[n] = arrived[n]
      BY <1>7, <3>1
    <3>3. QED
      BY <3>2 DEF n
  <2>2. QED
    BY <1>1, <1>4, <2>1 DEF Ranges
<1>9. QED
  BY <1>1, <1>4, <1>5, <1>6, <1>8

(* One more accepted tick is one more place in the list.                   *)
LEMMA OneMore ==
  ASSUME TallyInv, Listed, pending > 0, Advance, Valid(NextTick),
         arrived' = arrived, fresh' = fresh
  PROVE  Accepted' = Append(Accepted, Taken + 1) /\ Listed'
<1> DEFINE A == AcceptedTicks
<1>n. PICK n : n = Taken + 1
  OBVIOUS
<1>c. PICK c : c = Cardinality(A)
  OBVIOUS
<1>1. /\ Taken \in Nat /\ Taken' = Taken + 1 /\ n \in Int /\ fresh \in 0..Taken
      /\ Valid(arrived[n])
  BY <1>n, AdvanceTakes DEF Listed, NextTick
<1>2. A' = A \cup {n} /\ n \notin A /\ \A m \in A : m \in Int /\ m < n
  BY <1>n, <1>1 DEF AcceptedTicks, Valid
<1>3. IsFiniteSet(A) /\ c \in Nat
  <2>1. A \subseteq (fresh + 1)..Taken /\ IsFiniteSet((fresh + 1)..Taken)
    BY <1>1, FS_Interval DEF AcceptedTicks
  <2>2. QED
    BY <1>c, <2>1, FS_Subset, FS_CardinalityType
<1>4. Cardinality(A') = c + 1
  BY <1>c, <1>2, <1>3, FS_AddElement
<1>5. Accepted \in [1..c -> A] /\ Len(Accepted) = c
  <2>1. Accepted \in [1..Len(Accepted) -> A] /\ Len(Accepted) \in Nat
    BY LenProperties DEF Listed
  <2>2. DOMAIN Accepted = 1..c
    BY <1>c DEF Accepted
  <2>3. 1..Len(Accepted) = 1..c
    BY <2>1, <2>2
  <2>4. Len(Accepted) = c
    <3>1. Len(Accepted) \in Nat /\ c \in Nat
      BY <1>3, <2>1
    <3>2. \A a, b \in Nat : 1..a = 1..b => a = b
      <4>1. ASSUME NEW a \in Nat, NEW b \in Nat, 1..a = 1..b, a > b PROVE FALSE
        <5>1. a \in 1..a /\ a \notin 1..b
          BY <4>1
        <5>2. QED
          BY <4>1, <5>1
      <4>2. ASSUME NEW a \in Nat, NEW b \in Nat, 1..a = 1..b PROVE a = b
        BY <4>1, <4>2
      <4>3. QED
        BY <4>2
    <3>3. QED
      BY <2>3, <3>1, <3>2
  <2>5. QED
    BY <2>1, <2>4
<1>6. ASSUME NEW m \in A PROVE Place(m)' = Place(m) /\ Place(m) \in 0..c
  <2>1. {x \in A' : x <= m} = {x \in A : x <= m}
    BY <1>1, <1>2
  <2>2. Place(m)' = Place(m)
    BY <2>1 DEF Place
  <2>3. Cardinality({x \in A : x <= m}) <= c /\ Cardinality({x \in A : x <= m}) \in Nat
    BY <1>c, <1>3, FS_Subset, FS_CardinalityType
  <2>4. QED
    BY <1>3, <2>2, <2>3 DEF Place
<1>7. Place(n)' = c + 1
  <2>1. {x \in A' : x <= n} = A'
    BY <1>1, <1>2
  <2>2. QED
    BY <1>4, <2>1 DEF Place
<1>8. ASSUME NEW i \in 1..c PROVE Placed(i)' = Placed(i)
  <2>1. Place(n)' # i
    BY <1>3, <1>7
  <2>2. QED
    BY <1>2, <1>6, <2>1 DEF Placed
<1>9. Placed(c + 1)' = {n}
  <2>1. \A m \in A : Place(m)' # c + 1
    BY <1>3, <1>6
  <2>2. QED
    BY <1>2, <1>7, <2>1 DEF Placed
<1>10. /\ Accepted' = [i \in 1..(c + 1) |-> Accepted'[i]]
       /\ \A i \in 1..c : Accepted'[i] = Accepted[i]
       /\ Accepted'[c + 1] = n
  <2>1. Accepted' = [i \in 1..(c + 1) |-> CHOOSE x \in Placed(i)' : TRUE]
    BY <1>4 DEF Accepted
  <2>2. ASSUME NEW i \in 1..c PROVE Accepted'[i] = Accepted[i]
    <3>1. i \in 1..(c + 1)
      BY <1>3
    <3>2. Accepted[i] = CHOOSE x \in Placed(i) : TRUE
      BY <1>c DEF Accepted
    <3>3. Accepted'[i] = CHOOSE x \in Placed(i)' : TRUE
      BY <2>1, <3>1
    <3>4. QED
      BY <1>8, <3>2, <3>3
  <2>3. Accepted'[c + 1] = n
    <3>1. Accepted'[c + 1] = CHOOSE x \in Placed(c + 1)' : TRUE
      <4>1. c + 1 \in 1..(c + 1)
        BY <1>3
      <4>2. QED
        BY <2>1, <4>1
    <3>2. (CHOOSE x \in {n} : TRUE) = n
      OBVIOUS
    <3>3. QED
      BY <1>9, <3>1, <3>2
  <2>4. Accepted' = [i \in 1..(c + 1) |-> Accepted'[i]]
    BY <2>1
  <2>5. QED
    BY <2>2, <2>3, <2>4
<1>11. Accepted \in Seq(A') /\ n \in A'
  <2>1. Accepted \in [1..c -> A']
    BY <1>2, <1>5
  <2>2. QED
    BY <1>2, <1>3, <2>1, FunctionIsSeq
<1>12. Accepted' = Append(Accepted, n)
  BY <1>5, <1>10, <1>11, AppendIs
<1>13. Append(Accepted, n) \in Seq(A')
  BY <1>11, AppendProperties
<1>14. QED
  BY <1>n, <1>1, <1>12, <1>13 DEF Listed

(* What it does to the lists of the references.                            *)
LEMMA ListsGrow ==
  ASSUME TallyInv, Listed, pending > 0, Advance, Valid(NextTick),
         arrived' = arrived, fresh' = fresh
  PROVE  LET k == Len(Mids)
             price == Mid(NextTick)
             rise == price - Mids[k]
         IN  /\ Mids' = Append(Mids, price) /\ price \in Int /\ price > 0
             /\ k = 0 => Rises' = <<>> /\ Ranges' = <<>> /\ Doubled' = Append(<<>>, 0)
             /\ k > 0 => /\ rise \in Int /\ Rises' = Append(Rises, rise)
                         /\ TrueRange(NextTick, SpreadAt(Taken + 1), Mids[k]) \in Int
                         /\ Ranges' = Append(Ranges,
                                             TrueRange(NextTick, SpreadAt(Taken + 1), Mids[k]))
                         /\ Doubled' = Append(Append(Doubled, rise), 0)
<1>n. PICK k, n, t, price, rise, range :
        /\ k = Len(Mids) /\ n = Taken + 1 /\ t = NextTick /\ price = Mid(t)
        /\ rise = price - Mids[k] /\ range = TrueRange(t, SpreadAt(n), Mids[k])
  OBVIOUS
<1>1. /\ t \in Feed /\ t = arrived[n] /\ n \in 1..Len(arrived) /\ n \in Int
      /\ Valid(t) /\ price = Mid(t) /\ price \in Int /\ price > 0
  BY <1>n, AdvanceTakes, MidTyped DEF NextTick
<1>2. Accepted' = Append(Accepted, n)
  BY <1>n, OneMore
<1>3. /\ k \in Nat /\ Len(Accepted) = k /\ Mids \in Seq(Int)
      /\ \A i \in 1..k : Mids[i] \in Int /\ Accepted[i] \in 1..Taken
  BY <1>n, ListedTyped
<1>4. /\ Len(Accepted') = k + 1 /\ Accepted'[k + 1] = n
      /\ \A i \in 1..k : Accepted'[i] = Accepted[i]
  BY <1>2, <1>3, AppendProperties DEF Listed
<1>5. /\ Mids' = [i \in 1..(k + 1) |-> Mids'[i]] /\ \A i \in 1..k : Mids'[i] = Mids[i]
      /\ Mids'[k + 1] = price
  <2>1. Mids' = [i \in 1..(k + 1) |-> Mid(arrived[Accepted'[i]])]
    BY <1>4 DEF Mids
  <2>2. ASSUME NEW i \in 1..k PROVE Mids'[i] = Mids[i]
    <3>1. Mids[i] = Mid(arrived[Accepted[i]])
      BY <1>3 DEF Mids
    <3>2. Mids'[i] = Mid(arrived[Accepted'[i]])
      BY <1>3, <2>1
    <3>3. QED
      BY <1>4, <3>1, <3>2
  <2>3. Mids'[k + 1] = price
    <3>1. k + 1 \in 1..(k + 1)
      BY <1>3
    <3>2. QED
      BY <1>1, <1>4, <2>1, <3>1
  <2>4. Mids' = [i \in 1..(k + 1) |-> Mids'[i]]
    BY <2>1
  <2>5. QED
    BY <2>2, <2>3, <2>4
<1>6. Mids' = Append(Mids, price) /\ Len(Mids') = k + 1
  <2>1. Len(Mids) = k
    BY <1>n
  <2>2. Mids' = Append(Mids, price)
    BY <1>1, <1>3, <1>5, <2>1, AppendIs
  <2>3. QED
    BY <1>1, <1>3, <2>1, <2>2, AppendProperties
<1>7. CASE k = 0
  <2>1. 1..(k + 1 - 1) = {} /\ \A i \in 1..(2 * (k + 1) - 1) : i = 1 /\ i % 2 = 1
    BY <1>7
  <2>2. Rises' = <<>> /\ Ranges' = <<>>
    BY <1>6, <2>1 DEF Rises, Ranges
  <2>3. Doubled' = [i \in 1..1 |-> 0]
    <3>1. 1..(2 * (k + 1) - 1) = 1..1
      BY <1>7
    <3>2. QED
      BY <1>6, <2>1, <3>1 DEF Doubled
  <2>4. [i \in 1..1 |-> 0] = Append(<<>>, 0)
    OBVIOUS
  <2>5. QED
    BY <1>n, <1>1, <1>6, <1>7, <2>2, <2>3, <2>4
<1>8. CASE k > 0
  <2>1. /\ Rises \in Seq(Int) /\ Len(Rises) = k - 1 /\ Ranges \in Seq(Int)
        /\ Len(Ranges) = k - 1 /\ Doubled \in Seq(Int) /\ Len(Doubled) = 2 * k - 1
    BY <1>n, <1>8, DerivedTyped
  <2>2. rise \in Int /\ Mids[k] \in Int
    BY <1>n, <1>1, <1>3, <1>8
  <2>3. range \in Int
    <3>1. SpreadAt(n) \in Int
      BY <1>1, SpreadTyped
    <3>2. QED
      BY <1>n, <1>1, <2>2, <3>1, RangeTyped
  <2>4. Len(Mids') - 1 = k /\ k - 1 + 1 = k
    BY <1>3, <1>6
  <2>5. Rises' = [i \in 1..k |-> Mids'[i + 1] - Mids'[i]]
    BY <2>4 DEF Rises
  <2>6. /\ Rises' = Append(Rises, rise) /\ Rises'[k] = rise
        /\ \A i \in 1..(k - 1) : Rises'[i] = Rises[i]
    <3>1. ASSUME NEW i \in 1..(k - 1) PROVE Rises'[i] = Rises[i]
      <4>1. i \in 1..k /\ i + 1 \in 1..k
        BY <1>3
      <4>2. QED
        BY <1>n, <1>5, <2>5, <4>1 DEF Rises
    <3>2. Rises'[k] = rise
      BY <1>n, <1>3, <1>5, <1>8, <2>5
    <3>3. Rises' = [i \in 1..k |-> Rises'[i]]
      BY <2>5
    <3>4. Rises' = Append(Rises, rise)
      BY <2>1, <2>2, <2>4, <3>1, <3>2, <3>3, AppendIs
    <3>5. QED
      BY <3>1, <3>2, <3>4
  <2>7. Ranges' = Append(Ranges, range)
    <3>1. ASSUME NEW m PROVE SpreadAt(m)' = SpreadAt(m)
      BY DEF SpreadAt, LatestSpread, Spreads
    <3>2. ASSUME NEW i \in 1..k, NEW m, m = Accepted'[i + 1]
          PROVE  Ranges'[i] = TrueRange(arrived[m], SpreadAt(m), Mids'[i])
      <4>1. Ranges'[i] = TrueRange(arrived'[m], SpreadAt(m)', Mids'[i])
        BY <2>4, <3>2 DEF Ranges
      <4>2. QED
        BY <3>1, <4>1
    <3>3. ASSUME NEW i \in 1..(k - 1) PROVE Ranges'[i] = Ranges[i]
      <4>m. PICK m : m = Accepted[i + 1]
        OBVIOUS
      <4>1. i \in 1..k /\ i + 1 \in 1..k
        BY <1>3
      <4>2. m \in Int /\ Accepted'[i + 1] = m /\ Mids'[i] = Mids[i]
        BY <1>3, <1>4, <1>5, <4>1, <4>m
      <4>3. Ranges[i] = TrueRange(arrived[m], SpreadAt(m), Mids[i])
        BY <1>n, <4>m DEF Ranges
      <4>4. Ranges'[i] = TrueRange(arrived[m], SpreadAt(m), Mids'[i])
        BY <3>2, <4>1, <4>2
      <4>5. QED
        BY <4>2, <4>3, <4>4
    <3>4. Ranges'[k] = range
      <4>1. k \in 1..k /\ k + 1 \in 1..(k + 1) /\ n \in Int
        BY <1>1, <1>3, <1>8
      <4>2. Ranges'[k] = TrueRange(arrived[n], SpreadAt(n), Mids'[k])
        BY <1>4, <3>2, <4>1
      <4>3. QED
        BY <1>n, <1>1, <1>5, <4>1, <4>2
    <3>5. Ranges' = [i \in 1..k |-> Ranges'[i]]
      BY <2>4 DEF Ranges
    <3>6. /\ Ranges' = [i \in 1..(Len(Ranges) + 1) |-> Ranges'[i]]
          /\ \A i \in 1..Len(Ranges) : Ranges'[i] = Ranges[i]
          /\ Ranges'[Len(Ranges) + 1] = range
      BY <2>1, <2>4, <3>3, <3>4, <3>5
    <3>7. QED
      BY <2>1, <2>3, <3>6, AppendIs
  <2>8. Doubled' = Append(Append(Doubled, rise), 0)
    <3>n. PICK part : part = Append(Doubled, rise)
      OBVIOUS
    <3>1. /\ part \in Seq(Int) /\ Len(part) = 2 * k /\ part[2 * k] = rise
          /\ \A i \in 1..(2 * k - 1) : part[i] = Doubled[i]
      <4>1. /\ part \in Seq(Int) /\ Len(part) = 2 * k - 1 + 1 /\ part[2 * k - 1 + 1] = rise
            /\ \A i \in 1..(2 * k - 1) : part[i] = Doubled[i]
        BY <2>1, <2>2, <3>n, AppendProperties
      <4>2. 2 * k - 1 + 1 = 2 * k
        BY <1>3
      <4>3. QED
        BY <4>1, <4>2
    <3>2. Doubled' = [i \in 1..(2 * k + 1) |-> IF i % 2 = 1 THEN 0 ELSE Rises'[i \div 2]]
      <4>1. 2 * (k + 1) - 1 = 2 * k + 1
        BY <1>3
      <4>2. QED
        BY <1>6, <4>1 DEF Doubled
    <3>3. ASSUME NEW i \in 1..(2 * k - 1) PROVE Doubled'[i] = Doubled[i]
      <4>1. Doubled[i] = IF i % 2 = 1 THEN 0 ELSE Rises[i \div 2]
        BY <1>n DEF Doubled
      <4>2. Doubled'[i] = IF i % 2 = 1 THEN 0 ELSE Rises'[i \div 2]
        BY <1>3, <3>2
      <4>3. i % 2 # 1 => i \div 2 \in 1..(k - 1)
        BY <1>3
      <4>4. QED
        BY <2>6, <4>1, <4>2, <4>3
    <3>4. Doubled'[2 * k] = rise
      <4>1. 2 * k \in 1..(2 * k + 1) /\ (2 * k) % 2 # 1 /\ (2 * k) \div 2 = k
        BY <1>3, <1>8
      <4>2. QED
        BY <2>6, <3>2, <4>1
    <3>5. Doubled'[2 * k + 1] = 0
      <4>1. 2 * k + 1 \in 1..(2 * k + 1) /\ (2 * k + 1) % 2 = 1
        BY <1>3
      <4>2. QED
        BY <3>2, <4>1
    <3>6. Doubled' = [i \in 1..(2 * k + 1) |-> Doubled'[i]]
      BY <3>2
    <3>7. ASSUME NEW i \in 1..(2 * k) PROVE Doubled'[i] = part[i]
      <4>1. i = 2 * k \/ i \in 1..(2 * k - 1)
        BY <1>3
      <4>2. QED
        BY <3>1, <3>3, <3>4, <4>1
    <3>8. Doubled' = Append(part, 0)
      BY <3>1, <3>5, <3>6, <3>7, AppendIs
    <3>9. QED
      BY <3>8, <3>n
  <2>9. /\ Mid(NextTick) - Mids[Len(Mids)] = rise /\ Mid(NextTick) = price
        /\ TrueRange(NextTick, SpreadAt(Taken + 1), Mids[Len(Mids)]) = range
    BY <1>n
  <2>10. Len(Mids) # 0
    BY <1>n, <1>8
  <2>11. Mids' = Append(Mids, price) /\ price \in Int /\ price > 0
    BY <1>1, <1>6
  <2>12. Rises' = Append(Rises, rise) /\ rise \in Int
    BY <2>2, <2>6
  <2>13. QED
    BY <2>3, <2>7, <2>8, <2>9, <2>10, <2>11, <2>12, Zenon
<1>9. k = 0 \/ k > 0
  BY <1>3
<1>10. QED
  BY <1>7, <1>8, <1>9

-----------------------------------------------------------------------------
(* The windows hold what the lists end with, and the last price is the     *)
(* last listed.                                                            *)
WindowInv ==
  /\ Listed
  /\ features.fed = Mids
  /\ features.last = IF Len(Mids) = 0 THEN 0 ELSE Mids[Len(Mids)]
  /\ RingOf(features.prices, Mids, PriceWindow)
  /\ RingOf(features.returns, Rises, ReturnWindow)
  /\ RingOf(features.ranges, Ranges, AtrPeriod)
  /\ RingOf(features.rsi, Doubled, RsiPeriod)

LEMMA ListsTyped ==
  ASSUME TallyInv, Listed
  PROVE  /\ Mids \in Seq(Int) /\ Rises \in Seq(Int)
         /\ Ranges \in Seq(Int) /\ Doubled \in Seq(Int)
<1>1. Mids \in Seq(Int) /\ Len(Mids) \in Nat
  BY ListedTyped
<1>2. CASE Len(Mids) = 0
  <2>1. Rises = <<>> /\ Ranges = <<>> /\ Doubled = <<>>
    BY <1>2, DerivedTyped
  <2>2. QED
    BY <1>1, <2>1
<1>3. CASE Len(Mids) > 0
  BY <1>1, <1>3, DerivedTyped
<1>4. QED
  BY <1>1, <1>2, <1>3

(* What FeatureEngine::compute does with an accepted tick.                 *)
LEMMA ComputeStep ==
  ASSUME TallyInv, PriceInv, WindowInv, pending > 0, Advance, Valid(NextTick),
         arrived' = arrived, fresh' = fresh, features' = Computed(features, NextTick)
  PROVE  WindowInv'
<1>n. PICK price, range, f :
        /\ price = Mid(NextTick) /\ f = features
        /\ range = TrueRange(NextTick, SpreadAt(Taken + 1), f.last)
  OBVIOUS
<1>1. /\ Mids \in Seq(Int) /\ Rises \in Seq(Int)
      /\ Ranges \in Seq(Int) /\ Doubled \in Seq(Int)
      /\ Len(Mids) \in Nat /\ \A i \in 1..Len(Mids) : Mids[i] \in Int /\ Mids[i] > 0
  BY ListsTyped, ListedTyped DEF WindowInv
<1>2. /\ RingOf(f.prices, Mids, PriceWindow) /\ RingOf(f.returns, Rises, ReturnWindow)
      /\ RingOf(f.ranges, Ranges, AtrPeriod) /\ RingOf(f.rsi, Doubled, RsiPeriod)
      /\ f.fed = Mids /\ f.last = IF Len(Mids) = 0 THEN 0 ELSE Mids[Len(Mids)]
  BY <1>n DEF WindowInv
<1>3. /\ PriceWindow \in Nat \ {0} /\ ReturnWindow \in Nat \ {0}
      /\ AtrPeriod \in Nat \ {0} /\ RsiPeriod \in Nat \ {0}
  BY TickPathAssumption
<1>4. Listed' /\ price \in Int /\ price > 0 /\ Mids' = Append(Mids, price)
  <2>1. Listed
    BY DEF WindowInv
  <2>2. QED
    BY <1>n, <2>1, OneMore, ListsGrow
<1>5. Len(Mids') = Len(Mids) + 1 /\ Mids'[Len(Mids')] = price
  BY <1>1, <1>4, AppendProperties
<1>6. Spread(NextTick) = SpreadAt(Taken + 1)
  BY NormalizeStep
<1>7. /\ features'.prices = Push(f.prices, price)
      /\ features'.returns = IF f.last > 0 THEN Push(f.returns, price - f.last) ELSE f.returns
      /\ features'.ranges = IF f.last > 0 THEN Push(f.ranges, range) ELSE f.ranges
      /\ features'.rsi = RsiUpdated(RsiUpdated(f.rsi, f.last, price), price, price)
      /\ features'.fed = Append(f.fed, price)
      /\ features'.last = price
  <2> DEFINE g == Updated(f, NextTick)
  <2>1. /\ g.prices = Push(f.prices, price)
        /\ g.returns = IF f.last > 0 THEN Push(f.returns, price - f.last) ELSE f.returns
        /\ g.ranges = IF f.last > 0 THEN Push(f.ranges, range) ELSE f.ranges
        /\ g.rsi = RsiUpdated(f.rsi, f.last, price)
        /\ g.fed = Append(f.fed, price) /\ g.last = price
        /\ g = [prices |-> g.prices, returns |-> g.returns, rsi |-> g.rsi,
                ranges |-> g.ranges, fed |-> g.fed, last |-> g.last]
    BY <1>n, <1>6 DEF Updated, Fed
  <2>2. features' = [g EXCEPT !.rsi = RsiUpdated(@, g.last, price)]
    BY <1>n DEF Computed
  <2> HIDE DEF g
  <2>3. QED
    BY <2>1, <2>2
<1>8. /\ features'.fed = Mids'
      /\ features'.last = IF Len(Mids') = 0 THEN 0 ELSE Mids'[Len(Mids')]
  <2>1. Len(Mids') # 0
    BY <1>1, <1>5
  <2>2. QED
    BY <1>2, <1>4, <1>5, <1>7, <2>1
<1>9. RingOf(features'.prices, Mids', PriceWindow)
  BY <1>1, <1>2, <1>3, <1>4, <1>7, PushKeepsRing
<1>10. price - price = 0 /\ RsiUpdated(features.rsi, price, price) = Push(features.rsi, 0)
  BY <1>4 DEF RsiUpdated
<1>11. CASE Len(Mids) = 0
  <2>1. /\ Rises' = <<>> /\ Ranges' = <<>> /\ Doubled' = Append(<<>>, 0)
        /\ Rises = <<>> /\ Ranges = <<>> /\ Doubled = <<>>
    BY <1>11, ListsGrow, DerivedTyped DEF WindowInv
  <2>2. ~(f.last > 0)
    BY <1>2, <1>11
  <2>3. /\ features'.returns = f.returns /\ features'.ranges = f.ranges
        /\ features'.rsi = Push(f.rsi, 0)
    BY <1>4, <1>7, <1>10, <2>2 DEF RsiUpdated
  <2>4. RingOf(features'.rsi, Doubled', RsiPeriod)
    <3>1. RingOf(Push(f.rsi, 0), Append(Doubled, 0), RsiPeriod)
      BY <1>1, <1>2, <1>3, PushNone
    <3>2. QED
      BY <2>1, <2>3, <3>1
  <2>5. QED
    BY <1>2, <1>4, <1>8, <1>9, <2>1, <2>3, <2>4 DEF WindowInv
<1>12. CASE Len(Mids) > 0
  <2>1. PICK rise : rise = price - f.last
    OBVIOUS
  <2>2. f.last = Mids[Len(Mids)] /\ f.last > 0
    BY <1>1, <1>2, <1>12
  <2>3. /\ rise \in Int /\ range \in Int /\ Rises' = Append(Rises, rise)
        /\ Ranges' = Append(Ranges, range) /\ Doubled' = Append(Append(Doubled, rise), 0)
    BY <1>n, <1>12, <2>1, <2>2, ListsGrow DEF WindowInv
  <2>4. /\ features'.returns = Push(f.returns, rise) /\ features'.ranges = Push(f.ranges, range)
        /\ features'.rsi = Push(Push(f.rsi, rise), 0)
    BY <1>4, <1>7, <2>1, <2>2 DEF RsiUpdated
  <2>5. RingOf(features'.returns, Rises', ReturnWindow)
    BY <1>1, <1>2, <1>3, <2>3, <2>4, PushKeepsRing
  <2>6. RingOf(features'.ranges, Ranges', AtrPeriod)
    BY <1>1, <1>2, <1>3, <2>3, <2>4, PushKeepsRing
  <2>7. /\ Append(Doubled, rise) \in Seq(Int)
        /\ RingOf(Push(f.rsi, rise), Append(Doubled, rise), RsiPeriod)
    BY <1>1, <1>2, <1>3, <2>3, PushKeepsRing, AppendProperties
  <2>8. RingOf(features'.rsi, Doubled', RsiPeriod)
    <3>1. RingOf(Push(Push(f.rsi, rise), 0), Append(Append(Doubled, rise), 0), RsiPeriod)
      <4>1. ASSUME NEW w, NEW l \in Seq(Int), RingOf(w, l, RsiPeriod)
            PROVE  RingOf(Push(w, 0), Append(l, 0), RsiPeriod)
        BY <1>3, <4>1, PushNone
      <4>2. QED
        BY <2>7, <4>1
    <3>2. QED
      BY <2>3, <2>4, <3>1
  <2>9. QED
    BY <1>4, <1>8, <1>9, <2>5, <2>6, <2>8 DEF WindowInv
<1>13. QED
  BY <1>1, <1>11, <1>12

LEMMA WindowStep ==
  ASSUME TallyInv, PriceInv, WindowInv, [TicksNext]_ticksVars PROVE WindowInv'
<1>1. Taken \in Nat /\ fresh \in 0..Taken
  BY DEF TallyInv, WindowInv, Listed, Taken
<1>2. ASSUME AcceptedTicks' = AcceptedTicks, \A n \in 1..Taken : arrived'[n] = arrived[n],
             features' = features, fresh' \in 0..Taken'
      PROVE  WindowInv'
  <2>1. /\ Accepted' = Accepted /\ Mids' = Mids /\ Rises' = Rises
        /\ Ranges' = Ranges /\ Doubled' = Doubled
    BY <1>2, SameLists DEF WindowInv
  <2>2. QED
    BY <1>2, <2>1 DEF WindowInv, Listed
<1>3. ASSUME arrived' = arrived, Taken' = Taken, fresh' = fresh, features' = features
      PROVE  WindowInv'
  <2>1. AcceptedTicks' = AcceptedTicks
    BY <1>3 DEF AcceptedTicks, Valid
  <2>2. QED
    BY <1>1, <1>2, <1>3, <2>1
<1>4. ASSUME arrived' = arrived, Advance, pending > 0, ~Valid(NextTick),
             fresh' = fresh, features' = features
      PROVE  WindowInv'
  <2>1. Taken' = Taken + 1 /\ (fresh + 1)..Taken' = ((fresh + 1)..Taken) \cup {Taken + 1}
    BY <1>1, <1>4, AdvanceTakes
  <2>2. AcceptedTicks' = AcceptedTicks
    BY <1>4, <2>1 DEF AcceptedTicks, Valid, NextTick
  <2>3. QED
    BY <1>1, <1>2, <1>4, <2>1, <2>2
<1>5. ASSUME NEW ticks \in Batches, Receive(ticks) PROVE WindowInv'
  <2>1. /\ Taken' = Taken /\ Taken = Len(arrived)
        /\ \A n \in 1..Taken : arrived'[n] = arrived[n]
    BY <1>5, ReceiveKeeps
  <2>2. fresh' = fresh /\ features' = features
    BY <1>5 DEF Receive
  <2>3. \A n \in (fresh + 1)..Taken : arrived'[n] = arrived[n]
    BY <1>1, <2>1
  <2>4. AcceptedTicks' = AcceptedTicks
    BY <2>1, <2>2, <2>3 DEF AcceptedTicks, Valid
  <2>5. QED
    BY <1>1, <1>2, <2>1, <2>2, <2>4
<1>6. CASE Reject
  BY <1>4, <1>6 DEF Reject
<1>7. CASE Take
  BY <1>7, ComputeStep DEF Take
<1>8. CASE Skip
  <2>1. CASE Valid(NextTick)
    BY <1>8, <2>1, ComputeStep DEF Skip
  <2>2. CASE ~Valid(NextTick)
    BY <1>4, <1>8, <2>2 DEF Skip
  <2>3. QED
    BY <2>1, <2>2
<1>9. CASE CountSymbol \/ InTime \/ Overrun \/ EndBatch
  BY <1>3, <1>9 DEF CountSymbol, InTime, Overrun, EndBatch, Taken
<1>10. CASE Snapshot \/ UNCHANGED ticksVars
  BY <1>3, <1>10 DEF Snapshot, ticksVars, Taken
<1>11. CASE SetFeatureParams
  <2>1. /\ features' = NewFeatures /\ fresh' = Taken /\ Taken' = Taken
    BY <1>11 DEF SetFeatureParams, Taken
  <2>2. AcceptedTicks' = {}
    BY <1>1, <2>1 DEF AcceptedTicks
  <2>3. Accepted' = <<>> /\ Len(Accepted') = 0
    BY <2>2, FS_EmptySet DEF Accepted
  <2>4. Mids' = <<>> /\ Len(Mids') = 0
    BY <2>3 DEF Mids
  <2>5. Rises' = <<>> /\ Ranges' = <<>> /\ Doubled' = <<>>
    BY <2>4 DEF Rises, Ranges, Doubled
  <2>6. Listed'
    BY <1>1, <2>1, <2>3 DEF Listed
  <2>7. QED
    BY <2>1, <2>4, <2>5, <2>6, EmptyRing, TickPathAssumption DEF WindowInv, NewFeatures
<1>12. QED
  BY <1>5, <1>6, <1>7, <1>8, <1>9, <1>10, <1>11 DEF TicksNext, Processor

LEMMA WindowStart == TicksInit => WindowInv
<1> SUFFICES ASSUME TicksInit PROVE WindowInv
  OBVIOUS
<1>1. Taken = 0 /\ fresh = 0 /\ features = NewFeatures
  BY DEF TicksInit, Taken
<1>2. AcceptedTicks = {}
  BY <1>1 DEF AcceptedTicks
<1>3. Accepted = <<>> /\ Len(Accepted) = 0
  BY <1>2, FS_EmptySet DEF Accepted
<1>4. Mids = <<>> /\ Len(Mids) = 0
  BY <1>3 DEF Mids
<1>5. Rises = <<>> /\ Ranges = <<>> /\ Doubled = <<>>
  BY <1>4 DEF Rises, Ranges, Doubled
<1>6. Listed
  BY <1>1, <1>3 DEF Listed
<1>7. QED
  BY <1>1, <1>4, <1>5, <1>6, EmptyRing, TickPathAssumption DEF WindowInv, NewFeatures

(* Whatever was over budget, malformed or batched together, every window,  *)
(* of any size and after any number of ticks, holds the latest values      *)
(* since its engine was made, and the EMAs saw each price once.            *)
THEOREM WindowsHold == TicksSpec => []WindowsHoldLatest
<1>1. TallyInv /\ WindowInv => WindowsHoldLatest
  <2> SUFFICES ASSUME TallyInv, WindowInv PROVE WindowsHoldLatest
    OBVIOUS
  <2>1. /\ Mids \in Seq(Int) /\ Rises \in Seq(Int)
        /\ Ranges \in Seq(Int) /\ Doubled \in Seq(Int)
    BY ListsTyped DEF WindowInv
  <2>2. /\ PriceWindow \in Nat \ {0} /\ ReturnWindow \in Nat \ {0}
        /\ AtrPeriod \in Nat \ {0} /\ RsiPeriod \in Nat \ {0}
    BY TickPathAssumption
  <2>3. QED
    BY <2>1, <2>2, RingShowsLatest DEF WindowInv, WindowsHoldLatest
<1>2. QED
  BY <1>1, TallyStart, TallyStep, PriceStart, PriceStep, WindowStart, WindowStep, PTL
     DEF TicksSpec

-----------------------------------------------------------------------------
(* The strategy and the order rate.                                        *)

(* A strategy, with all of its fields.                                     *)
Engines == [stance : {-1, 0, 1}, minimum : Minima, shorts : BOOLEAN, entry : Int, exit : Int]

\* The records, with all of their fields.
RecordsOK ==
  /\ engine \in Engines
  /\ bucket \in [tokens : 0..Full, age : Int]
  /\ reading \in Readings

(* The wall clock never shows more time since the last entry than passed.  *)
EntryInv == asked \in Nat /\ (asked <= EntryCooldown => engine.entry <= asked)

(* The bucket, were it filled now, holds no more than one that fills all   *)
(* the time.  Tokens alone would not do: those that a check yet to come    *)
(* will add count too.                                                     *)
RateInv == quota \in 0..Full /\ Filled <= quota

(* The inductive invariant.                                                *)
SignalInv == RecordsOK /\ UnsureNeverEnters /\ EntryInv /\ RateInv

-----------------------------------------------------------------------------
(* What the proofs use of the constants.                                   *)
LEMMA Constants ==
  /\ Minima \subseteq 0..100
  /\ EntryCooldown \in Nat /\ ExitCooldown \in Nat /\ Rate \in Nat /\ Second \in Nat
  /\ Cost \in Nat /\ MaxBack \in Nat
  /\ Short \in Int /\ Long \in Int /\ Short < 0 /\ 0 < Long
BY SignalPathAssumption DEF SignalPathAssumption

USE Constants

(* A full bucket holds a number of units that stays the same.              *)
LEMMA FullIsNat == Full \in Nat /\ Full' = Full
BY DEF Full

(* A strategy with one of its fields set, or two.                          *)
LEMMA FieldSet ==
  ASSUME NEW e \in Engines
  PROVE  /\ \A n \in Int : [e EXCEPT !.entry = n] \in Engines
         /\ \A n \in Int : [e EXCEPT !.exit = n] \in Engines
BY DEF Engines

(* Entering or leaving sets a stance and the age of one of its two times.  *)
LEMMA MoveSet ==
  ASSUME NEW e \in Engines, NEW s \in {-1, 0, 1}
  PROVE  /\ [e EXCEPT !.stance = s, !.entry = 0] \in Engines
         /\ [e EXCEPT !.stance = s, !.exit = 0] \in Engines
<1> DEFINE f == [e EXCEPT !.stance = s]
<1>1. f \in Engines
  BY DEF Engines
<1> HIDE DEF f
<1>2. [f EXCEPT !.entry = 0] \in Engines /\ [f EXCEPT !.exit = 0] \in Engines
  BY <1>1, FieldSet
<1>3. QED
  BY <1>2 DEF f

(* The clock sets both.                                                    *)
LEMMA TimesSet ==
  ASSUME NEW e \in Engines, NEW n \in Int, NEW x \in Int
  PROVE  [e EXCEPT !.entry = n, !.exit = x] \in Engines
<1> DEFINE f == [e EXCEPT !.entry = n]
<1>1. f \in Engines
  BY FieldSet
<1> HIDE DEF f
<1>2. [f EXCEPT !.exit = x] \in Engines
  BY <1>1, FieldSet
<1>3. QED
  BY <1>2 DEF f

(* An age is a number, and grows by one at most.                           *)
LEMMA AgesAreNumbers ==
  ASSUME NEW age \in Int, NEW cap \in Nat
  PROVE  Older(age, cap) \in Int /\ Older(age, cap) <= age + 1
BY DEF Older, Least

(* What a bucket gains with age: a number that is never negative, and Rate *)
(* more with each tick.                                                    *)
LEMMA CreditGrows ==
  ASSUME NEW a \in Int
  PROVE  /\ a * Rate \in Int /\ (a >= 0 => a * Rate \in Nat)
         /\ \A b \in Int : b <= a + 1 => b * Rate <= a * Rate + Rate
OBVIOUS

(* What is in the bucket, with what a check would add, lies between the    *)
(* tokens and a full bucket.                                               *)
LEMMA FilledBounds ==
  ASSUME RecordsOK
  PROVE  Filled \in 0..Full /\ bucket.tokens <= Filled
<1>1. bucket.tokens \in 0..Full /\ bucket.age \in Int
  BY DEF RecordsOK
<1>2. Credit \in Nat
  BY <1>1, FullIsNat, CreditGrows DEF Credit
<1>3. QED
  BY <1>1, <1>2, FullIsNat DEF Filled, Least

(* With nothing but tokens that is all it holds.                           *)
LEMMA NoCredit ==
  ASSUME NEW n \in 0..Full, bucket' = [tokens |-> n, age |-> 0]
  PROVE  Filled' = n
<1>1. Credit' = 0
  BY DEF Credit
<1>2. Full' = Full
  BY DEF Full
<1>3. QED
  BY <1>1, <1>2, FullIsNat DEF Filled, Least

(* A strategy enters only on a score beyond a threshold, and with no less  *)
(* confidence than it asks for: a prediction that has both is the model's, *)
(* whose confidence is none.                                               *)
LEMMA EntriesAreUnsure ==
  ASSUME RecordsOK, Enter(Prediction(reading))
  PROVE  engine.minimum <= 0 /\ engine.entry > EntryCooldown
<1> DEFINE p == Prediction(reading)
<1>1. Heeded(p) /\ (p.score > Long \/ p.score < Short)
  BY DEF Enter
<1>2. engine.entry > EntryCooldown
  BY <1>1 DEF Heeded, Cooled
<1>3. IsValid(reading)
  <2> SUFFICES ASSUME ~IsValid(reading) PROVE FALSE
    OBVIOUS
  <2>1. p.score = 0
    BY DEF Prediction, Heuristic, Finify, IsValid
  <2>2. QED
    BY <1>1, <2>1
<1>4. p.confidence = 0
  BY <1>3 DEF Prediction, Predict
<1>5. QED
  BY <1>1, <1>2, <1>4 DEF Heeded

(* The strategy and the check start in the invariant,                      *)
LEMMA InitHolds == Init => SignalInv
<1> SUFFICES ASSUME Init PROVE SignalInv
  OBVIOUS
<1>1. PICK m \in Minima, b \in BOOLEAN : engine = NewEngine(m, b)
  BY DEF Init
<1>2. RecordsOK
  BY <1>1, FullIsNat DEF Init, NewEngine, Never, RecordsOK, Engines
<1>3. UnsureNeverEnters /\ EntryInv
  BY <1>1 DEF Init, NewEngine, Never, UnsureNeverEnters, EntryInv
<1>4. RateInv
  BY <1>2, FullIsNat, FilledBounds DEF Init, RateInv
<1>5. QED
  BY <1>2, <1>3, <1>4 DEF SignalInv

(* and every step keeps it.                                                *)
LEMMA SignalStep == SignalInv /\ [Next]_vars => SignalInv'
<1> SUFFICES ASSUME SignalInv, [Next]_vars PROVE SignalInv'
  OBVIOUS
<1>1. ASSUME Enter(Prediction(reading)) PROVE SignalInv'
  <2>1. PICK side \in {1, -1} : engine' = [engine EXCEPT !.stance = side, !.entry = 0]
    BY <1>1 DEF Enter
  <2>2. RecordsOK'
    <3>1. engine' \in Engines
      BY <2>1, MoveSet DEF SignalInv, RecordsOK
    <3>2. QED
      BY <1>1, <3>1, FullIsNat DEF SignalInv, RecordsOK, Enter
  <2>3. UnsureNeverEnters'
    BY <1>1, <2>1, EntriesAreUnsure DEF SignalInv, RecordsOK, Engines, UnsureNeverEnters
  <2>4. EntryInv'
    BY <1>1, <2>1 DEF SignalInv, RecordsOK, Engines, EntryInv, Enter
  <2>5. RateInv'
    BY <1>1 DEF SignalInv, RateInv, Enter, Filled, Credit, Least
  <2>6. QED
    BY <2>2, <2>3, <2>4, <2>5 DEF SignalInv
<1>2. ASSUME Exit(Prediction(reading)) PROVE SignalInv'
  <2>1. engine' = [engine EXCEPT !.stance = 0, !.exit = 0]
    BY <1>2 DEF Exit
  <2>2. RecordsOK'
    <3>1. engine' \in Engines
      BY <2>1, MoveSet DEF SignalInv, RecordsOK
    <3>2. QED
      BY <1>2, <3>1, FullIsNat DEF SignalInv, RecordsOK, Exit
  <2>3. UnsureNeverEnters' /\ EntryInv'
    BY <1>2, <2>1 DEF SignalInv, RecordsOK, Engines, UnsureNeverEnters, EntryInv, Exit
  <2>4. RateInv'
    BY <1>2 DEF SignalInv, RateInv, Exit, Filled, Credit, Least
  <2>5. QED
    BY <2>2, <2>4, <2>3 DEF SignalInv
<1>3. ASSUME NEW m \in Minima, NEW b \in BOOLEAN, SwapStrategy(m, b) PROVE SignalInv'
  <2>1. engine' = NewEngine(m, b) /\ asked' = EntryCooldown + 1
    BY <1>3 DEF SwapStrategy
  <2>2. RecordsOK' /\ UnsureNeverEnters' /\ EntryInv'
    BY <1>3, <2>1
    DEF SignalInv, RecordsOK, Engines, UnsureNeverEnters, EntryInv, SwapStrategy, NewEngine, Never
  <2>3. RateInv'
    BY <1>3 DEF SignalInv, RateInv, SwapStrategy, Filled, Credit, Least
  <2>4. QED
    BY <2>2, <2>3 DEF SignalInv
<1>4. ASSUME CheckStaleness PROVE SignalInv'
  <2>1. RecordsOK' /\ UnsureNeverEnters' /\ EntryInv'
    BY <1>4 DEF SignalInv, RecordsOK, UnsureNeverEnters, EntryInv, CheckStaleness
  <2>2. RateInv'
    BY <1>4 DEF SignalInv, RateInv, CheckStaleness, Filled, Credit, Least
  <2>3. QED
    BY <2>1, <2>2 DEF SignalInv
<1>5. ASSUME CheckOrderRate PROVE SignalInv'
  <2>1. UnsureNeverEnters' /\ EntryInv'
    BY <1>5 DEF SignalInv, UnsureNeverEnters, EntryInv, CheckOrderRate
  <2>2. Filled \in 0..Full /\ quota \in 0..Full /\ Filled <= quota
    BY FilledBounds DEF SignalInv, RateInv
  <2>3. CASE Filled >= Cost
    <3>1. bucket' = [tokens |-> Filled - Cost, age |-> 0] /\ quota' = quota - Cost
      BY <1>5, <2>3 DEF CheckOrderRate
    <3>2. RecordsOK'
      BY <1>5, <2>2, <2>3, <3>1, FullIsNat DEF SignalInv, RecordsOK, CheckOrderRate
    <3>3. Filled' = Filled - Cost
      BY <2>2, <2>3, <3>1, FullIsNat, NoCredit
    <3>4. RateInv'
      BY <2>2, <2>3, <3>1, <3>3, FullIsNat DEF RateInv, Full
    <3>5. QED
      BY <2>1, <3>2, <3>4 DEF SignalInv
  <2>4. CASE ~(Filled >= Cost)
    <3>1. bucket' = [tokens |-> Filled, age |-> 0] /\ quota' = quota
      BY <1>5, <2>4 DEF CheckOrderRate
    <3>2. RecordsOK'
      BY <1>5, <2>2, <3>1, FullIsNat DEF SignalInv, RecordsOK, CheckOrderRate
    <3>3. Filled' = Filled
      BY <2>2, <3>1, NoCredit
    <3>4. RateInv'
      BY <2>2, <3>1, <3>3 DEF RateInv, Full
    <3>5. QED
      BY <2>1, <3>2, <3>4 DEF SignalInv
  <2>5. QED
    BY <2>3, <2>4
<1>6. ASSUME Tick PROVE SignalInv'
  <2>1. RecordsOK'
    <3>1. engine' \in Engines
      BY <1>6, AgesAreNumbers, TimesSet DEF SignalInv, RecordsOK, Engines, Tick
    <3>2. bucket' \in [tokens : 0..Full, age : Int] /\ reading' = reading
      BY <1>6 DEF SignalInv, RecordsOK, Tick, Older, Least
    <3>3. QED
      BY <3>1, <3>2, FullIsNat DEF SignalInv, RecordsOK
  <2>2. UnsureNeverEnters' /\ EntryInv'
    <3>1. engine.entry \in Int /\ engine.exit \in Int
      BY DEF SignalInv, RecordsOK, Engines
    <3>2. engine'.stance = engine.stance /\ engine'.minimum = engine.minimum
      BY <1>6 DEF SignalInv, RecordsOK, Engines, Tick
    <3>3. engine'.entry = Older(engine.entry, EntryCooldown)
      BY <1>6 DEF SignalInv, RecordsOK, Engines, Tick
    <3>4. engine'.entry \in Int /\ engine'.entry <= engine.entry + 1
      BY <3>1, <3>3, AgesAreNumbers
    <3>5. QED
      BY <1>6, <3>1, <3>2, <3>4 DEF SignalInv, UnsureNeverEnters, EntryInv, Tick, Least
  <2>3. RateInv'
    <3>1. /\ bucket'.tokens = bucket.tokens
          /\ bucket'.age \in {bucket.age + 1, Second + 1 + MaxBack}
          /\ bucket'.age <= bucket.age + 1
          /\ quota' = Least(quota + Rate, Full) /\ Rate \in Nat
          /\ quota \in 0..Full /\ Filled <= quota
          /\ bucket.age \in Int /\ bucket.tokens \in 0..Full
      BY <1>6 DEF SignalInv, RateInv, RecordsOK, Tick, Older, Least
    <3>2. quota' \in 0..Full /\ Full' = Full
      BY <3>1, FullIsNat DEF Least, Full
    <3>3. CASE bucket'.age < 0
      <4>1. bucket.age < 0
        BY <3>1, <3>3
      <4>2. quota = Full
        BY <3>1, <4>1, FullIsNat DEF Filled, Credit, Least
      <4>3. quota' = Full
        BY <3>1, <4>2, FullIsNat DEF Least
      <4>4. Filled' <= Full
        BY <3>1, <3>2, <3>3, FullIsNat DEF Filled, Credit, Least
      <4>5. QED
        BY <3>2, <4>3, <4>4, FullIsNat DEF RateInv
    <3>4. CASE bucket'.age >= 0 /\ bucket.age < 0
      <4>1. bucket'.age = 0
        BY <3>1, <3>4
      <4>2. quota = Full
        BY <3>1, <3>4, FullIsNat DEF Filled, Credit, Least
      <4>3. quota' = Full
        BY <3>1, <4>2, FullIsNat DEF Least
      <4>4. Filled' <= Full
        BY <3>1, <3>2, <4>1, FullIsNat, CreditGrows DEF Filled, Credit, Least
      <4>5. QED
        BY <3>2, <4>3, <4>4, FullIsNat DEF RateInv
    <3>5. CASE bucket'.age >= 0 /\ bucket.age >= 0
      <4>1. Credit' <= Credit + Rate /\ Credit \in Nat /\ Credit' \in Nat
        BY <3>1, <3>5, CreditGrows DEF Credit
      <4>2. Filled' <= Filled + Rate /\ Filled' <= Full /\ Filled' \in Int
        BY <3>1, <4>1, <3>2, FullIsNat DEF Filled, Least
      <4>3. QED
        BY <3>1, <3>2, <4>1, <4>2, FilledBounds, FullIsNat DEF SignalInv, RateInv, Least
    <3>6. QED
      BY <2>1, <3>1, <3>3, <3>4, <3>5 DEF RecordsOK
  <2>4. QED
    BY <2>1, <2>2, <2>3 DEF SignalInv
<1>7. ASSUME SetBack PROVE SignalInv'
  <2>1. RecordsOK'
    <3>1. engine.entry - 1 \in Int /\ engine.exit - 1 \in Int
      BY DEF SignalInv, RecordsOK, Engines
    <3>2. engine' \in Engines
      BY <1>7, <3>1, TimesSet DEF SignalInv, RecordsOK, SetBack
    <3>3. bucket' \in [tokens : 0..Full, age : Int]
      BY <1>7 DEF SignalInv, RecordsOK, SetBack
    <3>4. QED
      BY <1>7, <3>2, <3>3, FullIsNat DEF SignalInv, RecordsOK, SetBack
  <2>2. UnsureNeverEnters' /\ EntryInv'
    BY <1>7 DEF SignalInv, RecordsOK, Engines, UnsureNeverEnters, EntryInv, SetBack
  <2>3. RateInv'
    <3>1. /\ bucket'.age \in Int /\ bucket'.tokens \in 0..Full
          /\ quota' = Full /\ Full' = Full
      BY <1>7, <2>1, FullIsNat DEF RecordsOK, SetBack
    <3>2. Credit' \in Nat
      BY <3>1, FullIsNat, CreditGrows DEF Credit
    <3>3. QED
      BY <3>1, <3>2, FullIsNat DEF RateInv, Filled, Least
  <2>4. QED
    BY <2>1, <2>2, <2>3 DEF SignalInv
<1>8. ASSUME NEW r \in Readings, Move(r) PROVE SignalInv'
  BY <1>8
  DEF SignalInv, RecordsOK, UnsureNeverEnters, EntryInv, RateInv, Move, Filled, Credit, Least
<1>9. ASSUME UNCHANGED vars PROVE SignalInv'
  BY <1>9
  DEF SignalInv, RecordsOK, UnsureNeverEnters, EntryInv, RateInv, vars, Filled, Credit, Least
<1>10. QED
  BY <1>1, <1>2, <1>3, <1>4, <1>5, <1>6, <1>7, <1>8, <1>9 DEF Next, Evaluate

(* A strategy that asks for any confidence never leaves flat: the model's  *)
(* predictions have none, and the heuristic that replaces those without a  *)
(* score is neutral.                                                       *)
THEOREM UnsureStaysFlat == Spec => []UnsureNeverEnters
<1>1. SignalInv => UnsureNeverEnters
  BY DEF SignalInv
<1>2. QED
  BY <1>1, InitHolds, SignalStep, PTL DEF Spec

(* The check of the order rate, late or after the clock was set back, lets *)
(* no more through than a bucket that fills all the time.                  *)
THEOREM RateHolds == Spec => []OrderRateHolds
<1>1. SignalInv => OrderRateHolds
  <2> SUFFICES ASSUME SignalInv PROVE OrderRateHolds
    OBVIOUS
  <2>1. Filled \in 0..Full /\ bucket.tokens <= Filled /\ bucket.tokens \in 0..Full
    BY FilledBounds DEF SignalInv, RecordsOK
  <2>2. quota \in 0..Full /\ Filled <= quota
    BY DEF SignalInv, RateInv
  <2>3. QED
    BY <2>1, <2>2, FullIsNat DEF OrderRateHolds
<1>2. QED
  BY <1>1, InitHolds, SignalStep, PTL DEF Spec

(* However the clock is set, a strategy that enters last entered more than *)
(* its cooldown ago: a step out of flat is an entry, and it is one of a    *)
(* score that waits for that cooldown.                                     *)
THEOREM EntriesWait == Spec => EntriesAreSpaced
<1>1. ASSUME SignalInv, [Next]_vars, engine.stance = 0, engine'.stance # 0
      PROVE  asked > EntryCooldown
  <2>1. Enter(Prediction(reading))
    <3> USE DEF SignalInv, RecordsOK, Engines
    <3>1. ASSUME Exit(Prediction(reading)) PROVE FALSE
      BY <1>1, <3>1 DEF Exit, Leaves
    <3>2. ASSUME NEW m \in Minima, NEW b \in BOOLEAN, SwapStrategy(m, b) PROVE FALSE
      BY <1>1, <3>2 DEF SwapStrategy, NewEngine
    <3>3. ASSUME Tick \/ SetBack PROVE FALSE
      BY <1>1, <3>3 DEF Tick, SetBack
    <3>4. ASSUME CheckStaleness \/ CheckOrderRate \/ UNCHANGED vars PROVE FALSE
      BY <1>1, <3>4 DEF CheckStaleness, CheckOrderRate, vars
    <3>5. ASSUME NEW r \in Readings, Move(r) PROVE FALSE
      BY <1>1, <3>5 DEF Move
    <3>6. QED
      BY <1>1, <3>1, <3>2, <3>3, <3>4, <3>5 DEF Next, Evaluate
  <2>2. engine.entry > EntryCooldown /\ engine.entry \in Int
    BY <1>1, <2>1, EntriesAreUnsure DEF SignalInv, RecordsOK, Engines
  <2>3. QED
    BY <1>1, <2>2 DEF SignalInv, EntryInv
<1>2. SignalInv /\ [Next]_vars => [engine.stance = 0 /\ engine'.stance # 0 => asked > EntryCooldown]_vars
  BY <1>1
<1>3. QED
  BY <1>2, InitHolds, SignalStep, PTL DEF Spec, EntriesAreSpaced
=============================================================================
