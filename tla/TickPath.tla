------------------------------- MODULE TickPath -------------------------------
(***************************************************************************)
(* From a received tick to the numbers the rest of the engine works with:  *)
(* Normalizer (market-data), FeatureEngine with its rolling windows, EMAs, *)
(* RSI and ATR (feature), the part of AssetProcessor's loop that runs them *)
(* under a time budget (engine.rs), and the counters that loop keeps in    *)
(* GlobalMetrics while API and telemetry threads take snapshots (core).    *)
(*                                                                         *)
(* Prices are integers and a mid price is the sum of bid and ask, so all   *)
(* distances are in half units.  What is computed from a window (mean,     *)
(* deviation, RSI, ATR) is a function of its contents, and the value of an *)
(* EMA of the prices fed to it: contents and prices are what is kept.      *)
(* One symbol; the strategy behind the request is in module SignalPath.    *)
(***************************************************************************)
EXTENDS Integers, Sequences, FiniteSets

CONSTANTS
  Feed,           \* ticks the feed delivers: [type, bid, ask, last]
  MaxTicks,       \* bound: ticks delivered
  BatchCapacity,  \* of recv_batch
  PriceWindow, ReturnWindow, RsiPeriod, AtrPeriod  \* of the windows

ASSUME TickPathAssumption ==
  /\ \A t \in Feed : /\ t.type \in {"Quote", "Trade", "Bar"}
                     /\ {t.bid, t.ask, t.last} \subseteq Int
  /\ {MaxTicks, BatchCapacity, PriceWindow, ReturnWindow, RsiPeriod, AtrPeriod}
       \subseteq Nat \ {0}

VARIABLES
  arrived,     \* history: the ticks received, in order
  pending,     \* how many of them, the last ones, the batch still holds
  stage,       \* of the processor: "loop", "counted", "judge" or "skip"
  lastSpread,  \* Normalizer.last_spread, 0 for none
  features,    \* the FeatureEngine: windows, prices fed to the EMAs, last price
  current,     \* the tick a risk request would be for, its price and spread
  counters,    \* of GlobalMetrics
  snapshot,    \* what a thread taking one has read of the symbols' counters, or Idle
  skipped,     \* local counter of an over-budget batch
  rejected,    \* history: malformed ticks met within the budget
  fresh        \* history: ticks taken when the FeatureEngine was replaced

ticksVars == <<arrived, pending, stage, lastSpread, features, current, counters,
               snapshot, skipped, rejected, fresh>>

-----------------------------------------------------------------------------
(* RollingWindow: a ring with the place of the next value.                 *)

Window(n) == [data |-> [i \in 1..n |-> 0], index |-> 0, full |-> FALSE]

\* Mutant: the window is full with its last place still empty.
PushEarly(w, v) ==
  LET next == (w.index + 1) % Len(w.data)
  IN  [data |-> [w.data EXCEPT ![w.index + 1] = v], index |-> next,
       full |-> w.full \/ next = Len(w.data) - 1]

Push(w, v) ==
  LET next == (w.index + 1) % Len(w.data)
  IN  [data |-> [w.data EXCEPT ![w.index + 1] = v], index |-> next,
       full |-> w.full \/ next = 0]

Values(w) == IF w.full
             THEN SubSeq(w.data, w.index + 1, Len(w.data)) \o SubSeq(w.data, 1, w.index)
             ELSE SubSeq(w.data, 1, w.index)

-----------------------------------------------------------------------------
(* Normalizer.                                                             *)

Valid(t) == /\ t.bid > 0 /\ t.ask > 0 /\ t.last > 0
            /\ t.type = "Quote" => t.bid <= t.ask

Mid(t) == IF t.type = "Quote" THEN t.bid + t.ask ELSE 2 * t.last

\* A trade has the spread of the last quote, a bar none.
Spread(t) == CASE t.type = "Quote" -> t.ask - t.bid
               [] t.type = "Trade" -> lastSpread
               [] t.type = "Bar"   -> 0

Normalize(t) == lastSpread' = IF t.type = "Quote" /\ Spread(t) > 0 THEN Spread(t)
                              ELSE lastSpread

-----------------------------------------------------------------------------
(* FeatureEngine.                                                          *)

NewFeatures == [prices |-> Window(PriceWindow), returns |-> Window(ReturnWindow),
                rsi |-> Window(RsiPeriod), ranges |-> Window(AtrPeriod),
                fed |-> <<>>, last |-> 0]

Largest(S) == CHOOSE x \in S : \A y \in S : x >= y
Distance(a, b) == IF a > b THEN a - b ELSE b - a

\* ATRState::update: high and low are the mid for a trade, and half a spread
\* from it otherwise.
TrueRange(t, spread, last) ==
  LET half == IF t.type = "Trade" THEN 0 ELSE spread
      high == Mid(t) + half   low == Mid(t) - half
  IN  Largest({high - low, Distance(high, last), Distance(low, last)})

\* RSIState::update; its windows of gains and of losses are one of signed
\* changes here.
RsiUpdated(w, last, price) == IF last > 0 THEN Push(w, price - last) ELSE w

\* EMAState::update, of every EMA.
Fed(fed, price) == Append(fed, price)

\* WindowManager::update.
Updated(f, t) ==
  LET known == f.last > 0
  IN  [prices  |-> Push(f.prices, Mid(t)),
       returns |-> IF known THEN Push(f.returns, Mid(t) - f.last) ELSE f.returns,
       rsi     |-> RsiUpdated(f.rsi, f.last, Mid(t)),
       ranges  |-> IF known THEN Push(f.ranges, TrueRange(t, Spread(t), f.last))
                            ELSE f.ranges,
       fed     |-> Fed(f.fed, Mid(t)),
       last    |-> Mid(t)]

\* FeatureEngine::compute: after that, MomentumComputer updates the RSI again
\* with the price it has already seen; the other computers only read.
Computed(f, t) == LET g == Updated(f, t)
                  IN  [g EXCEPT !.rsi = RsiUpdated(@, g.last, Mid(t))]

-----------------------------------------------------------------------------
(* The counters.                                                           *)

NoCounts == [ticks |-> 0, symbol |-> 0, skips |-> 0, symbolSkips |-> 0]
Idle == -1
NothingTaken == [tick |-> 0, price |-> 0, spread |-> 0]

TicksInit == /\ arrived = <<>> /\ pending = 0 /\ stage = "loop" /\ lastSpread = 0
             /\ features = NewFeatures /\ current = NothingTaken
             /\ counters = NoCounts /\ snapshot = Idle
             /\ skipped = 0 /\ rejected = 0 /\ fresh = 0

Taken == Len(arrived) - pending
NextTick == arrived[Taken + 1]

Advance == pending' = pending - 1

\* Mutant: the symbol's counter is first.
CountSymbolFirst(c, at) == IF at = "loop" THEN [c EXCEPT !.symbol = @ + 1]
                                          ELSE [c EXCEPT !.ticks = @ + 1]

\* A tick is counted in total, then for its symbol under the map's lock.
Count(c, at) == IF at = "loop" THEN [c EXCEPT !.ticks = @ + 1]
                               ELSE [c EXCEPT !.symbol = @ + 1]
CountSkip(c) == [c EXCEPT !.symbolSkips = @ + 1]

-----------------------------------------------------------------------------
(* AssetProcessor::run_loop_with_options, and what others do meanwhile.    *)

\* recv_batch: some of what the feed has sent.
Receive(ticks) ==
  /\ stage = "loop" /\ pending = 0
  /\ Len(arrived) + Len(ticks) <= MaxTicks
  /\ arrived' = arrived \o ticks /\ pending' = Len(ticks)
  /\ UNCHANGED <<stage, lastSpread, features, current, counters, snapshot,
                 skipped, rejected, fresh>>

Reject ==
  /\ stage = "loop" /\ pending > 0 /\ ~Valid(NextTick)
  /\ Advance /\ rejected' = rejected + 1
  /\ UNCHANGED <<arrived, stage, lastSpread, features, current, counters, snapshot,
                 skipped, fresh>>

\* Normalizer, FeatureEngine, context and the global counters.
Take ==
  /\ stage = "loop" /\ pending > 0 /\ Valid(NextTick)
  /\ Normalize(NextTick) /\ features' = Computed(features, NextTick)
  /\ current' = [tick |-> Taken + 1, price |-> Mid(NextTick), spread |-> Spread(NextTick)]
  /\ counters' = Count(counters, stage)
  /\ Advance /\ stage' = "counted"
  /\ UNCHANGED <<arrived, snapshot, skipped, rejected, fresh>>

CountSymbol ==
  /\ stage = "counted" /\ stage' = "judge"
  /\ counters' = Count(counters, stage)
  /\ UNCHANGED <<arrived, pending, lastSpread, features, current, snapshot,
                 skipped, rejected, fresh>>

\* Within its budget the tick goes on to inference and strategy (SignalPath).
InTime ==
  /\ stage = "judge" /\ stage' = "loop"
  /\ UNCHANGED <<arrived, pending, lastSpread, features, current, counters, snapshot,
                 skipped, rejected, fresh>>

Overrun ==
  /\ stage = "judge" /\ stage' = "skip" /\ skipped' = 1
  /\ UNCHANGED <<arrived, pending, lastSpread, features, current, counters,
                 snapshot, rejected, fresh>>

\* Mutants: the rest of an over-budget batch feeds the indicators only; or it
\* is counted only where it is well-formed.
SkipUnnormalized ==
  /\ stage = "skip" /\ pending > 0
  /\ features' = IF Valid(NextTick) THEN Computed(features, NextTick) ELSE features
  /\ counters' = CountSkip(counters) /\ skipped' = skipped + 1
  /\ Advance
  /\ UNCHANGED <<arrived, stage, lastSpread, current, snapshot, rejected, fresh>>

SkipUncounted ==
  /\ stage = "skip" /\ pending > 0
  /\ IF Valid(NextTick)
     THEN /\ Normalize(NextTick) /\ features' = Computed(features, NextTick)
          /\ counters' = CountSkip(counters)
     ELSE UNCHANGED <<lastSpread, features, counters>>
  /\ skipped' = skipped + 1 /\ Advance
  /\ UNCHANGED <<arrived, stage, current, snapshot, rejected, fresh>>

\* The rest of an over-budget batch: normalised and computed all the same.
Skip ==
  /\ stage = "skip" /\ pending > 0
  /\ IF Valid(NextTick)
     THEN Normalize(NextTick) /\ features' = Computed(features, NextTick)
     ELSE UNCHANGED <<lastSpread, features>>
  /\ counters' = CountSkip(counters) /\ skipped' = skipped + 1
  /\ Advance
  /\ UNCHANGED <<arrived, stage, current, snapshot, rejected, fresh>>

EndBatch ==
  /\ stage = "skip" /\ pending = 0 /\ stage' = "loop"
  /\ counters' = [counters EXCEPT !.skips = @ + skipped] /\ skipped' = 0
  /\ UNCHANGED <<arrived, pending, lastSpread, features, current, snapshot,
                 rejected, fresh>>

\* SetFeatureParams puts a new FeatureEngine in place, between two ticks.
SetFeatureParams ==
  /\ fresh = 0 /\ Taken > 0
  /\ features' = NewFeatures /\ fresh' = Taken
  /\ UNCHANGED <<arrived, pending, stage, lastSpread, current, counters, snapshot,
                 skipped, rejected>>

\* GlobalMetrics::snapshot in two steps: the map of the symbols, then the totals.
ReadSymbols == snapshot = Idle /\ snapshot' = counters.symbol
ReadTotals == snapshot # Idle /\ snapshot' = Idle

Snapshot ==
  /\ ReadSymbols \/ ReadTotals
  /\ UNCHANGED <<arrived, pending, stage, lastSpread, features, current, counters,
                 skipped, rejected, fresh>>

Batches == UNION {[1..n -> Feed] : n \in 1..BatchCapacity}

Processor == Reject \/ Take \/ CountSymbol \/ InTime \/ Overrun \/ Skip \/ EndBatch

TicksNext == \/ \E ticks \in Batches : Receive(ticks)
             \/ Processor
             \/ SetFeatureParams
             \/ Snapshot

TicksSpec == TicksInit /\ [][TicksNext]_ticksVars

-----------------------------------------------------------------------------
(* What arrived, without the processor: the references of the properties.  *)

AcceptedTicks == {n \in (fresh + 1)..Taken : Valid(arrived[n])}

\* A tick's place among them, and who is at a place.
Place(n) == Cardinality({m \in AcceptedTicks : m <= n})
Placed(i) == {n \in AcceptedTicks : Place(n) = i}
Accepted == [i \in 1..Cardinality(AcceptedTicks) |-> CHOOSE n \in Placed(i) : TRUE]

Mids == LET a == Accepted IN [i \in 1..Len(a) |-> Mid(arrived[a[i]])]
Rises == LET m == Mids IN [i \in 1..(Len(m) - 1) |-> m[i + 1] - m[i]]

\* Quotes with a spread before the nth tick, and the spread of the last.
Spreads(n) == {i \in 1..(n - 1) : /\ arrived[i].type = "Quote" /\ Valid(arrived[i])
                                  /\ arrived[i].ask > arrived[i].bid}
LatestSpread(n) == IF Spreads(n) = {} THEN 0
                   ELSE LET i == Largest(Spreads(n)) IN arrived[i].ask - arrived[i].bid

SpreadAt(n) == CASE arrived[n].type = "Quote" -> arrived[n].ask - arrived[n].bid
                 [] arrived[n].type = "Bar"   -> 0
                 [] arrived[n].type = "Trade" -> LatestSpread(n)

Ranges == LET a == Accepted   m == Mids
          IN  [i \in 1..(Len(m) - 1) |->
                 TrueRange(arrived[a[i + 1]], SpreadAt(a[i + 1]), m[i])]

\* Every price twice: each rise is followed by none.
Doubled == LET r == Rises
           IN  [i \in 1..(2 * Len(Mids) - 1) |-> IF i % 2 = 1 THEN 0 ELSE r[i \div 2]]

Latest(s, n) == SubSeq(s, IF Len(s) > n THEN Len(s) - n + 1 ELSE 1, Len(s))

(* Whatever was over budget, malformed or batched together: the EMAs were   *)
(* fed every accepted tick's price once, and each window holds the latest  *)
(* values since the engine was made.  An RSI of n periods sees n/2 ticks.  *)
WindowsHoldLatest ==
  /\ features.fed = Mids
  /\ Values(features.prices)  = Latest(Mids, PriceWindow)
  /\ Values(features.returns) = Latest(Rises, ReturnWindow)
  /\ Values(features.ranges)  = Latest(Ranges, AtrPeriod)
  /\ Values(features.rsi)     = Latest(Doubled, RsiPeriod)

(* A request for an order carries the mid price of its tick and the spread *)
(* of the last quote that had one, be it one that was skipped.             *)
RequestsArePriced ==
  current.tick > 0 => /\ current.price = Mid(arrived[current.tick])
                      /\ current.spread = SpreadAt(current.tick)

(* Between batches every tick is in exactly one count: processed, skipped  *)
(* for its symbol, or malformed; and the totals cover the symbols.         *)
TicksAreAccounted ==
  stage = "loop" /\ pending = 0 =>
    /\ counters.ticks + counters.symbolSkips + rejected = Len(arrived)
    /\ counters.symbol = counters.ticks /\ counters.symbolSkips <= counters.skips

(* No snapshot shows more ticks for the symbols than in total, wherever in *)
(* the processor's bookkeeping it is taken.                                *)
SnapshotsCover == [][ReadTotals => snapshot <= counters.ticks]_ticksVars
=============================================================================
