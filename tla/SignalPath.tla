------------------------------ MODULE SignalPath ------------------------------
(***************************************************************************)
(* From the features of a tick to a request that risk lets through:        *)
(* InferenceEngine and Prediction (model), StrategyEngine (strategy) and   *)
(* the checks of RiskEngine that keep time (risk), on one wall clock that  *)
(* may be set back.                                                        *)
(*                                                                         *)
(* Fractions are percentages.  The features are the market's choice out of *)
(* Readings; what becomes of price and spread is in TickPath, what becomes *)
(* of the intents and their channels in AssetPipeline.  A prediction that  *)
(* is stale, or a tick over its budget, leaves everything as it is.        *)
(***************************************************************************)
EXTENDS Integers

CONSTANTS
  Readings,          \* features: [rsi, macd, volume, atr] and whether macd is a number
  RsiWeight, MacdWeight, VolumeWeight, VolumeClamp, AtrThreshold, AtrPenalty,
  Overbought, Oversold, Neutral,
  Long, Short, Deadband,       \* thresholds of the strategy
  Minima,                      \* confidence_minimum of the strategies
  MaxLong, MaxShort,           \* units the strategy may be long or short
  EntryCooldown, ExitCooldown, \* in ticks of the clock
  Staleness,                   \* of a request, in ticks
  Rate, Second, Cost,          \* of the order rate: tokens per tick, ticks, tokens
  MaxBack                      \* bound: ticks the clock may be set back in all

ASSUME SignalPathAssumption ==
  /\ Minima \subseteq 0..100 /\ Minima # {} /\ Readings # {}
  /\ {EntryCooldown, ExitCooldown, Staleness, Rate, Cost, MaxBack,
       MaxLong, MaxShort} \subseteq Nat
  /\ Second \in Nat \ {0} /\ Deadband \in Nat /\ Neutral \in Nat \ {0}
  /\ Short \in Int /\ Long \in Int /\ Short < 0 /\ 0 < Long

VARIABLES
  reading,  \* the features of the ticks that come
  engine,   \* the strategy: stance, minimum, allow_short (shorts), and how long ago it
            \* entered and left
  request,  \* the request on its way to the check: its age, or NoRequest
  bucket,   \* order_rate_tokens and the age of order_rate_last_refill
  back,     \* how far the clock has been set back so far
  asked,    \* history: time since the strategy last entered
  quota     \* history: what a bucket that fills all the time would hold

vars == <<reading, engine, request, bucket, back, asked, quota>>

-----------------------------------------------------------------------------
(* Inference.                                                              *)

Least(a, b) == IF a < b THEN a ELSE b
Clamp(n, low, high) == IF n < low THEN low ELSE Least(n, high)

\* What the feature engine makes of the volume ratio, and inference of that.
VolumeRatio(r) == Clamp(r.volume, 0, VolumeClamp)
VolumePart(r) == Clamp(VolumeRatio(r) - 100, -VolumeClamp, VolumeClamp)

RsiPart(r) == IF r.rsi > Overbought THEN -50
              ELSE IF r.rsi < Oversold THEN 50
              ELSE ((Neutral - r.rsi) * 100) \div Neutral

MacdPart(r) == Clamp(r.macd, -100, 100)

ActionScore(r) ==
  Clamp((RsiPart(r) * RsiWeight + MacdPart(r) * MacdWeight + VolumePart(r) * VolumeWeight)
          \div 100 + (IF r.atr > AtrThreshold THEN AtrPenalty ELSE 0), -100, 100)

\* predict: nothing ever sets the feature it takes the confidence from.
Predict(r) == [confidence |-> 0, score |-> ActionScore(r)]

\* heuristic_from_features: the macd, made zero when it is no number.
Finify(r) == IF r.number THEN r.macd ELSE 0
Heuristic(r) == [confidence |-> 60, score |-> Finify(r)]

\* Mutant: the heuristic stands in for any prediction without confidence.
PredictionSure(r) == IF Predict(r).confidence > 0 THEN Predict(r) ELSE Heuristic(r)

\* A macd that is no number makes the score none.
IsValid(r) == r.number
Prediction(r) == IF IsValid(r) THEN Predict(r) ELSE Heuristic(r)

-----------------------------------------------------------------------------
(* Times: how long ago, by the wall clock.  A time in the future is        *)
(* negative.  They saturate where no comparison sees a difference any more.*)

Older(age, cap) == Least(age + 1, cap + 1 + MaxBack)
Never(cap) == cap + 1 + MaxBack

NewEngine(minimum, shorts) == [stance |-> 0, minimum |-> minimum, shorts |-> shorts,
                               entry |-> Never(EntryCooldown), exit |-> Never(ExitCooldown)]

Full == Rate * Second
NoRequest == -(MaxBack + 1)

Init == /\ reading \in Readings
        /\ \E m \in Minima, b \in BOOLEAN : engine = NewEngine(m, b)
        /\ request = NoRequest /\ bucket = [tokens |-> Full, age |-> 0]
        /\ back = 0 /\ asked = EntryCooldown + 1 /\ quota = Full

-----------------------------------------------------------------------------
(* The strategy.                                                           *)

\* Mutant: a strong short score is held by the exit cooldown.
CooledLongOnly(score) == IF score > Long THEN engine.entry > EntryCooldown
                                         ELSE engine.exit > ExitCooldown

\* check_cooldown_for_score: by the score, not by what the strategy is about
\* to do; a reversal beyond the opposite threshold waits for the entry cooldown.
Cooled(score) == IF score > Long \/ score < Short THEN engine.entry > EntryCooldown
                                                  ELSE engine.exit > ExitCooldown

\* The gates of evaluate before the hysteresis.
Heeded(p) == p.confidence >= engine.minimum /\ Cooled(p.score)

\* A full channel drops the request; the strategy has moved all the same.
Ask == request' = IF request = NoRequest THEN 0 ELSE request

\* check_position_gate, of a position nothing updates; it comes after the
\* stance has changed.
NetPosition == 0
PositionGate(side) == \/ side = 1 /\ NetPosition < MaxLong
                      \/ side = -1 /\ engine.shorts /\ NetPosition > -MaxShort

Enter(p) ==
  /\ Heeded(p) /\ engine.stance = 0
  /\ \E side \in {1, -1} :
       /\ IF side = 1 THEN p.score > Long ELSE p.score < Short /\ engine.shorts
       /\ engine' = [engine EXCEPT !.stance = side, !.entry = 0]
       /\ IF PositionGate(side) THEN Ask ELSE UNCHANGED request
  /\ asked' = 0
  /\ UNCHANGED <<reading, bucket, back, quota>>

\* Mutant: a stance is left only for the opposite one.
LeavesReversed(score) == \/ engine.stance = 1 /\ score < Short
                         \/ engine.stance = -1 /\ score > Long

Leaves(score) == \/ engine.stance = 1 /\ score < Long - Deadband
                 \/ engine.stance = -1 /\ score > Short + Deadband

Exit(p) ==
  /\ Heeded(p) /\ Leaves(p.score)
  /\ engine' = [engine EXCEPT !.stance = 0, !.exit = 0]
  /\ Ask
  /\ UNCHANGED <<reading, bucket, back, asked, quota>>

\* SwapStrategy: a new engine, flat and without a past.
SwapStrategy(minimum, shorts) ==
  /\ engine' = NewEngine(minimum, shorts) /\ asked' = EntryCooldown + 1
  /\ UNCHANGED <<reading, request, bucket, back, quota>>

-----------------------------------------------------------------------------
(* The risk check, as far as it keeps time.                                *)

\* A request from the future has age 0.
Stale == request > Staleness

CheckStaleness ==
  /\ request # NoRequest /\ Stale
  /\ request' = NoRequest
  /\ UNCHANGED <<reading, engine, bucket, back, asked, quota>>

\* The difference of times is unsigned: a refill in the future wraps round and
\* fills the bucket.
Credit == IF bucket.age < 0 THEN Full ELSE bucket.age * Rate
Filled == Least(bucket.tokens + Credit, Full)

\* Mutant: the time of the refill is kept where no token is taken.
CheckOrderRateKeepsTime ==
  /\ request # NoRequest /\ ~Stale
  /\ request' = NoRequest
  /\ IF Filled >= Cost THEN /\ bucket' = [tokens |-> Filled - Cost, age |-> 0]
                            /\ quota' = quota - Cost
     ELSE bucket' = [bucket EXCEPT !.tokens = Filled] /\ UNCHANGED quota
  /\ UNCHANGED <<reading, engine, back, asked>>

\* check_order_rate takes its token whatever the checks after it say: limits on
\* position, exposure, leverage and drawdown, and two that only advise.
CheckOrderRate ==
  /\ request # NoRequest /\ ~Stale
  /\ request' = NoRequest
  /\ IF Filled >= Cost THEN /\ bucket' = [tokens |-> Filled - Cost, age |-> 0]
                            /\ quota' = quota - Cost
     ELSE bucket' = [tokens |-> Filled, age |-> 0] /\ UNCHANGED quota
  /\ UNCHANGED <<reading, engine, back, asked>>

-----------------------------------------------------------------------------
(* Market and clock.                                                       *)

Move(r) == reading' = r /\ UNCHANGED <<engine, request, bucket, back, asked, quota>>

Tick ==
  /\ engine' = [engine EXCEPT !.entry = Older(@, EntryCooldown),
                              !.exit = Older(@, ExitCooldown)]
  /\ request' = IF request = NoRequest THEN NoRequest ELSE Older(request, Staleness)
  /\ bucket' = [bucket EXCEPT !.age = Older(@, Second)]
  /\ asked' = Least(asked + 1, EntryCooldown + 1)
  /\ quota' = Least(quota + Rate, Full)
  /\ UNCHANGED <<reading, back>>

SetBack ==
  /\ back < MaxBack /\ back' = back + 1
  /\ engine' = [engine EXCEPT !.entry = @ - 1, !.exit = @ - 1]
  /\ request' = IF request = NoRequest THEN NoRequest ELSE request - 1
  /\ bucket' = [bucket EXCEPT !.age = @ - 1]
  /\ quota' = Full
  /\ UNCHANGED <<reading, asked>>

Evaluate == Enter(Prediction(reading)) \/ Exit(Prediction(reading))

Next == \/ Evaluate \/ CheckStaleness \/ CheckOrderRate \/ Tick \/ SetBack
        \/ \E r \in Readings : Move(r)
        \/ \E m \in Minima, b \in BOOLEAN : SwapStrategy(m, b)

Spec == Init /\ [][Next]_vars

(* Ticks keep coming, and of those that would make the strategy act some   *)
(* are within their budget; time passes.                                   *)
FairSpec == Spec /\ WF_vars(Evaluate) /\ WF_vars(Tick)

-----------------------------------------------------------------------------
TypeOK == /\ reading \in Readings
          /\ engine.stance \in {-1, 0, 1} /\ engine.minimum \in Minima /\ engine.shorts \in BOOLEAN
          /\ bucket.tokens \in 0..Full

(* A strategy that asks for any confidence never enters: the model's       *)
(* prediction has none, and the heuristic's, which has, is neutral where   *)
(* it is used.  So with the configuration the repository ships no entry    *)
(* is ever requested.                                                      *)
UnsureNeverEnters == engine.minimum > 0 => engine.stance = 0

(* Entries of one strategy are more than the cooldown apart, in time that  *)
(* really passed, wherever the wall clock is set back to.                  *)
EntriesAreSpaced == [][engine.stance = 0 /\ engine'.stance # 0 => asked > EntryCooldown]_vars

(* Long or short, the strategy does not sit in a stance the market has     *)
(* left: it gets out, however strong the reversal, or the market turns.    *)
StanceIsLeft ==
  /\ []<>~(engine.stance = 1 /\ Prediction(reading).score < Long - Deadband)
  /\ []<>~(engine.stance = -1 /\ Prediction(reading).score > Short + Deadband)

(* What the order rate lets through never exceeds a bucket that fills all  *)
(* the time, refused requests and late checks included; a clock set back   *)
(* fills it at most once.                                                  *)
OrderRateHolds == quota >= 0 /\ bucket.tokens <= quota
=============================================================================
