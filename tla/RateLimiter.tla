---------------------------- MODULE RateLimiter ----------------------------
(***************************************************************************)
(* RateLimiter and TokenBucket of the execution crate (rate_limiter.rs).   *)
(* Buckets fill lazily: nothing happens to one until the next request for  *)
(* it, which credits the wall-clock time since its last refill.  The time  *)
(* is a u64 difference, so a wall clock that has stepped back behind the   *)
(* last refill makes it wrap.                                              *)
(*                                                                         *)
(* Tokens are counted in a unit of which an order costs Cost, so that a    *)
(* rate below one order per second is representable; a tick of the clock   *)
(* is 1/Second of a second.  Every bucket the program builds or retunes    *)
(* has max_tokens = refill_rate, a second's worth of tokens.               *)
(***************************************************************************)
EXTENDS Integers

CONSTANTS
  Symbols,
  Rates,        \* rates the configuration and SetRateLimits use, per tick
  Second,       \* ticks in a second
  Cost,         \* tokens an order takes
  Width,        \* the modulus of the time difference
  MaxSetback    \* how far the wall clock may fall behind a refill

ASSUME LimiterAssumption ==
  /\ Rates # {} /\ Rates \subseteq Nat
  /\ Second \in Nat \ {0} /\ Cost \in Nat \ {0}
  /\ MaxSetback \in Nat /\ Width \in Nat /\ Width - MaxSetback > Second

VARIABLES
  global,       \* the bucket shared by all symbols
  perSymbol,    \* per_symbol: a bucket for each symbol seen so far
  defaultRate,  \* default_per_symbol_rate
  steady        \* the wall clock is never set back: a fact of the behaviour

limiterVars == <<global, perSymbol, defaultRate, steady>>

Seen == DOMAIN perSymbol

-----------------------------------------------------------------------------
(* TokenBucket: age is the wall clock now minus last_refill_ns.            *)

NewBucket(r) == [tokens |-> r * Second, rate |-> r, age |-> 0]

Capped(n, cap) == IF n < cap THEN n ELSE cap

\* Mutant: the time of the last refill is not stored.
RefilledKeepsAge(b) ==
  [b EXCEPT !.tokens = Capped(@ + b.rate * (b.age % Width), b.rate * Second)]

Refilled(b) ==
  [b EXCEPT !.tokens = Capped(@ + b.rate * (b.age % Width), b.rate * Second),
            !.age = 0]

Affords(b) == Refilled(b).tokens >= Cost
Spend(b) == [Refilled(b) EXCEPT !.tokens = @ - Cost]
Refund(b) == [b EXCEPT !.tokens = @ + Cost]

\* The bucket a request for s uses, created by its first request.
Bucket(s) == IF s \in Seen THEN perSymbol[s] ELSE NewBucket(defaultRate)

Store(s, b) == perSymbol' = [x \in Seen \cup {s} |-> IF x = s THEN b ELSE perSymbol[x]]

-----------------------------------------------------------------------------
(* The three outcomes of try_consume: the shared bucket is asked first and *)
(* gets its token back when the symbol's bucket refuses.                   *)

Granted(s) == /\ Affords(global) /\ Affords(Bucket(s))
              /\ global' = Spend(global)
              /\ Store(s, Spend(Bucket(s)))
              /\ UNCHANGED <<defaultRate, steady>>

DeniedByGlobal(s) == /\ ~Affords(global)
                     /\ global' = Refilled(global)
                     /\ UNCHANGED <<perSymbol, defaultRate, steady>>

DeniedBySymbol(s) == /\ Affords(global) /\ ~Affords(Bucket(s))
                     /\ global' = Refund(Spend(global))
                     /\ Store(s, Refilled(Bucket(s)))
                     /\ UNCHANGED <<defaultRate, steady>>

TryConsume(s) == Granted(s) \/ DeniedByGlobal(s) \/ DeniedBySymbol(s)

(* SetRateLimits: a fresh global bucket and a new default, under the lock. *)
SetRates(g, p) == /\ global' = NewBucket(g)
                  /\ defaultRate' = p
                  /\ UNCHANGED <<perSymbol, steady>>

\* set_symbol_rate changes rate and capacity and leaves tokens alone.
SetSymbolRate(s, r) ==
  /\ Store(s, IF s \in Seen THEN [perSymbol[s] EXCEPT !.rate = r] ELSE NewBucket(r))
  /\ UNCHANGED <<global, defaultRate, steady>>

\* An age beyond a second fills any bucket: ages saturate there.
Older(b) == [b EXCEPT !.age = Capped(@ + 1, Second)]
Younger(b, d) == [b EXCEPT !.age = IF @ - d < -MaxSetback THEN -MaxSetback ELSE @ - d]

Tick == /\ global' = Older(global)
        /\ perSymbol' = [s \in Seen |-> Older(perSymbol[s])]
        /\ UNCHANGED <<defaultRate, steady>>

\* SystemTime is set back by d ticks.
ClockBack == \E d \in 1..MaxSetback :
               /\ ~steady
               /\ global' = Younger(global, d)
               /\ perSymbol' = [s \in Seen |-> Younger(perSymbol[s], d)]
               /\ UNCHANGED <<defaultRate, steady>>

LimiterInit == /\ \E g \in Rates : global = NewBucket(g)
               /\ perSymbol = [s \in {} |-> NewBucket(0)]
               /\ defaultRate \in Rates
               /\ steady \in BOOLEAN

Operator == \/ \E g, p \in Rates : SetRates(g, p)
            \/ \E s \in Symbols, r \in Rates : SetSymbolRate(s, r)

LimiterNext == \/ \E s \in Symbols : TryConsume(s)
               \/ Operator
               \/ Tick
               \/ ClockBack

LimiterSpec == LimiterInit /\ [][LimiterNext]_limiterVars

-----------------------------------------------------------------------------
Buckets == [tokens : Nat, rate : Rates, age : (-MaxSetback)..Second]

LimiterTypeOK ==
  /\ global \in Buckets
  /\ Seen \subseteq Symbols /\ \A s \in Seen : perSymbol[s] \in Buckets
  /\ defaultRate \in Rates /\ steady \in BOOLEAN
  /\ global.tokens <= global.rate * Second

(* Lazy refilling is not observable where the clock is steady: the limiter *)
(* implements the quota that fills as time passes, so whatever the gaps    *)
(* between requests, an order is let through exactly when the continuously *)
(* filled quotas afford it.  (Where the clock is set back it shows a quota *)
(* that nobody uses: nothing is claimed of it.)                            *)
Level(b) == [level |-> Refilled(b).tokens, rate |-> b.rate]

Unused == Level(NewBucket(CHOOSE r \in Rates : TRUE))

ShownPool  == IF steady THEN Level(global) ELSE Unused
ShownQuota == [s \in Symbols |-> IF steady THEN Level(Bucket(s)) ELSE Unused]

Quota == INSTANCE RateQuota WITH pool <- ShownPool, quota <- ShownQuota

ImplementsQuota == Quota!Spec
=============================================================================
