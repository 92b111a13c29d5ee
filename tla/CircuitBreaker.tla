--------------------------- MODULE CircuitBreaker ---------------------------
(***************************************************************************)
(* The circuit breaker of the gateway crate (circuit_breaker.rs): a state, *)
(* a failure counter and the time of the last trip, all under one mutex,   *)
(* with the threshold and the cooldown in atomics beside it that the       *)
(* control plane stores into at any time.                                  *)
(*                                                                         *)
(* A caller asks can_execute, works outside the mutex, and reports the     *)
(* outcome later; between the two the breaker may have opened, been reset  *)
(* or been retuned by somebody else.                                       *)
(***************************************************************************)
EXTENDS Integers

CONSTANTS
  Callers,      \* threads that ask, submit and report
  Thresholds,   \* values the control plane may store as failure_threshold
  Cooldowns,    \* values it may store as cooldown_ms
  MaxFailures,  \* the failure counter saturates here, above every threshold
  MaxElapsed,   \* the age of a trip saturates here, above every cooldown
  MaxBackstep   \* how far the wall clock may fall behind the trip time

ASSUME BreakerAssumption ==
  /\ Thresholds # {} /\ Thresholds \subseteq Nat
  /\ Cooldowns # {} /\ Cooldowns \subseteq Nat
  /\ MaxFailures \in Nat /\ \A t \in Thresholds : t < MaxFailures
  /\ MaxElapsed \in Nat /\ \A c \in Cooldowns : c < MaxElapsed
  /\ MaxBackstep \in Nat

VARIABLES
  state,      \* Inner.state
  failures,   \* Inner.failures
  elapsed,    \* wall clock now minus Inner.tripped_at_ns, in ms
  isOpen,     \* the is_open atomic the telemetry reads without the mutex
  threshold,  \* failure_threshold
  cooldown,   \* cooldown_ms
  inflight,   \* callers admitted by can_execute that have not reported yet
  early       \* those of them that were admitted before the last opening

breakerVars == <<state, failures, elapsed, isOpen, threshold, cooldown>>
vars == <<breakerVars, inflight, early>>

-----------------------------------------------------------------------------
(* The operations of the type, each one critical section of the mutex.     *)

\* inner.state = Open, inner.tripped_at_ns = now
Open == /\ state' = "Open"
        /\ isOpen' = TRUE
        /\ elapsed' = 0

Close == /\ state' = "Closed"
         /\ failures' = 0
         /\ isOpen' = FALSE
         /\ UNCHANGED <<elapsed, threshold, cooldown>>

\* Mutant: the age, in milliseconds, is compared as if in nanoseconds.
CooldownInNanoseconds == elapsed \div 1000000 > cooldown

\* An Open breaker whose cooldown is over turns half-open by being asked.
CooldownOver == elapsed > cooldown

\* Mutant: an admission after the cooldown leaves the breaker open.
AdmitWithoutHalfOpen ==
  /\ state = "Open" => CooldownOver
  /\ UNCHANGED breakerVars

AdmitCloses ==
  /\ state = "Open" => CooldownOver
  /\ state' = IF state = "Open" THEN "Closed" ELSE state
  /\ isOpen' = FALSE
  /\ UNCHANGED <<failures, elapsed, threshold, cooldown>>

Admit == /\ \/ /\ state \in {"Closed", "HalfOpen"}
               /\ UNCHANGED <<state, isOpen>>
            \/ /\ state = "Open" /\ CooldownOver
               /\ state' = "HalfOpen"
               /\ isOpen' = FALSE
         /\ UNCHANGED <<failures, elapsed, threshold, cooldown>>

Refuse == /\ state = "Open" /\ ~CooldownOver
          /\ UNCHANGED breakerVars

Success == Close

Failure ==
  /\ failures' = IF failures < MaxFailures THEN failures + 1 ELSE failures
  /\ IF failures' >= threshold \/ state = "HalfOpen"
       THEN Open
       ELSE UNCHANGED <<state, isOpen, elapsed>>
  /\ UNCHANGED <<threshold, cooldown>>

Trip == /\ Open
        /\ failures' = threshold
        /\ UNCHANGED <<threshold, cooldown>>

Reset == Close

SetParams(t, c) == /\ threshold' = t
                   /\ cooldown' = c
                   /\ UNCHANGED <<state, failures, elapsed, isOpen>>

\* The age of a trip only matters up to the longest cooldown.
Tick == /\ elapsed' = IF elapsed < MaxElapsed THEN elapsed + 1 ELSE elapsed
        /\ UNCHANGED <<state, failures, isOpen, threshold, cooldown>>

\* wall_time_ns follows SystemTime, which may step backward; a negative age
\* is what saturating_sub turns into zero.
ClockBack == /\ elapsed > -MaxBackstep
             /\ elapsed' \in (-MaxBackstep)..(elapsed - 1)
             /\ UNCHANGED <<state, failures, isOpen, threshold, cooldown>>

-----------------------------------------------------------------------------
(* Callers, the control plane and the clock.                               *)

CanExecute(c) == /\ c \notin inflight
                 /\ Admit
                 /\ inflight' = inflight \cup {c}
                 /\ UNCHANGED early

Refused(c) == c \notin inflight /\ Refuse /\ UNCHANGED <<inflight, early>>

Done(c) == /\ c \in inflight
           /\ inflight' = inflight \ {c}

\* Whoever is in flight when the breaker opens was admitted before that.
Mark == early' = IF state' = "Open" /\ state # "Open"
                    THEN inflight'
                    ELSE early \cap inflight'

RecordSuccess(c) == Done(c) /\ Success /\ Mark
RecordFailure(c) == Done(c) /\ Failure /\ Mark

\* execute_decision returns early (rate limit, duplicate): no outcome.
Abandon(c) == Done(c) /\ UNCHANGED breakerVars /\ Mark

Operator == /\ \/ Trip
               \/ Reset
               \/ \E t \in Thresholds, c \in Cooldowns : SetParams(t, c)
            /\ UNCHANGED inflight /\ Mark

Clock == (Tick \/ ClockBack) /\ UNCHANGED <<inflight, early>>

Init == /\ state = "Closed" /\ failures = 0 /\ isOpen = FALSE
        /\ elapsed = MaxElapsed      \* tripped_at_ns = 0, long ago
        /\ threshold \in Thresholds /\ cooldown \in Cooldowns
        /\ inflight = {} /\ early = {}

Next == \/ \E c \in Callers : \/ CanExecute(c) \/ Refused(c)
                              \/ RecordSuccess(c) \/ RecordFailure(c)
                              \/ Abandon(c)
        \/ Operator
        \/ Clock

Spec == Init /\ [][Next]_vars

(* A caller that keeps being asked keeps asking, the broker answers within *)
(* its 30 s timeout, and time passes.                                      *)
FairSpec == /\ Spec
            /\ WF_vars(Tick /\ UNCHANGED <<inflight, early>>)
            /\ \A c \in Callers : /\ WF_vars(CanExecute(c))
                                  /\ WF_vars(RecordSuccess(c) \/ RecordFailure(c))

-----------------------------------------------------------------------------
TypeOK == /\ state \in {"Closed", "Open", "HalfOpen"}
          /\ failures \in 0..MaxFailures
          /\ elapsed \in (-MaxBackstep)..MaxElapsed
          /\ isOpen \in BOOLEAN
          /\ threshold \in Thresholds /\ cooldown \in Cooldowns
          /\ inflight \subseteq Callers /\ early \subseteq inflight

(* While the breaker is open nobody is in flight but the callers that had  *)
(* been admitted before it opened: no interleaving of reports, operator    *)
(* commands and parameter changes lets a new submission through.           *)
OpenAdmitsNobody == state = "Open" => inflight = early

(* A breaker that reads closed has seen fewer failures since its last      *)
(* success than the largest threshold ever configured, whatever the order  *)
(* of reports, trips, resets and threshold changes.                        *)
ClosedBelowThreshold ==
  state = "Closed" => failures = 0 \/ \E t \in Thresholds : failures < t

(* An open breaker closes only by an operator's reset or by the late       *)
(* success of a submission admitted before it opened; the second undoes an *)
(* operator's trip, which is the one way a trip can be lost.               *)
OpenClosesOnlyLate ==
  [][state = "Open" /\ state' = "Closed" =>
       \/ Reset /\ UNCHANGED inflight
       \/ \E c \in early : RecordSuccess(c)]_vars

(* Once operators leave it alone and the clock does not step back, an open *)
(* breaker is left again: no sequence of outcomes keeps it open for ever.  *)
Recovers ==
  <>[][~(Operator \/ ClockBack)]_vars => []<>(state # "Open")
=============================================================================
