------------------------ MODULE CircuitBreaker_proofs ------------------------
(***************************************************************************)
(* Proofs about the circuit breaker, for any set of callers and any        *)
(* thresholds and cooldowns.                                               *)
(***************************************************************************)
EXTENDS CircuitBreaker, TLAPS

(* What the safety properties of the breaker need: the first two are       *)
(* inductive together with the variables' types.                           *)
BreakerInv == TypeOK /\ OpenAdmitsNobody /\ ClosedBelowThreshold

USE BreakerAssumption

-----------------------------------------------------------------------------
(* Marking the callers in flight at an opening keeps them up to date: they *)
(* are in flight, and while the breaker stays open they are all there are. *)
LEMMA MarkKeeps ==
  ASSUME BreakerInv, Mark, inflight' \subseteq inflight
  PROVE  /\ inflight' \subseteq Callers /\ early' \subseteq inflight'
         /\ OpenAdmitsNobody'
<1>1. early' \subseteq inflight' /\ inflight' \subseteq Callers
  BY DEF BreakerInv, TypeOK, Mark
<1>2. ASSUME state' = "Open" PROVE inflight' = early'
  <2>1. CASE state = "Open"
    BY <1>2, <2>1 DEF BreakerInv, OpenAdmitsNobody, Mark
  <2>2. CASE state # "Open"
    BY <1>2, <2>2 DEF Mark
  <2>3. QED
    BY <2>1, <2>2
<1>3. QED
  BY <1>1, <1>2 DEF OpenAdmitsNobody

(* The part of the types and ClosedBelowThreshold that an operation of the    *)
(* type keeps, whoever calls it.                                           *)
InnerOK == /\ state \in {"Closed", "Open", "HalfOpen"}
           /\ failures \in 0..MaxFailures
           /\ elapsed \in (-MaxBackstep)..MaxElapsed
           /\ threshold \in Thresholds /\ cooldown \in Cooldowns
           /\ ClosedBelowThreshold

LEMMA OperationsKeepInner ==
  ASSUME InnerOK,
         \/ Admit \/ Success \/ Failure \/ Trip \/ Reset
         \/ \E t \in Thresholds, c \in Cooldowns : SetParams(t, c)
         \/ Tick \/ ClockBack \/ UNCHANGED breakerVars
  PROVE  InnerOK'
<1> USE DEF InnerOK, ClosedBelowThreshold
<1>1. CASE Admit
  BY <1>1 DEF Admit
<1>2. CASE Success \/ Reset
  BY <1>2 DEF Success, Reset, Close
<1>3. CASE Failure
  <2>1. failures' \in 0..MaxFailures
    BY <1>3 DEF Failure
  <2>2. CASE failures' >= threshold \/ state = "HalfOpen"
    BY <1>3, <2>1, <2>2 DEF Failure, Open
  <2>3. CASE ~(failures' >= threshold \/ state = "HalfOpen")
    <3>1. failures' < threshold'
      BY <1>3, <2>1, <2>3 DEF Failure
    <3>2. QED
      BY <1>3, <2>1, <2>3, <3>1 DEF Failure
  <2>4. QED
    BY <2>2, <2>3
<1>4. CASE Trip
  <2>1. threshold < MaxFailures /\ threshold \in Nat
    OBVIOUS
  <2>2. QED
    BY <1>4, <2>1 DEF Trip, Open
<1>5. CASE \E t \in Thresholds, c \in Cooldowns : SetParams(t, c)
  BY <1>5 DEF SetParams
<1>6. CASE Tick \/ ClockBack
  BY <1>6 DEF Tick, ClockBack
<1>7. CASE UNCHANGED breakerVars
  BY <1>7 DEF breakerVars
<1>8. QED
  BY <1>1, <1>2, <1>3, <1>4, <1>5, <1>6, <1>7

LEMMA InitBreakerInv == Init => BreakerInv
<1>1. Init => isOpen \in BOOLEAN
  BY Zenon DEF Init
<1>2. QED
  BY <1>1 DEF Init, BreakerInv, TypeOK, OpenAdmitsNobody, ClosedBelowThreshold

LEMMA BreakerInvStep ==
  ASSUME BreakerInv, [Next]_vars PROVE BreakerInv'
<1>0. isOpen' \in BOOLEAN
  <2>1. isOpen \in BOOLEAN
    BY DEF BreakerInv, TypeOK
  <2>2. isOpen' = TRUE \/ isOpen' = FALSE \/ isOpen' = isOpen
    BY DEF Next, CanExecute, Admit, Refused, Refuse, RecordSuccess, Success, RecordFailure, Failure,
           Abandon, Operator, Trip, Reset, SetParams, Clock, Tick, ClockBack, Open, Close,
           vars, breakerVars
  <2>3. QED
    BY <2>1, <2>2, Zenon
<1>1. InnerOK'
  <2>1. InnerOK
    BY DEF BreakerInv, TypeOK, InnerOK
  <2>2. \/ Admit \/ Success \/ Failure \/ Trip \/ Reset
        \/ \E t \in Thresholds, c \in Cooldowns : SetParams(t, c)
        \/ Tick \/ ClockBack \/ UNCHANGED breakerVars
    BY DEF Next, CanExecute, Refused, Refuse, RecordSuccess, RecordFailure, Abandon,
           Operator, Clock, vars
  <2>3. QED
    BY <2>1, <2>2, OperationsKeepInner
<1>2. /\ inflight' \subseteq Callers /\ early' \subseteq inflight'
      /\ OpenAdmitsNobody'
  <2>1. CASE \E c \in Callers : CanExecute(c)
    <3>1. state' # "Open"
      BY <2>1 DEF CanExecute, Admit
    <3>2. QED
      BY <2>1, <3>1 DEF CanExecute, BreakerInv, TypeOK, OpenAdmitsNobody
  <2>2. CASE \E c \in Callers : RecordSuccess(c) \/ RecordFailure(c) \/ Abandon(c)
    <3>1. Mark /\ inflight' \subseteq inflight
      BY <2>2 DEF RecordSuccess, RecordFailure, Abandon, Done
    <3>2. QED
      BY <3>1, MarkKeeps
  <2>3. CASE Operator
    <3>1. Mark /\ inflight' \subseteq inflight
      BY <2>3 DEF Operator
    <3>2. QED
      BY <3>1, MarkKeeps
  <2>4. CASE (\E c \in Callers : Refused(c)) \/ Clock \/ UNCHANGED vars
    <3>1. UNCHANGED <<state, inflight, early>>
      BY <2>4 DEF Refused, Refuse, Clock, Tick, ClockBack, vars, breakerVars
    <3>2. QED
      BY <3>1 DEF BreakerInv, TypeOK, OpenAdmitsNobody
  <2>5. QED
    BY <2>1, <2>2, <2>3, <2>4 DEF Next
<1>3. QED
  BY <1>0, <1>1, <1>2 DEF BreakerInv, TypeOK, InnerOK

(* The breaker's variables keep their types, whatever its callers, its     *)
(* operator and the clock do.                                              *)
THEOREM TypeCorrect == Spec => []TypeOK
<1>1. BreakerInv => TypeOK
  BY DEF BreakerInv
<1>2. QED
  BY <1>1, InitBreakerInv, BreakerInvStep, PTL DEF Spec

(* An open breaker admits nobody, however reports, operator commands and   *)
(* parameter changes of any number of callers interleave; a closed one has *)
(* seen fewer failures than the largest threshold.                         *)
THEOREM BreakerHolds == Spec => [](OpenAdmitsNobody /\ ClosedBelowThreshold)
<1>1. Init => BreakerInv
  BY InitBreakerInv
<1>2. BreakerInv => OpenAdmitsNobody /\ ClosedBelowThreshold
  BY DEF BreakerInv
<1>3. QED
  BY <1>1, <1>2, BreakerInvStep, PTL DEF Spec

(* An open breaker closes by an operator's reset or by the success of a    *)
(* caller that was in flight when it opened, and by nothing else.          *)
THEOREM ClosesOnlyLate == Spec => OpenClosesOnlyLate
<1>1. ASSUME BreakerInv, [Next]_vars, state = "Open", state' = "Closed"
      PROVE  \/ Reset /\ UNCHANGED inflight
             \/ \E c \in early : RecordSuccess(c)
  <2>1. CASE \E c \in Callers : RecordSuccess(c)
    <3>1. PICK c \in Callers : RecordSuccess(c)
      BY <2>1
    <3>2. c \in early
      BY <1>1, <3>1 DEF RecordSuccess, Done, BreakerInv, OpenAdmitsNobody
    <3>3. QED
      BY <3>1, <3>2
  <2>2. CASE Operator
    BY <1>1, <2>2 DEF Operator, Trip, Open, SetParams
  <2>3. CASE ~(Operator \/ \E c \in Callers : RecordSuccess(c))
    BY <1>1, <2>3 DEF Next, CanExecute, Admit, Refused, Refuse, RecordFailure, Failure, Open,
                      Abandon, Clock, Tick, ClockBack, vars, breakerVars
  <2>4. QED
    BY <2>1, <2>2, <2>3
<1>2. BreakerInv /\ [Next]_vars
        => [state = "Open" /\ state' = "Closed" =>
              \/ Reset /\ UNCHANGED inflight
              \/ \E c \in early : RecordSuccess(c)]_vars
  BY <1>1
<1>3. Init => BreakerInv
  BY InitBreakerInv
<1>4. QED
  BY <1>2, <1>3, BreakerInvStep, PTL DEF Spec, OpenClosesOnlyLate
=============================================================================
