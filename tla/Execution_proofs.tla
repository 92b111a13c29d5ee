--------------------------- MODULE Execution_proofs ---------------------------
(***************************************************************************)
(* Proofs about the execution thread, for any intents, capacities, retry   *)
(* and breaker parameters, and about the rate limiter it asks, for any     *)
(* symbols, rates and fineness of the clock.                               *)
(***************************************************************************)
EXTENDS Execution, RateLimiter, TLAPS

\* Where the decision in hand has been let through and is not placed yet.
BeforeAnswer == {"pending", "submit", "backoff"}

\* Where the breaker waits for this thread's report.
Admitted == Carrying \ {"gate", "breaker", "failure"}

(* An acknowledged order's intent is marked, or is about to be by a thread *)
(* that still holds it: what makes the duplicate check sufficient.         *)
MarkInv ==
  /\ pc \in BeforeAnswer => cur \notin processed
  /\ \A o \in acked : \/ o[1] \in processed
                      \/ pc \in {"track", "mark"} /\ o = NewestOrder(cur)
  /\ pc \in {"track", "mark"} => NewestOrder(cur) \in acked
  /\ pc = "mark" => NewestOrder(cur) \in openOrders
  /\ pc = "submitted" => cur \in processed
  /\ AcknowledgedAreTracked
  /\ RecordsFollowOrders

(* Calls made since the switch was thrown belong to the decision in hand.  *)
LateInv ==
  /\ lateCalls <= Tries
  /\ pc = "submit" => attempt < Tries
  /\ pc = "backoff" => attempt + 1 < Tries
  /\ killed => /\ pc \in {"breaker", "rate", "dedup", "pending"} => lateCalls = 0
               /\ pc = "submit" => lateCalls <= attempt
               /\ pc = "backoff" => lateCalls <= attempt + 1

(* The thread is in flight, as the breaker sees it, from its admission to  *)
(* its report; whoever is in flight while the breaker is open was there    *)
(* when it opened.                                                         *)
BreakerInv == /\ inflight = IF pc \in Admitted THEN {Exec} ELSE {}
              /\ early \subseteq inflight
              /\ state = "Open" => early = inflight

USE ExecutionAssumption

-----------------------------------------------------------------------------
(* The thread's variables keep their types, whatever it receives.          *)
THEOREM TypeCorrect == Spec => []TypeOK
<1>1. Init => TypeOK
  <2>1. Init => killed \in BOOLEAN /\ handler \in BOOLEAN /\ connected \in BOOLEAN
    BY Zenon DEF Init
  <2>2. QED
    BY <2>1 DEF Init, TypeOK, Steps, Carrying
<1>2. TypeOK /\ [Next]_vars => TypeOK'
  <2> SUFFICES ASSUME TypeOK, [Next]_vars PROVE TypeOK'
    OBVIOUS
  <2> USE DEF TypeOK, Steps, Carrying, thread, input, records, switch, events, broker, Goto, Return
  <2>1. CASE LoopHead
    BY <2>1 DEF LoopHead
  <2>2. CASE Receive
    <3>1. /\ Tail(decisions) \in Seq(Decisions)
          /\ Head(decisions) \in Decisions
      BY <2>2 DEF Receive
    <3>2. Head(decisions).intent \in Intents
      BY <3>1 DEF Decisions
    <3>3. QED
      BY <2>2, <3>1, <3>2 DEF Receive
  <2>3. CASE ReceiveTimeout
    BY <2>3 DEF ReceiveTimeout
  <2>4. CASE SwitchGate
    BY <2>4 DEF SwitchGate
  <2>5. CASE BreakerGate
    BY <2>5 DEF BreakerGate
  <2>6. CASE RateGate
    BY <2>6 DEF RateGate
  <2>7. CASE DuplicateGate
    BY <2>7 DEF DuplicateGate
  <2>8. CASE WritePending
    BY <2>8 DEF WritePending, TryWrite, Entries
  <2>9. CASE SubmitOk
    BY <2>9 DEF SubmitOk, Called, Accepted
  <2>10. CASE SubmitUnanswered
    BY <2>10 DEF SubmitUnanswered, Called, Accepted, TransientError
  <2>11. CASE SubmitRefused
    BY <2>11 DEF SubmitRefused, Called, Accepted
  <2>12. CASE Backoff
    BY <2>12 DEF Backoff
  <2>13. CASE Track
    BY <2>13 DEF Track, NewestOrder
  <2>14. CASE MarkProcessed
    BY <2>14 DEF MarkProcessed
  <2>15. CASE WriteSubmitted
    BY <2>15 DEF WriteSubmitted, TryWrite, Entries
  <2>16. CASE Notify
    BY <2>16 DEF Notify
  <2>17. CASE Success
    BY <2>17 DEF Success
  <2>18. CASE Failed
    BY <2>18 DEF Failed
  <2>19. CASE WriteFailed
    BY <2>19 DEF WriteFailed, TryWrite, Entries
  <2>20. CASE Drain
    BY <2>20 DEF Drain
  <2>21. CASE HandleEvent
    BY <2>21 DEF HandleEvent
  <2>22. CASE HandlerExit
    <3>1. handler' \in BOOLEAN /\ killed' \in BOOLEAN
      BY <2>22, Zenon DEF HandlerExit
    <3>2. QED
      BY <2>22, <3>1 DEF HandlerExit
  <2>23. CASE Environment
    <3>1. CASE \E i \in Intents, ok \in BOOLEAN : Decide(i, ok)
      BY <3>1 DEF Decide, Decisions
    <3>2. CASE Disconnect \/ Refill \/ Activate \/ Clear \/ BreakerOperator \/ BreakerClock
      <4>1. killed' \in BOOLEAN /\ connected' \in BOOLEAN
        BY <3>2, Zenon DEF Disconnect, Refill, Activate, Clear, BreakerOperator, BreakerClock
      <4>2. QED
        BY <3>2, <4>1, SMTT(20) DEF Disconnect, Refill, Activate, Clear, BreakerOperator, BreakerClock
    <3>3. QED
      BY <2>23, <3>1, <3>2 DEF Environment
  <2>24. CASE UNCHANGED vars
    BY <2>24 DEF vars
  <2>25. QED
    BY <2>1, <2>2, <2>3, <2>4, <2>5, <2>6, <2>7, <2>8, <2>9, <2>10, <2>11, <2>12, <2>13,
       <2>14, <2>15, <2>16, <2>17, <2>18, <2>19, <2>20, <2>21, <2>22, <2>23, <2>24
       DEF Next, ThreadStep, Submit
<1>3. QED
  BY <1>1, <1>2, PTL DEF Spec

-----------------------------------------------------------------------------
(* Steps that touch neither the records nor the orders and do not move the *)
(* thread to or from a step MarkInv speaks of.                             *)
Quiet == /\ UNCHANGED <<processed, journal, openOrders, orders, acked>>
         /\ \/ UNCHANGED <<pc, cur>>
            \/ /\ pc \notin {"track", "mark"}
               /\ pc' \notin BeforeAnswer \cup {"track", "mark", "submitted"}

LEMMA QuietSteps ==
  ASSUME \/ LoopHead \/ Receive \/ ReceiveTimeout \/ SwitchGate \/ BreakerGate
         \/ RateGate \/ Notify \/ Success \/ Failed \/ Drain
         \/ HandleEvent \/ HandlerExit \/ Environment \/ UNCHANGED vars
  PROVE Quiet
<1> USE DEF Quiet, BeforeAnswer, Goto, Return, records, switch, broker, thread
<1>1. CASE LoopHead \/ ReceiveTimeout \/ SwitchGate
  BY <1>1 DEF LoopHead, ReceiveTimeout, SwitchGate
<1>2. CASE Receive \/ BreakerGate \/ RateGate
  BY <1>2 DEF Receive, BreakerGate, RateGate
<1>3. CASE Notify \/ Success \/ Failed \/ Drain
  BY <1>3 DEF Notify, Success, Failed, Drain
<1>4. CASE HandleEvent \/ HandlerExit \/ UNCHANGED vars
  BY <1>4 DEF HandleEvent, HandlerExit, vars
<1>5. CASE Environment
  BY <1>5 DEF Environment, Decide, Disconnect, Refill, Activate, Clear, BreakerOperator, BreakerClock
<1>6. QED
  BY <1>1, <1>2, <1>3, <1>4, <1>5

LEMMA QuietKeepsMarkInv ==
  ASSUME MarkInv, Quiet PROVE MarkInv'
BY DEF MarkInv, Quiet, BeforeAnswer, NewestOrder, AcknowledgedAreTracked, RecordsFollowOrders

LEMMA MarkInvStep ==
  ASSUME TypeOK, MarkInv, [Next]_vars PROVE MarkInv'
<1> USE DEF Goto, Return, records, switch, broker, thread, NewestOrder
<1>1. CASE DuplicateGate
  BY <1>1 DEF DuplicateGate, MarkInv, BeforeAnswer, AcknowledgedAreTracked, RecordsFollowOrders
<1>2. CASE WritePending \/ WriteFailed
  <2>1. /\ UNCHANGED <<processed, openOrders, orders, acked>>
        /\ \A e \in journal' : e.status = "Submitted" => e \in journal
    BY <1>2 DEF WritePending, WriteFailed, TryWrite
  <2>2. QED
    BY <1>2, <2>1 DEF WritePending, WriteFailed, MarkInv, BeforeAnswer, AcknowledgedAreTracked, RecordsFollowOrders
<1>3. CASE SubmitOk
  <2>1. /\ cur \in Intents /\ orders' \in [Intents -> Nat]
        /\ orders'[cur] = orders[cur] + 1
        /\ UNCHANGED <<cur, processed, journal, openOrders>>
        /\ pc = "submit" /\ pc' = "track"
        /\ acked' = acked \cup {<<cur, orders'[cur]>>}
    BY <1>3 DEF SubmitOk, Accepted, TypeOK, Carrying, Steps
  <2>2. \A o \in acked : o[1] \in processed /\ o \in openOrders
    BY <2>1 DEF MarkInv, AcknowledgedAreTracked
  <2>3. QED
    BY <2>1, <2>2 DEF MarkInv, BeforeAnswer, AcknowledgedAreTracked, RecordsFollowOrders
<1>4. CASE SubmitUnanswered \/ SubmitRefused \/ Backoff
  <2>1. /\ UNCHANGED <<cur, processed, journal, openOrders, acked>>
        /\ pc \in BeforeAnswer /\ pc' \in {"backoff", "failed", "submit"}
    BY <1>4 DEF SubmitUnanswered, SubmitRefused, Backoff, TransientError, BeforeAnswer
  <2>2. QED
    BY <2>1 DEF MarkInv, BeforeAnswer, AcknowledgedAreTracked, RecordsFollowOrders
<1>5. CASE Track
  BY <1>5 DEF Track, MarkInv, BeforeAnswer, AcknowledgedAreTracked, RecordsFollowOrders
<1>6. CASE MarkProcessed
  <2>1. /\ NewestOrder(cur) \in openOrders /\ NewestOrder(cur)[1] = cur
        /\ pc' = "submitted" /\ processed' = processed \cup {cur}
        /\ UNCHANGED <<cur, journal, openOrders, acked, orders>>
    BY <1>6 DEF MarkProcessed, MarkInv
  <2>2. QED
    BY <1>6, <2>1 DEF MarkProcessed, MarkInv, BeforeAnswer, AcknowledgedAreTracked, RecordsFollowOrders
<1>7. CASE WriteSubmitted
  <2>1. /\ UNCHANGED <<processed, openOrders, orders, acked>>
        /\ pc = "submitted" /\ pc' = "notify"
        /\ \A e \in journal' : e \in journal \/ e.intent = cur
    BY <1>7 DEF WriteSubmitted, TryWrite
  <2>2. QED
    BY <2>1 DEF MarkInv, BeforeAnswer, AcknowledgedAreTracked, RecordsFollowOrders
<1>8. QED
  BY <1>1, <1>2, <1>3, <1>4, <1>5, <1>6, <1>7, QuietSteps, QuietKeepsMarkInv
     DEF Next, ThreadStep, Submit

(* Every acknowledged order is marked, tracked, or in the hand of the      *)
(* thread that is about to do both.                                        *)
THEOREM MarkCorrect == Spec => []MarkInv
<1>1. Init => MarkInv
  BY DEF Init, MarkInv, BeforeAnswer, AcknowledgedAreTracked, RecordsFollowOrders
<1>2. QED
  BY <1>1, MarkInvStep, TypeCorrect, PTL DEF Spec

(* An acknowledged order never escapes the kill switch's list, and the     *)
(* records never run ahead of it: invariants of every execution thread.    *)
THEOREM TrackedOrders == Spec => [](AcknowledgedAreTracked /\ RecordsFollowOrders)
<1>1. MarkInv => AcknowledgedAreTracked /\ RecordsFollowOrders
  BY DEF MarkInv
<1>2. QED
  BY <1>1, MarkCorrect, PTL

-----------------------------------------------------------------------------
(* Only a submission changes what the broker holds or has acknowledged.    *)
LEMMA OtherStepsKeepOrders ==
  ASSUME [Next]_vars, ~Submit PROVE UNCHANGED <<orders, acked>>
<1> USE DEF broker
<1>1. CASE LoopHead \/ Receive \/ ReceiveTimeout \/ SwitchGate \/ BreakerGate \/ RateGate
           \/ Notify \/ Success \/ Failed \/ Drain \/ HandleEvent \/ HandlerExit
           \/ Environment \/ UNCHANGED vars
  BY <1>1, QuietSteps DEF Quiet
<1>2. CASE DuplicateGate \/ WritePending \/ Backoff \/ Track \/ MarkProcessed
           \/ WriteSubmitted \/ WriteFailed
  BY <1>2 DEF DuplicateGate, WritePending, Backoff, Track, MarkProcessed, WriteSubmitted, WriteFailed
<1>3. QED
  BY <1>1, <1>2 DEF Next, ThreadStep

(* At a submission the intent in hand has no acknowledged order: every     *)
(* such order's intent is marked, and the duplicate check passed.          *)
LEMMA UnplacedAtSubmit ==
  ASSUME TypeOK, MarkInv, pc = "submit" PROVE cur \in Intents /\ cur \notin Placed
BY DEF TypeOK, MarkInv, Placed, BeforeAnswer, Carrying, Steps

(* Once an acknowledgement has come back, the intent's order count never   *)
(* changes again: the thread implements the submission contract, for any   *)
(* intents, retries, channel capacities and breaker behaviour.             *)
THEOREM SubmissionImplemented == Spec => ImplementsSubmission
<1>1. Init => Submission!Init
  BY DEF Init, Submission!Init, Placed
<1>2. TypeOK /\ MarkInv /\ [Next]_vars => [Submission!Next]_(Submission!vars)
  <2> SUFFICES ASSUME TypeOK, MarkInv, [Next]_vars
               PROVE [Submission!Next]_(Submission!vars)
    OBVIOUS
  <2>1. CASE SubmitOk
    <3>1. /\ cur \in Intents /\ cur \notin Placed
          /\ orders' = [orders EXCEPT ![cur] = @ + 1]
          /\ acked' = acked \cup {<<cur, orders'[cur]>>}
      BY <2>1, UnplacedAtSubmit DEF SubmitOk, Accepted
    <3>2. Placed' = Placed \cup {cur}
      <4> DEFINE new == <<cur, orders'[cur]>>
      <4>0. new[1] = cur /\ acked' = acked \cup {new}
        BY <3>1
      <4> HIDE DEF new
      <4>1. \A i : i \in Placed' <=> \E o \in acked' : o[1] = i
        BY DEF Placed
      <4>2. \A i : i \in Placed <=> \E o \in acked : o[1] = i
        BY DEF Placed
      <4>3. \A i : (\E o \in acked' : o[1] = i) <=> (i = cur \/ \E o \in acked : o[1] = i)
        BY <4>0
      <4>4. QED
        BY <4>1, <4>2, <4>3
    <3>3. QED
      BY <3>1, <3>2 DEF Submission!Next, Submission!Place
  <2>2. CASE SubmitUnanswered \/ SubmitRefused
    <3>1. /\ cur \in Intents /\ cur \notin Placed
          /\ \/ orders' = [orders EXCEPT ![cur] = @ + 1]
             \/ UNCHANGED orders
          /\ UNCHANGED Placed
      BY <2>2, UnplacedAtSubmit DEF SubmitUnanswered, SubmitRefused, Accepted, Placed
    <3>2. QED
      BY <3>1 DEF Submission!Next, Submission!PlaceUnheard, Submission!vars
  <2>3. CASE ~Submit
    BY <2>3, OtherStepsKeepOrders DEF Submission!vars, Placed
  <2>4. QED
    BY <2>1, <2>2, <2>3 DEF Submit
<1>3. QED
  BY <1>1, <1>2, TypeCorrect, MarkCorrect, PTL
     DEF Spec, ImplementsSubmission, Submission!Spec

-----------------------------------------------------------------------------
LEMMA TriesPositive == Tries \in Nat /\ Tries >= 1 /\ Tries >= MaxRetries
BY DEF Tries

LEMMA LateInvStep ==
  ASSUME TypeOK, LateInv, [Next]_vars PROVE LateInv'
<1> USE TriesPositive DEF Goto, Return, switch, broker, thread, LateInv, TypeOK
<1>1. CASE LoopHead \/ Receive \/ ReceiveTimeout \/ SwitchGate \/ BreakerGate \/ RateGate
  BY <1>1 DEF LoopHead, Receive, ReceiveTimeout, SwitchGate, BreakerGate, RateGate
<1>2. CASE DuplicateGate \/ WritePending
  BY <1>2 DEF DuplicateGate, WritePending
<1>3. CASE SubmitOk \/ SubmitRefused
  BY <1>3 DEF SubmitOk, SubmitRefused, Called
<1>4. CASE SubmitUnanswered
  BY <1>4 DEF SubmitUnanswered, Called, TransientError
<1>5. CASE Backoff
  BY <1>5 DEF Backoff
<1>6. CASE Track \/ MarkProcessed \/ WriteSubmitted \/ Notify \/ Success
           \/ Failed \/ WriteFailed \/ Drain
  BY <1>6 DEF Track, MarkProcessed, WriteSubmitted, Notify, Success, Failed, WriteFailed, Drain
<1>7. CASE Activate \/ Clear
  BY <1>7 DEF Activate, Clear
<1>8. CASE HandleEvent \/ HandlerExit \/ Environment \/ UNCHANGED vars
  <2>1. CASE Activate \/ Clear
    BY <2>1, <1>7
  <2>2. CASE ~(Activate \/ Clear)
    <3>1. UNCHANGED <<pc, attempt, killed, lateCalls>>
      BY <1>8, <2>2 DEF HandleEvent, HandlerExit, vars, Environment, Decide, Disconnect,
                        Refill, BreakerOperator, BreakerClock
    <3>2. QED
      BY <3>1
  <2>3. QED
    BY <2>1, <2>2
<1>9. QED
  BY <1>1, <1>2, <1>3, <1>4, <1>5, <1>6, <1>8 DEF Next, ThreadStep, Submit

(* A thrown kill switch lets through at most the retries of the decision   *)
(* in hand, for any number of retries and any queue.                       *)
THEOREM LateCalls == Spec => []LateCallsBounded
<1>1. Init => LateInv
  BY TriesPositive DEF Init, LateInv
<1>2. LateInv => LateCallsBounded
  BY DEF LateInv, LateCallsBounded
<1>3. QED
  BY <1>1, <1>2, LateInvStep, TypeCorrect, PTL DEF Spec

-----------------------------------------------------------------------------
(* Marking who was in flight at an opening keeps BreakerInv's second part. *)
LEMMA MarkKeeps ==
  ASSUME BreakerInv, CB!Mark, inflight' = inflight \/ inflight' = inflight \ {Exec}
  PROVE  /\ early' \subseteq inflight'
         /\ state' = "Open" => early' = inflight'
BY DEF BreakerInv, CB!Mark

(* An admission never leaves the breaker open.                             *)
LEMMA BreakerAdmits ==
  ASSUME CB!CanExecute(Exec)
  PROVE  inflight' = inflight \cup {Exec} /\ early' = early /\ state' # "Open"
BY DEF CB!CanExecute, CB!Admit

(* A report or an early return takes the thread out of flight.             *)
LEMMA BreakerReport ==
  ASSUME BreakerInv, CB!RecordSuccess(Exec) \/ CB!RecordFailure(Exec) \/ CB!Abandon(Exec)
  PROVE  /\ inflight' = inflight \ {Exec} /\ early' \subseteq inflight'
         /\ state' = "Open" => early' = inflight'
<1>1. CB!Mark /\ inflight' = inflight \ {Exec}
  BY DEF CB!RecordSuccess, CB!RecordFailure, CB!Abandon, CB!Done
<1>2. QED
  BY <1>1, MarkKeeps

(* Operators and the clock do not change who is in flight.                 *)
LEMMA BreakerOthers ==
  ASSUME BreakerInv, CB!Operator \/ CB!Clock
  PROVE  /\ inflight' = inflight /\ early' \subseteq inflight'
         /\ state' = "Open" => early' = inflight'
<1>1. CASE CB!Operator
  <2>1. CB!Mark /\ inflight' = inflight
    BY <1>1 DEF CB!Operator
  <2>2. QED
    BY <2>1, MarkKeeps
<1>2. CASE CB!Clock
  BY <1>2 DEF CB!Clock, CB!Tick, CB!ClockBack, BreakerInv
<1>3. QED
  BY <1>1, <1>2

LEMMA BreakerInvStep ==
  ASSUME TypeOK, BreakerInv, [Next]_vars PROVE BreakerInv'
<1> USE DEF Goto, Return, thread, breaker, BreakerInv, Admitted, Carrying, Steps, TypeOK
<1>1. CASE LoopHead \/ ReceiveTimeout \/ SwitchGate
  BY <1>1 DEF LoopHead, ReceiveTimeout, SwitchGate
<1>2. CASE Receive
  BY <1>2 DEF Receive
<1>3. CASE BreakerGate
  <2>1. CASE CB!CanExecute(Exec) /\ Goto("rate")
    BY <1>3, <2>1, BreakerAdmits DEF BreakerGate
  <2>2. CASE CB!Refused(Exec) /\ Return
    BY <1>3, <2>2 DEF BreakerGate, CB!Refused, CB!Refuse, CB!breakerVars
  <2>3. QED
    BY <1>3, <2>1, <2>2 DEF BreakerGate
<1>4. CASE RateGate \/ DuplicateGate
  <2>1. CASE Return /\ CB!Abandon(Exec)
    <3>1. /\ inflight' = inflight \ {Exec} /\ early' \subseteq inflight'
          /\ state' = "Open" => early' = inflight'
      BY <2>1, BreakerReport
    <3>2. QED
      BY <2>1, <3>1
  <2>2. CASE ~(Return /\ CB!Abandon(Exec))
    <3>1. UNCHANGED <<state, inflight, early>> /\ pc \in {"rate", "dedup"}
      BY <1>4, <2>2 DEF RateGate, DuplicateGate
    <3>2. pc' \in {"dedup", "pending"}
      BY <1>4, <2>2, Zenon DEF RateGate, DuplicateGate
    <3>3. QED
      BY <3>1, <3>2
  <2>3. QED
    BY <1>4, <2>1, <2>2 DEF RateGate, DuplicateGate
<1>5. CASE WritePending \/ Submit \/ Backoff
  BY <1>5 DEF WritePending, Submit, SubmitOk, SubmitUnanswered, SubmitRefused, TransientError, Backoff
<1>6. CASE Track \/ MarkProcessed \/ WriteSubmitted \/ Notify
  BY <1>6 DEF Track, MarkProcessed, WriteSubmitted, Notify
<1>7. CASE Success \/ Failed
  <2>1. /\ CB!RecordSuccess(Exec) \/ CB!RecordFailure(Exec)
        /\ pc' \in {"head", "failure"}
    BY <1>7 DEF Success, Failed
  <2>2. /\ inflight' = inflight \ {Exec} /\ early' \subseteq inflight'
        /\ state' = "Open" => early' = inflight'
    BY <2>1, BreakerReport
  <2>3. QED
    BY <2>1, <2>2
<1>8. CASE WriteFailed \/ Drain \/ HandleEvent \/ HandlerExit \/ UNCHANGED vars
  BY <1>8 DEF WriteFailed, Drain, HandleEvent, HandlerExit, vars
<1>9. CASE BreakerOperator \/ BreakerClock
  <2>1. UNCHANGED pc
    BY <1>9 DEF BreakerOperator, BreakerClock
  <2>2. /\ inflight' = inflight /\ early' \subseteq inflight'
        /\ state' = "Open" => early' = inflight'
    BY <1>9, BreakerOthers DEF BreakerOperator, BreakerClock
  <2>3. QED
    BY <2>1, <2>2
<1>10. CASE Environment
  <2>1. CASE BreakerOperator \/ BreakerClock
    BY <2>1, <1>9
  <2>2. CASE ~(BreakerOperator \/ BreakerClock)
    BY <1>10, <2>2 DEF Environment, Decide, Disconnect, Refill, Activate, Clear
  <2>3. QED
    BY <2>1, <2>2
<1>11. QED
  BY <1>1, <1>2, <1>3, <1>4, <1>5, <1>6, <1>7, <1>8, <1>10 DEF Next, ThreadStep

(* An open breaker holds back every decision but one that was let through  *)
(* before it opened, for any thresholds, cooldowns and operator commands.  *)
THEOREM BreakerHoldsBack == Spec => []OpenBreakerHoldsBack
<1>1. Init => BreakerInv
  BY DEF Init, CB!Init, BreakerInv, Admitted, Carrying, Steps
<1>2. BreakerInv => OpenBreakerHoldsBack
  BY DEF BreakerInv, OpenBreakerHoldsBack, Admitted, Carrying, Steps
<1>3. QED
  BY <1>1, <1>2, BreakerInvStep, TypeCorrect, PTL DEF Spec

-----------------------------------------------------------------------------
(* The rate limiter: refilling on demand shows what refilling all the time *)
(* would.                                                                  *)

\* A bucket whose clock is not behind its last refill.
Ripe == [tokens : Nat, rate : Rates, age : 0..Second]

(* What a bucket earns: tokens for each tick, and for no more than a       *)
(* second.                                                                 *)
LEMMA Earnings ==
  ASSUME NEW r \in Nat, NEW a \in 0..Second
  PROVE  /\ r * a \in Nat /\ r * Second \in Nat /\ r * 0 = 0
         /\ r * (a + 1) = r * a + r
         /\ r * a <= r * Second
         /\ a % Width = a
<1> USE LimiterAssumption
<1>1. r * a \in Nat /\ r * Second \in Nat /\ r * 0 = 0 /\ r * (a + 1) = r * a + r
  OBVIOUS
<1>2. r * a <= r * Second
  <2>1. r * (Second - a) \in Nat /\ r * Second = r * a + r * (Second - a)
    OBVIOUS
  <2>2. QED
    BY <1>1, <2>1
<1>3. a % Width = a
  OBVIOUS
<1>4. QED
  BY <1>1, <1>2, <1>3

(* The level of a bucket under a steady clock, in plain arithmetic.        *)
LEMMA LevelOf ==
  ASSUME NEW b \in Ripe
  PROVE  /\ Refilled(b) = [tokens |-> Capped(b.tokens + b.rate * b.age, b.rate * Second),
                           rate |-> b.rate, age |-> 0]
         /\ Level(b) = [level |-> Capped(b.tokens + b.rate * b.age, b.rate * Second),
                        rate |-> b.rate]
         /\ Refilled(b) \in Ripe
         /\ Refilled(b).tokens <= b.rate * Second
<1>1. b.rate \in Nat /\ b.age \in 0..Second /\ b.tokens \in Nat
  BY LimiterAssumption DEF Ripe
<1>2. b.rate * b.age \in Nat /\ b.rate * Second \in Nat /\ b.age % Width = b.age
  BY <1>1, Earnings
<1>3. Refilled(b) = [tokens |-> Capped(b.tokens + b.rate * b.age, b.rate * Second),
                     rate |-> b.rate, age |-> 0]
  <2> DEFINE left == Capped(b.tokens + b.rate * b.age, b.rate * Second)
  <2> HIDE DEF left
  <2>1. Refilled(b) = [b EXCEPT !.tokens = left, !.age = 0]
    BY <1>2, Zenon DEF Refilled, left
  <2>2. Refilled(b) = [tokens |-> left, rate |-> b.rate, age |-> 0]
    BY <2>1 DEF Ripe
  <2>3. QED
    BY <2>2 DEF left
<1>4. /\ Capped(b.tokens + b.rate * b.age, b.rate * Second) \in Nat
      /\ Capped(b.tokens + b.rate * b.age, b.rate * Second) <= b.rate * Second
  BY <1>1, <1>2 DEF Capped
<1>5. QED
  BY <1>3, <1>4, LimiterAssumption DEF Level, Ripe

(* A refilled bucket shows what it showed before: refilling is lazy.       *)
LEMMA RefillUnseen ==
  ASSUME NEW b \in Ripe PROVE Level(Refilled(b)) = Level(b)
<1> DEFINE c == Refilled(b)
<1>1. /\ c \in Ripe /\ c.tokens <= b.rate * Second /\ c.rate = b.rate /\ c.age = 0
      /\ Level(b) = [level |-> c.tokens, rate |-> b.rate]
  <2>1. c \in Ripe /\ c.tokens <= b.rate * Second /\ c.rate = b.rate /\ c.age = 0
    BY LevelOf
  <2>2. QED
    BY <2>1 DEF Level
<1>2. c.rate * c.age = 0 /\ c.tokens \in Nat /\ c.rate * Second \in Nat
  BY <1>1, Earnings, LimiterAssumption DEF Ripe
<1>3. Capped(c.tokens + c.rate * c.age, c.rate * Second) = c.tokens
  BY <1>1, <1>2 DEF Capped
<1>4. Level(c) = [level |-> c.tokens, rate |-> b.rate]
  BY <1>1, <1>3, LevelOf
<1>5. QED
  BY <1>1, <1>4

(* A new bucket is full.                                                   *)
LEMMA NewIsFull ==
  ASSUME NEW r \in Rates PROVE NewBucket(r) \in Ripe /\ Level(NewBucket(r)) = Quota!Full(r)
<1> DEFINE b == NewBucket(r)
<1>1. r * Second \in Nat /\ r * 0 = 0 /\ 0 \in 0..Second
  BY Earnings, LimiterAssumption
<1>2. b \in Ripe /\ b.tokens = r * Second /\ b.rate = r /\ b.age = 0
  BY <1>1 DEF NewBucket, Ripe
<1>3. Capped(b.tokens + b.rate * b.age, b.rate * Second) = r * Second
  BY <1>1, <1>2 DEF Capped
<1>4. Level(b) = [level |-> r * Second, rate |-> r]
  BY <1>2, <1>3, LevelOf
<1>5. QED
  BY <1>2, <1>4 DEF Quota!Full

(* A tick later every bucket shows the quota filled by a tick.             *)
LEMMA OlderFills ==
  ASSUME NEW b \in Ripe PROVE Older(b) \in Ripe /\ Level(Older(b)) = Quota!Fill(Level(b))
<1> DEFINE c == Older(b)
           n == b.tokens
           r == b.rate
           a == b.age
           full == r * Second
<1> HIDE DEF c, full
<1>1. n \in Nat /\ r \in Nat /\ a \in 0..Second
  BY LimiterAssumption DEF Ripe
<1>2. c \in Ripe /\ c.tokens = n /\ c.rate = r /\ c.age = Capped(a + 1, Second)
  BY LimiterAssumption DEF Ripe, Older, Capped, c
<1>3. /\ r * a \in Nat /\ full \in Nat /\ r * (a + 1) = r * a + r /\ r * a <= full
  BY <1>1, Earnings DEF full
<1>4. Capped(n + r * c.age, full) =
        IF Capped(n + r * a, full) + r < full THEN Capped(n + r * a, full) + r ELSE full
  <2>1. CASE a < Second
    <3>1. c.age = a + 1
      BY <1>1, <1>2, <2>1, LimiterAssumption DEF Capped
    <3>2. n + r * c.age = n + r * a + r
      BY <1>1, <1>3, <3>1
    <3>3. QED
      BY <1>1, <1>3, <3>2 DEF Capped
  <2>2. CASE a = Second
    <3>1. c.age = Second
      BY <1>2, <2>2, LimiterAssumption DEF Capped
    <3>2. r * c.age = full /\ r * a = full
      BY <2>2, <3>1 DEF full
    <3>3. QED
      BY <1>1, <1>3, <3>2 DEF Capped
  <2>3. QED
    BY <1>1, <2>1, <2>2, LimiterAssumption
<1>5. /\ Level(b) = [level |-> Capped(n + r * a, full), rate |-> r]
      /\ Level(c) = [level |-> Capped(n + r * c.age, full), rate |-> r]
  BY <1>2, LevelOf DEF full
<1>6. Quota!Fill(Level(b)) = [level |-> IF Capped(n + r * a, full) + r < full
                                          THEN Capped(n + r * a, full) + r ELSE full,
                              rate |-> r]
  BY <1>5 DEF Quota!Fill, full
<1>7. Level(c) = Quota!Fill(Level(b))
  BY <1>4, <1>5, <1>6
<1>8. QED
  BY <1>2, <1>7 DEF c

(* An order takes its cost from what the bucket shows, and a refund gives  *)
(* it back.                                                                *)
LEMMA SpendTakes ==
  ASSUME NEW b \in Ripe, Affords(b)
  PROVE  /\ Spend(b) \in Ripe /\ Level(b).level >= Cost
         /\ Level(Spend(b)) = Quota!Take(Level(b))
         /\ Spend(b).tokens <= b.rate * Second /\ Spend(b).rate = b.rate
         /\ Refund(Spend(b)) = Refilled(b)
<1> DEFINE c == Refilled(b)
           d == Spend(b)
<1> HIDE DEF c, d
<1>1. /\ c \in Ripe /\ c.tokens <= b.rate * Second /\ c.rate = b.rate /\ c.age = 0
      /\ Level(b) = [level |-> c.tokens, rate |-> b.rate]
  <2>1. c \in Ripe /\ c.tokens <= b.rate * Second /\ c.rate = b.rate /\ c.age = 0
    BY LevelOf DEF c
  <2>2. QED
    BY <2>1 DEF Level, c
<1>2. c.tokens \in Nat /\ c.tokens >= Cost /\ Cost \in Nat
  BY <1>1, LimiterAssumption DEF Affords, Ripe, c
<1>3. /\ d = [c EXCEPT !.tokens = c.tokens - Cost] /\ d \in Ripe
      /\ d.tokens = c.tokens - Cost /\ d.rate = b.rate /\ d.age = 0
  BY <1>1, <1>2 DEF Spend, Ripe, c, d
<1>4. b.rate * Second \in Nat /\ d.rate * d.age = 0
  BY <1>1, <1>3, Earnings, LimiterAssumption DEF Ripe
<1>5. Capped(d.tokens + d.rate * d.age, d.rate * Second) = c.tokens - Cost
  BY <1>1, <1>2, <1>3, <1>4 DEF Capped
<1>6. Level(d) = [level |-> c.tokens - Cost, rate |-> b.rate]
  BY <1>3, <1>5, LevelOf
<1>7. Quota!Take(Level(b)) = [level |-> c.tokens - Cost, rate |-> b.rate]
  BY <1>1 DEF Quota!Take
<1>8. Refund(d) = c
  <2>1. c = [tokens |-> c.tokens, rate |-> c.rate, age |-> c.age]
    BY <1>1 DEF Ripe
  <2>2. d = [tokens |-> c.tokens - Cost, rate |-> c.rate, age |-> c.age]
    BY <1>1, <1>3 DEF Ripe
  <2>3. Refund(d) = [tokens |-> c.tokens - Cost + Cost, rate |-> c.rate, age |-> c.age]
    BY <2>2 DEF Refund
  <2>4. QED
    BY <1>2, <2>1, <2>3
<1>9. d.tokens <= b.rate * Second
  BY <1>1, <1>2, <1>3, <1>4
<1>10. QED
  BY <1>1, <1>2, <1>3, <1>6, <1>7, <1>8, <1>9 DEF c, d

(* Where the clock is never set back, no bucket's clock is behind.         *)
RipeInv ==
  /\ Seen \subseteq Symbols /\ defaultRate \in Rates
  /\ steady => global \in Ripe /\ global.tokens <= global.rate * Second
               /\ \A s \in Seen : perSymbol[s] \in Ripe

(* The bucket a request finds is ripe, and storing another one changes     *)
(* what is shown of its symbol only.                                       *)
LEMMA BucketRipe ==
  ASSUME RipeInv, steady, NEW s \in Symbols
  PROVE  Bucket(s) \in Ripe
BY NewIsFull DEF RipeInv, Bucket

LEMMA StoreShows ==
  ASSUME RipeInv, steady, steady', defaultRate' = defaultRate,
         NEW s \in Symbols, NEW b \in Ripe, Store(s, b)
  PROVE  /\ Seen' \subseteq Symbols /\ \A x \in Seen' : perSymbol'[x] \in Ripe
         /\ ShownQuota' = [ShownQuota EXCEPT ![s] = Level(b)]
<1>1. Seen' = Seen \cup {s} /\ \A x \in Seen' : perSymbol'[x] = IF x = s THEN b ELSE perSymbol[x]
  BY DEF Store, Seen
<1>2. \A x \in Symbols : Bucket(x)' = IF x = s THEN b ELSE Bucket(x)
  BY <1>1 DEF Bucket
<1>3. \A x \in Symbols : Level(Bucket(x))' = IF x = s THEN Level(b) ELSE Level(Bucket(x))
  BY <1>2 DEF Level, Refilled
<1>4. ShownQuota' = [ShownQuota EXCEPT ![s] = Level(b)]
  BY <1>3 DEF ShownQuota
<1>5. QED
  BY <1>1, <1>4 DEF RipeInv

(* One request: the shared bucket and the symbol's show the quotas after   *)
(* an order that passes, and the same quotas after a refusal.              *)
LEMMA ConsumeStep ==
  ASSUME RipeInv, steady, NEW s \in Symbols, TryConsume(s)
  PROVE  RipeInv' /\ (Quota!Pass(s) \/ UNCHANGED <<ShownPool, ShownQuota>>)
<1> DEFINE b == Bucket(s)
<1> HIDE DEF b
<1>1. /\ b \in Ripe /\ global \in Ripe /\ steady' /\ defaultRate' = defaultRate
      /\ ShownPool = Level(global) /\ ShownPool' = Level(global)'
      /\ ShownQuota[s] = Level(b) /\ ShownQuota = [ShownQuota EXCEPT ![s] = Level(b)]
  <2>1. steady' /\ defaultRate' = defaultRate
    BY DEF TryConsume, Granted, DeniedByGlobal, DeniedBySymbol
  <2>2. ShownQuota[s] = Level(b) /\ ShownQuota = [ShownQuota EXCEPT ![s] = Level(b)]
    BY DEF ShownQuota, b
  <2>3. QED
    BY <2>1, <2>2, BucketRipe DEF RipeInv, ShownPool, b
<1>2. \A g : global' = g => Level(global)' = Level(g)
  BY DEF Level, Refilled
<1>3. CASE Granted(s)
  <2>1. /\ Affords(global) /\ Affords(b)
        /\ global' = Spend(global) /\ Store(s, Spend(b))
    BY <1>3 DEF Granted, b
  <2>2. Spend(b) \in Ripe /\ Level(b).level >= Cost /\ Level(Spend(b)) = Quota!Take(Level(b))
    BY <1>1, <2>1, SpendTakes
  <2>3. /\ Spend(global) \in Ripe /\ Level(global).level >= Cost
        /\ Level(Spend(global)) = Quota!Take(Level(global))
        /\ Spend(global).tokens <= global.rate * Second /\ Spend(global).rate = global.rate
    BY <1>1, <2>1, SpendTakes
  <2>4. /\ Seen' \subseteq Symbols /\ \A x \in Seen' : perSymbol'[x] \in Ripe
        /\ ShownQuota' = [ShownQuota EXCEPT ![s] = Level(Spend(b))]
    BY <1>1, <2>1, <2>2, StoreShows
  <2>5. RipeInv'
    BY <1>1, <2>1, <2>3, <2>4 DEF RipeInv
  <2>6. Quota!Pass(s)
    BY <1>1, <1>2, <2>1, <2>2, <2>3, <2>4, Zenon DEF Quota!Pass
  <2>7. QED
    BY <2>5, <2>6
<1>4. CASE DeniedByGlobal(s)
  <2>1. global' = Refilled(global) /\ UNCHANGED perSymbol
    BY <1>4 DEF DeniedByGlobal
  <2>2. /\ Refilled(global) \in Ripe /\ Level(Refilled(global)) = Level(global)
        /\ Refilled(global).tokens <= global.rate * Second /\ Refilled(global).rate = global.rate
    BY <1>1, LevelOf, RefillUnseen
  <2>3. RipeInv'
    BY <1>1, <2>1, <2>2 DEF RipeInv, Seen
  <2>4. ShownPool' = ShownPool
    BY <1>1, <1>2, <2>1, <2>2
  <2>5. ShownQuota' = ShownQuota
    BY <1>1, <2>1 DEF ShownQuota, Bucket, Seen, Level, Refilled
  <2>6. QED
    BY <2>3, <2>4, <2>5
<1>5. CASE DeniedBySymbol(s)
  <2>1. /\ Affords(global)
        /\ global' = Refund(Spend(global)) /\ Store(s, Refilled(b))
    BY <1>5 DEF DeniedBySymbol, b
  <2>2. /\ global' = Refilled(global)
        /\ Refilled(global) \in Ripe /\ Level(Refilled(global)) = Level(global)
        /\ Refilled(global).tokens <= global.rate * Second /\ Refilled(global).rate = global.rate
    BY <1>1, <2>1, LevelOf, RefillUnseen, SpendTakes
  <2>3. Refilled(b) \in Ripe /\ Level(Refilled(b)) = Level(b)
    BY <1>1, LevelOf, RefillUnseen
  <2>4. /\ Seen' \subseteq Symbols /\ \A x \in Seen' : perSymbol'[x] \in Ripe
        /\ ShownQuota' = [ShownQuota EXCEPT ![s] = Level(Refilled(b))]
    BY <1>1, <2>1, <2>3, StoreShows
  <2>5. RipeInv'
    BY <1>1, <2>2, <2>4 DEF RipeInv
  <2>6. ShownPool' = ShownPool
    BY <1>1, <1>2, <2>2
  <2>7. ShownQuota' = ShownQuota
    BY <1>1, <2>3, <2>4
  <2>8. QED
    BY <2>5, <2>6, <2>7
<1>6. QED
  BY <1>3, <1>4, <1>5 DEF TryConsume

(* A tick of the clock fills every quota, asked for or not: the bucket of  *)
(* a symbol not seen yet is full and stays so.                             *)
LEMMA TickStep ==
  ASSUME RipeInv, steady, Tick
  PROVE  RipeInv' /\ Quota!Elapse
<1>1. /\ steady' /\ defaultRate' = defaultRate /\ global' = Older(global)
      /\ Seen' = Seen /\ \A s \in Seen : perSymbol'[s] = Older(perSymbol[s])
  BY DEF Tick, Seen
<1>2. /\ Older(global) \in Ripe /\ Level(Older(global)) = Quota!Fill(Level(global))
      /\ Older(global).tokens = global.tokens /\ Older(global).rate = global.rate
  <2>1. global \in Ripe
    BY DEF RipeInv
  <2>2. Older(global).tokens = global.tokens /\ Older(global).rate = global.rate
    BY <2>1 DEF Older, Ripe
  <2>3. QED
    BY <2>1, <2>2, OlderFills
<1>3. \A s \in Seen : Older(perSymbol[s]) \in Ripe
                      /\ Level(Older(perSymbol[s])) = Quota!Fill(Level(perSymbol[s]))
  BY OlderFills DEF RipeInv
<1>4. RipeInv'
  BY <1>1, <1>2, <1>3 DEF RipeInv
<1>5. Level(NewBucket(defaultRate)) = Quota!Fill(Level(NewBucket(defaultRate)))
  <2>1. defaultRate \in Rates /\ defaultRate \in Nat /\ defaultRate * Second \in Nat
    BY Earnings, LimiterAssumption DEF RipeInv
  <2>2. Level(NewBucket(defaultRate)) = [level |-> defaultRate * Second, rate |-> defaultRate]
    BY <2>1, NewIsFull DEF Quota!Full
  <2>3. defaultRate * Second + defaultRate < defaultRate * Second
          => defaultRate * Second + defaultRate = defaultRate * Second
    BY <2>1
  <2>4. QED
    BY <2>1, <2>2, <2>3 DEF Quota!Fill
<1>6. \A s \in Symbols : Level(Bucket(s))' = Quota!Fill(Level(Bucket(s)))
  <2> SUFFICES ASSUME NEW s \in Symbols PROVE Level(Bucket(s))' = Quota!Fill(Level(Bucket(s)))
    OBVIOUS
  <2>1. CASE s \in Seen
    <3>1. Bucket(s) = perSymbol[s] /\ Bucket(s)' = Older(perSymbol[s])
      BY <1>1, <2>1 DEF Bucket
    <3>2. Level(Bucket(s))' = Level(Older(perSymbol[s]))
      BY <3>1 DEF Level, Refilled
    <3>3. QED
      BY <1>3, <2>1, <3>1, <3>2
  <2>2. CASE s \notin Seen
    <3>1. Bucket(s) = NewBucket(defaultRate) /\ Bucket(s)' = NewBucket(defaultRate)
      BY <1>1, <2>2 DEF Bucket, NewBucket
    <3>2. Level(Bucket(s))' = Level(NewBucket(defaultRate))
      BY <3>1 DEF Level, Refilled
    <3>3. QED
      BY <1>5, <3>1, <3>2
  <2>3. QED
    BY <2>1, <2>2
<1>7. ShownPool' = Quota!Fill(ShownPool)
  <2>1. Level(global)' = Level(Older(global))
    BY <1>1 DEF Level, Refilled
  <2>2. QED
    BY <1>1, <1>2, <2>1 DEF ShownPool
<1>8. ShownQuota' = [s \in Symbols |-> Quota!Fill(ShownQuota[s])]
  BY <1>1, <1>6 DEF ShownQuota
<1>9. QED
  BY <1>4, <1>7, <1>8 DEF Quota!Elapse

(* The operator's rates reach the quotas of the symbols not seen yet, and  *)
(* set_symbol_rate lets a symbol's level be anything up to the new full.   *)
LEMMA RatesStep ==
  ASSUME RipeInv, steady, NEW g \in Rates, NEW p \in Rates, SetRates(g, p)
  PROVE  RipeInv' /\ Quota!SetRates(g, p)
<1> DEFINE unused == Symbols \ Seen
<1>1. /\ steady' /\ defaultRate' = p /\ global' = NewBucket(g) /\ perSymbol' = perSymbol
      /\ Seen' = Seen
  BY DEF SetRates, Seen
<1>2. NewBucket(g) \in Ripe /\ NewBucket(g).tokens <= NewBucket(g).rate * Second
  <2>1. g * Second \in Nat
    BY Earnings, LimiterAssumption
  <2>2. QED
    BY <2>1, NewIsFull DEF NewBucket
<1>3. RipeInv'
  BY <1>1, <1>2 DEF RipeInv
<1>4. ShownPool' = Quota!Full(g)
  <2>1. Level(global)' = Level(NewBucket(g))
    BY <1>1 DEF Level, Refilled
  <2>2. QED
    BY <1>1, <2>1, NewIsFull DEF ShownPool
<1>5. \A s \in unused : ShownQuota[s] = Quota!Full(defaultRate)
                        /\ ShownQuota[s] = Quota!Full(ShownQuota[s].rate)
  <2>1. \A s \in unused : ShownQuota[s] = Level(NewBucket(defaultRate))
    BY DEF ShownQuota, Bucket
  <2>2. \A s \in unused : ShownQuota[s] = Quota!Full(defaultRate)
    BY <2>1, NewIsFull DEF RipeInv
  <2>3. Quota!Full(defaultRate).rate = defaultRate
    BY DEF Quota!Full
  <2>4. QED
    BY <2>2, <2>3
<1>6. ShownQuota' = [s \in Symbols |-> IF s \in unused THEN Quota!Full(p) ELSE ShownQuota[s]]
  <2>1. \A s \in Symbols : Level(Bucket(s))' = IF s \in unused THEN Quota!Full(p)
                                                                ELSE Level(Bucket(s))
    <3> SUFFICES ASSUME NEW s \in Symbols
                 PROVE  Level(Bucket(s))' = IF s \in unused THEN Quota!Full(p)
                                                             ELSE Level(Bucket(s))
      OBVIOUS
    <3>1. CASE s \in Seen
      BY <1>1, <3>1 DEF Bucket, Level, Refilled
    <3>2. CASE s \notin Seen
      <4>1. Bucket(s)' = NewBucket(p)
        BY <1>1, <3>2 DEF Bucket, NewBucket
      <4>2. Level(Bucket(s))' = Level(NewBucket(p))
        BY <4>1 DEF Level, Refilled
      <4>3. QED
        BY <3>2, <4>2, NewIsFull
    <3>3. QED
      BY <3>1, <3>2
  <2>2. QED
    BY <1>1, <2>1 DEF ShownQuota
<1>7. unused \in SUBSET {s \in Symbols : ShownQuota[s] = Quota!Full(ShownQuota[s].rate)}
  BY <1>5
<1>8. QED
  BY <1>3, <1>4, <1>6, <1>7, Zenon DEF Quota!SetRates

LEMMA SymbolRateStep ==
  ASSUME RipeInv, steady, NEW s \in Symbols, NEW r \in Rates, SetSymbolRate(s, r)
  PROVE  RipeInv' /\ Quota!SetSymbolRate(s, r)
<1> DEFINE b == IF s \in Seen THEN [perSymbol[s] EXCEPT !.rate = r] ELSE NewBucket(r)
<1>1. b \in Ripe /\ b.rate = r
  <2>1. CASE s \in Seen
    <3>1. perSymbol[s] \in Ripe
      BY <2>1 DEF RipeInv
    <3>2. QED
      BY <2>1, <3>1 DEF Ripe
  <2>2. CASE s \notin Seen
    BY <2>2, NewIsFull DEF NewBucket
  <2>3. QED
    BY <2>1, <2>2
<1>2. Store(s, b) /\ steady' /\ defaultRate' = defaultRate /\ global' = global
  BY DEF SetSymbolRate
<1> HIDE DEF b
<1>3. /\ Seen' \subseteq Symbols /\ \A x \in Seen' : perSymbol'[x] \in Ripe
      /\ ShownQuota' = [ShownQuota EXCEPT ![s] = Level(b)]
  BY <1>1, <1>2, StoreShows
<1>4. RipeInv'
  BY <1>2, <1>3 DEF RipeInv
<1>5. Level(b).level \in 0..(r * Second) /\ Level(b) = [level |-> Level(b).level, rate |-> r]
  <2>1. r * Second \in Nat
    BY Earnings, LimiterAssumption
  <2>2. Refilled(b).tokens \in 0..(r * Second)
    BY <1>1, <2>1, LevelOf, LimiterAssumption DEF Ripe
  <2>3. QED
    BY <1>1, <2>2 DEF Level
<1>6. ShownPool' = ShownPool
  BY <1>2 DEF ShownPool, Level, Refilled
<1>7. QED
  BY <1>3, <1>4, <1>5, <1>6, Zenon DEF Quota!SetSymbolRate

(* Where the clock may be set back, the quota shown is one nobody uses.    *)
LEMMA UnsteadyStep ==
  ASSUME RipeInv, ~steady, [LimiterNext]_limiterVars
  PROVE  RipeInv' /\ UNCHANGED <<ShownPool, ShownQuota>>
<1> USE DEF RipeInv, Store, Seen
<1>1. steady' = steady
  BY DEF LimiterNext, limiterVars, TryConsume, Granted, DeniedByGlobal, DeniedBySymbol,
         Operator, SetRates, SetSymbolRate, Tick, ClockBack
<1>2. UNCHANGED <<ShownPool, ShownQuota>>
  BY <1>1 DEF ShownPool, ShownQuota, Unused, Level, Refilled, NewBucket
<1>3. RipeInv'
  <2>1. CASE \E s \in Symbols : TryConsume(s)
    BY <1>1, <2>1 DEF TryConsume, Granted, DeniedByGlobal, DeniedBySymbol
  <2>2. CASE Operator
    BY <1>1, <2>2 DEF Operator, SetRates, SetSymbolRate
  <2>3. CASE Tick \/ ClockBack
    BY <1>1, <2>3 DEF Tick, ClockBack
  <2>4. CASE UNCHANGED limiterVars
    BY <1>1, <2>4 DEF limiterVars
  <2>5. QED
    BY <2>1, <2>2, <2>3, <2>4 DEF LimiterNext
<1>4. QED
  BY <1>2, <1>3

LEMMA LimiterStep ==
  ASSUME RipeInv, [LimiterNext]_limiterVars
  PROVE  RipeInv' /\ [Quota!Next]_<<ShownPool, ShownQuota>>
<1>1. CASE ~steady
  BY <1>1, UnsteadyStep
<1>2. CASE steady
  <2>1. CASE \E s \in Symbols : TryConsume(s)
    BY <1>2, <2>1, ConsumeStep DEF Quota!Next
  <2>2. CASE Operator
    BY <1>2, <2>2, RatesStep, SymbolRateStep DEF Operator, Quota!Next
  <2>3. CASE Tick
    BY <1>2, <2>3, TickStep DEF Quota!Next
  <2>4. CASE ClockBack
    BY <1>2, <2>4 DEF ClockBack
  <2>5. CASE UNCHANGED limiterVars
    BY <2>5 DEF limiterVars, RipeInv, Seen, ShownPool, ShownQuota, Bucket, Level, Refilled, NewBucket
  <2>6. QED
    BY <2>1, <2>2, <2>3, <2>4, <2>5 DEF LimiterNext
<1>3. QED
  BY <1>1, <1>2

LEMMA LimiterStart == LimiterInit => RipeInv /\ Quota!Init
<1> SUFFICES ASSUME LimiterInit PROVE RipeInv /\ Quota!Init
  OBVIOUS
<1>1. PICK g \in Rates : global = NewBucket(g)
  BY DEF LimiterInit
<1>2. Seen = {} /\ defaultRate \in Rates
  BY DEF LimiterInit, Seen
<1>3. RipeInv
  <2>1. g * Second \in Nat
    BY Earnings, LimiterAssumption
  <2>2. NewBucket(g).tokens <= NewBucket(g).rate * Second
    BY <2>1 DEF NewBucket
  <2>3. QED
    BY <1>1, <1>2, <2>2, NewIsFull DEF RipeInv
<1>4. Quota!Init
  <2>1. CASE steady
    <3>1. ShownPool = Quota!Full(g)
      BY <1>1, <2>1, NewIsFull DEF ShownPool
    <3>2. ShownQuota = [s \in Symbols |-> Quota!Full(defaultRate)]
      BY <1>2, <2>1, NewIsFull DEF ShownQuota, Bucket
    <3>3. QED
      BY <1>2, <3>1, <3>2, Zenon DEF Quota!Init
  <2>2. CASE ~steady
    <3> DEFINE r == CHOOSE r \in Rates : TRUE
    <3>1. r \in Rates
      BY LimiterAssumption
    <3>2. Unused = Quota!Full(r)
      BY <3>1, NewIsFull DEF Unused
    <3>3. ShownPool = Quota!Full(r) /\ ShownQuota = [s \in Symbols |-> Quota!Full(r)]
      BY <2>2, <3>2 DEF ShownPool, ShownQuota
    <3>4. QED
      BY <3>1, <3>3, Zenon DEF Quota!Init
  <2>3. QED
    BY <2>1, <2>2
<1>5. QED
  BY <1>3, <1>4

(* The limiter implements the quotas that fill as time passes, for any     *)
(* symbols, rates, cost of an order and fineness of the clock.             *)
THEOREM LimiterImplements == LimiterSpec => ImplementsQuota
<1>1. LimiterInit => RipeInv /\ Quota!Init
  BY LimiterStart
<1>2. RipeInv /\ [LimiterNext]_limiterVars => RipeInv' /\ [Quota!Next]_Quota!vars
  BY LimiterStep DEF Quota!vars
<1>3. QED
  BY <1>1, <1>2, PTL DEF LimiterSpec, ImplementsQuota, Quota!Spec

(* A refill never passes a second's worth, even when the clock is behind   *)
(* it and the unsigned difference wraps.                                   *)
LEMMA RefilledTyped ==
  ASSUME NEW b \in Buckets
  PROVE  /\ Refilled(b) \in Buckets /\ Refilled(b).rate = b.rate
         /\ Refilled(b).tokens <= b.rate * Second
<1>1. b.tokens \in Nat /\ b.rate \in Nat /\ b.age \in Int /\ b.age % Width \in Nat
  <2>1. b.tokens \in Nat /\ b.rate \in Rates /\ b.age \in (-MaxSetback)..Second
    BY DEF Buckets
  <2>2. Rates \subseteq Nat /\ Second \in Nat /\ MaxSetback \in Nat
    BY LimiterAssumption
  <2>3. Width \in Nat \ {0}
    BY LimiterAssumption
  <2>4. b.tokens \in Nat /\ b.rate \in Nat /\ b.age \in Int
    <3>1. b.rate \in Nat
      BY <2>1, <2>2
    <3>2. b.age \in Int
      BY <2>1, <2>2
    <3>3. QED
      BY <2>1, <3>1, <3>2
  <2>5. \A a \in Int : a % Width \in Nat
    BY <2>3
  <2>6. QED
    BY <2>4, <2>5
<1> DEFINE earned == b.rate * (b.age % Width)
           full == b.rate * Second
           filled == Capped(b.tokens + earned, full)
<1>2. earned \in Nat /\ full \in Nat
  BY <1>1, LimiterAssumption
<1> HIDE DEF earned, full, filled
<1>3. filled \in Nat /\ filled <= full
  BY <1>1, <1>2 DEF Capped, filled
<1>4. Refilled(b) = [b EXCEPT !.tokens = filled, !.age = 0]
  BY DEF Refilled, filled, earned, full
<1>5. Refilled(b) = [tokens |-> filled, rate |-> b.rate, age |-> 0]
  BY <1>4 DEF Buckets
<1>6. 0 \in (-MaxSetback)..Second
  BY LimiterAssumption
<1>7. QED
  BY <1>3, <1>5, <1>6 DEF Buckets, full

LEMMA NewTyped ==
  ASSUME NEW r \in Rates
  PROVE  NewBucket(r) \in Buckets /\ NewBucket(r).tokens <= NewBucket(r).rate * Second
<1>1. r * Second \in Nat /\ 0 \in (-MaxSetback)..Second
  BY LimiterAssumption
<1>2. QED
  BY <1>1 DEF NewBucket, Buckets

LEMMA SpendTyped ==
  ASSUME NEW b \in Buckets, Affords(b)
  PROVE  /\ Spend(b) \in Buckets /\ Spend(b).tokens <= Spend(b).rate * Second
         /\ Refund(Spend(b)) \in Buckets
         /\ Refund(Spend(b)).tokens <= Refund(Spend(b)).rate * Second
<1> DEFINE c == Refilled(b)
<1> HIDE DEF c
<1>1. c \in Buckets /\ c.rate = b.rate /\ c.tokens <= b.rate * Second
  BY RefilledTyped DEF c
<1>2. c.tokens \in Nat /\ c.tokens >= Cost /\ Cost \in Nat
  BY <1>1, LimiterAssumption DEF Affords, Buckets, c
<1>3. Spend(b) = [tokens |-> c.tokens - Cost, rate |-> c.rate, age |-> c.age]
  BY <1>1 DEF Spend, Buckets, c
<1>4. Refund(Spend(b)) = [tokens |-> c.tokens - Cost + Cost, rate |-> c.rate, age |-> c.age]
  BY <1>3 DEF Refund
<1>5. c.tokens - Cost \in Nat /\ c.tokens - Cost + Cost = c.tokens
  BY <1>2
<1>6. Spend(b) \in Buckets /\ Refund(Spend(b)) \in Buckets
  BY <1>1, <1>3, <1>4, <1>5 DEF Buckets
<1>7. /\ b.rate * Second \in Nat
      /\ Spend(b).tokens <= b.rate * Second /\ Refund(Spend(b)).tokens <= b.rate * Second
  <2>1. b.rate \in Nat /\ Second \in Nat
    BY LimiterAssumption DEF Buckets
  <2>2. b.rate * Second \in Nat
    BY <2>1
  <2>3. QED
    BY <1>1, <1>2, <1>3, <1>4, <1>5, <2>2
<1>8. QED
  BY <1>1, <1>3, <1>4, <1>6, <1>7

LEMMA AgeTyped ==
  ASSUME NEW b \in Buckets, NEW d \in Nat
  PROVE  /\ Older(b) \in Buckets /\ Younger(b, d) \in Buckets
         /\ Older(b).tokens = b.tokens /\ Older(b).rate = b.rate
         /\ Younger(b, d).tokens = b.tokens /\ Younger(b, d).rate = b.rate
<1>1. b.age \in (-MaxSetback)..Second /\ b = [tokens |-> b.tokens, rate |-> b.rate, age |-> b.age]
  BY DEF Buckets
<1>2. /\ Capped(b.age + 1, Second) \in (-MaxSetback)..Second
      /\ (IF b.age - d < -MaxSetback THEN -MaxSetback ELSE b.age - d) \in (-MaxSetback)..Second
  BY <1>1, LimiterAssumption DEF Capped
<1>3. /\ Older(b) = [tokens |-> b.tokens, rate |-> b.rate, age |-> Capped(b.age + 1, Second)]
      /\ Younger(b, d) = [tokens |-> b.tokens, rate |-> b.rate,
                          age |-> IF b.age - d < -MaxSetback THEN -MaxSetback ELSE b.age - d]
  BY <1>1 DEF Older, Younger
<1>4. QED
  BY <1>2, <1>3 DEF Buckets

LEMMA StoreTyped ==
  ASSUME LimiterTypeOK, NEW s \in Symbols, NEW b \in Buckets, Store(s, b)
  PROVE  Seen' \subseteq Symbols /\ \A x \in Seen' : perSymbol'[x] \in Buckets
BY DEF LimiterTypeOK, Store, Seen

LEMMA LimiterTypeStep ==
  ASSUME LimiterTypeOK, [LimiterNext]_limiterVars PROVE LimiterTypeOK'
<1>1. ASSUME NEW s \in Symbols, TryConsume(s) PROVE LimiterTypeOK'
  <2>1. global \in Buckets /\ Bucket(s) \in Buckets /\ steady' = steady /\ defaultRate' = defaultRate
    BY <1>1, NewTyped DEF LimiterTypeOK, Bucket, TryConsume, Granted, DeniedByGlobal, DeniedBySymbol
  <2>2. CASE Granted(s)
    <3>1. /\ Affords(global) /\ Affords(Bucket(s)) /\ global' = Spend(global)
          /\ Store(s, Spend(Bucket(s)))
      BY <2>2 DEF Granted
    <3>2. Spend(Bucket(s)) \in Buckets
      BY <2>1, <3>1, SpendTyped
    <3>3. Seen' \subseteq Symbols /\ \A x \in Seen' : perSymbol'[x] \in Buckets
      BY <3>1, <3>2, StoreTyped
    <3>4. QED
      BY <2>1, <3>1, <3>3, SpendTyped DEF LimiterTypeOK
  <2>3. CASE DeniedByGlobal(s)
    BY <2>1, <2>3, RefilledTyped DEF DeniedByGlobal, LimiterTypeOK, Seen
  <2>4. CASE DeniedBySymbol(s)
    <3>1. /\ Affords(global) /\ global' = Refund(Spend(global))
          /\ Store(s, Refilled(Bucket(s)))
      BY <2>4 DEF DeniedBySymbol
    <3>2. Refilled(Bucket(s)) \in Buckets
      BY <2>1, RefilledTyped
    <3>3. Seen' \subseteq Symbols /\ \A x \in Seen' : perSymbol'[x] \in Buckets
      BY <3>1, <3>2, StoreTyped
    <3>4. QED
      BY <2>1, <3>1, <3>3, SpendTyped DEF LimiterTypeOK
  <2>5. QED
    BY <1>1, <2>2, <2>3, <2>4 DEF TryConsume
<1>2. ASSUME NEW g \in Rates, NEW p \in Rates, SetRates(g, p) PROVE LimiterTypeOK'
  BY <1>2, NewTyped DEF SetRates, LimiterTypeOK, Seen
<1>3. ASSUME NEW s \in Symbols, NEW r \in Rates, SetSymbolRate(s, r) PROVE LimiterTypeOK'
  <2> DEFINE b == IF s \in Seen THEN [perSymbol[s] EXCEPT !.rate = r] ELSE NewBucket(r)
  <2>1. b \in Buckets
    <3>1. CASE s \in Seen
      <4>1. perSymbol[s] \in Buckets
        BY <3>1 DEF LimiterTypeOK
      <4>2. QED
        BY <3>1, <4>1 DEF Buckets
    <3>2. CASE s \notin Seen
      BY <3>2, NewTyped
    <3>3. QED
      BY <3>1, <3>2
  <2>2. Store(s, b) /\ UNCHANGED <<global, defaultRate, steady>>
    BY <1>3 DEF SetSymbolRate
  <2>3. Seen' \subseteq Symbols /\ \A x \in Seen' : perSymbol'[x] \in Buckets
    BY <2>1, <2>2, StoreTyped
  <2>4. QED
    BY <2>2, <2>3 DEF LimiterTypeOK
<1>4. CASE Tick
  <2>1. Seen' = Seen /\ \A s \in Seen : perSymbol'[s] = Older(perSymbol[s])
    BY <1>4 DEF Tick, Seen
  <2>2. \A s \in Seen : Older(perSymbol[s]) \in Buckets
    BY AgeTyped DEF LimiterTypeOK
  <2>3. /\ Older(global) \in Buckets
        /\ Older(global).tokens = global.tokens /\ Older(global).rate = global.rate
    BY AgeTyped DEF LimiterTypeOK
  <2>4. QED
    BY <1>4, <2>1, <2>2, <2>3 DEF Tick, LimiterTypeOK
<1>5. ASSUME NEW d \in 1..MaxSetback, global' = Younger(global, d),
             perSymbol' = [s \in Seen |-> Younger(perSymbol[s], d)],
             UNCHANGED <<defaultRate, steady>>
      PROVE  LimiterTypeOK'
  <2>1. Seen' = Seen /\ \A s \in Seen : perSymbol'[s] = Younger(perSymbol[s], d)
    BY <1>5 DEF Seen
  <2>2. d \in Nat
    BY LimiterAssumption
  <2>3. \A s \in Seen : Younger(perSymbol[s], d) \in Buckets
    BY <2>2, AgeTyped DEF LimiterTypeOK
  <2>4. /\ Younger(global, d) \in Buckets
        /\ Younger(global, d).tokens = global.tokens /\ Younger(global, d).rate = global.rate
    BY <2>2, AgeTyped DEF LimiterTypeOK
  <2>5. QED
    BY <1>5, <2>1, <2>3, <2>4 DEF LimiterTypeOK
<1>6. CASE UNCHANGED limiterVars
  BY <1>6 DEF limiterVars, LimiterTypeOK, Seen
<1>7. QED
  BY <1>1, <1>2, <1>3, <1>4, <1>5, <1>6 DEF LimiterNext, Operator, ClockBack

(* Whatever the clock does, the limiter's shared bucket never holds more   *)
(* than a second's worth and no bucket's tokens go below zero.             *)
THEOREM LimiterTyped == LimiterSpec => []LimiterTypeOK
<1>1. LimiterInit => LimiterTypeOK
  BY NewTyped DEF LimiterInit, LimiterTypeOK, Seen
<1>2. QED
  BY <1>1, LimiterTypeStep, PTL DEF LimiterSpec
=============================================================================
