------------------------------ MODULE Execution ------------------------------
(***************************************************************************)
(* One execution thread of the engine: ExecutionManager::run_loop and      *)
(* execute_decision (execution_manager.rs) with everything they share.     *)
(*                                                                         *)
(* The thread takes risk decisions from a bounded channel and carries each *)
(* through the gates (kill switch, circuit breaker, rate limiter, store of *)
(* processed intents) to the broker, retrying transient errors, and then   *)
(* records the outcome.  Between any two of its steps the control plane    *)
(* may throw or clear the kill switch and trip, reset or retune the        *)
(* breaker; the lifecycle handler thread consumes the events.  The broker  *)
(* may accept an order and its answer be lost on the way: the request      *)
(* carries no client order id, so the broker cannot recognise a retry.     *)
(***************************************************************************)
EXTENDS Integers, Sequences

CONSTANTS
  Intents,       \* intent ids of the decisions
  QueueCap,      \* capacity of the decision channel
  MaxDecisions,  \* bound: decisions that arrive in a behaviour
  MaxRetries,    \* max_retries; 0 still submits once
  Burst,         \* orders the rate limiter lets through at once
  LifecycleCap,  \* capacity of the lifecycle channel
  Nobody,        \* no decision in hand
  Exec,          \* this thread, the breaker's only caller
  Thresholds, Cooldowns, MaxFailures, MaxElapsed, MaxBackstep

ASSUME ExecutionAssumption ==
  /\ Nobody \notin Intents
  /\ QueueCap \in Nat \ {0} /\ LifecycleCap \in Nat \ {0}
  /\ MaxDecisions \in Nat /\ MaxRetries \in Nat /\ Burst \in Nat

VARIABLES
  pc, cur, attempt,       \* the thread: next step, decision's intent, try number
  decisions,              \* decision channel: records [intent, approved]
  connected,              \* the risk coordinator still holds its sender
  arrived,                \* decisions sent so far, up to MaxDecisions
  tokens,                 \* what the rate limiter (RateQuota) lets through now
  processed,              \* idempotency store: intents marked processed
  journal,                \* order records the journal channel accepted
  killed, openOrders,     \* kill switch: active flag, tracked execution ids
  lifecycle,              \* events waiting in the lifecycle channel
  handler,                \* the lifecycle handler thread still receives
  orders,                 \* the broker: orders it holds for each intent
  acked,                  \* history: orders whose acknowledgement came back
  lateCalls,              \* history: broker calls since the switch was thrown
  state, failures, elapsed, isOpen, threshold, cooldown, inflight, early

breaker == <<state, failures, elapsed, isOpen, threshold, cooldown, inflight, early>>
thread  == <<pc, cur, attempt>>
input   == <<decisions, connected, arrived>>
switch  == <<killed, openOrders>>
events  == <<lifecycle, handler>>
broker  == <<orders, acked, lateCalls>>
records == <<processed, journal>>
vars    == <<thread, input, tokens, records, switch, events, broker, breaker>>

CB == INSTANCE CircuitBreaker WITH Callers <- {Exec}

Goto(step) == pc' = step /\ UNCHANGED <<cur, attempt>>

\* The decision goes out of scope.
Return == pc' = "head" /\ cur' = Nobody /\ attempt' = 0

-----------------------------------------------------------------------------
(* run_loop: wait for a decision, look at the switch again, ask the        *)
(* breaker.  A decision that is not approved or not let through is gone.   *)

LoopHead == /\ pc = "head"
            /\ Goto(IF killed THEN "drain" ELSE "recv")
            /\ UNCHANGED <<input, tokens, records, switch, events, broker, breaker>>

Receive == /\ pc = "recv" /\ decisions # <<>>
           /\ decisions' = Tail(decisions)
           /\ IF Head(decisions).approved
                THEN pc' = "gate" /\ cur' = Head(decisions).intent /\ UNCHANGED attempt
                ELSE Return
           /\ UNCHANGED <<connected, arrived>>
           /\ UNCHANGED <<tokens, records, switch, events, broker, breaker>>

ReceiveTimeout == /\ pc = "recv" /\ decisions = <<>>
                  /\ Goto(IF connected THEN "head" ELSE "drain")
                  /\ UNCHANGED <<input, tokens, records, switch, events, broker, breaker>>

SwitchGate == /\ pc = "gate"
              /\ IF killed THEN Return ELSE Goto("breaker")
              /\ UNCHANGED <<input, tokens, records, switch, events, broker, breaker>>

\* Mutant: a refusal is counted but the decision goes on.
BreakerGateOpen == /\ pc = "breaker" /\ Goto("rate")
                   /\ CB!CanExecute(Exec) \/ CB!Refused(Exec)
                   /\ UNCHANGED <<input, tokens, records, switch, events, broker>>

BreakerGate == /\ pc = "breaker"
               /\ \/ CB!CanExecute(Exec) /\ Goto("rate")
                  \/ CB!Refused(Exec) /\ Return
               /\ UNCHANGED <<input, tokens, records, switch, events, broker>>

-----------------------------------------------------------------------------
(* execute_decision.  An early return leaves the breaker without a report. *)

RateGate == /\ pc = "rate"
            /\ \/ tokens > 0 /\ tokens' = tokens - 1 /\ Goto("dedup") /\ UNCHANGED breaker
               \/ tokens = 0 /\ UNCHANGED tokens /\ Return /\ CB!Abandon(Exec)
            /\ UNCHANGED <<input, records, switch, events, broker>>

\* Mutant: the store is not asked.
DuplicateGateOpen == /\ pc = "dedup" /\ Goto("pending")
                     /\ UNCHANGED <<input, tokens, records, switch, events, broker, breaker>>

DuplicateGate == /\ pc = "dedup"
                 /\ \/ cur \in processed /\ Return /\ CB!Abandon(Exec)
                    \/ cur \notin processed /\ Goto("pending") /\ UNCHANGED breaker
                 /\ UNCHANGED <<input, tokens, records, switch, events, broker>>

\* JournalHandle::try_write, whose refusal of a full channel is ignored.
TryWrite(i, status) ==
  journal' \in {journal, journal \cup {[intent |-> i, status |-> status]}}

WritePending == /\ pc = "pending"
                /\ TryWrite(cur, "Pending")
                /\ pc' = "submit" /\ attempt' = 0 /\ UNCHANGED cur
                /\ UNCHANGED <<processed, input, tokens, switch, events, broker, breaker>>

\* The execution id the broker gave, or would have given, to its newest order.
NewestOrder(i) == <<i, orders[i]>>

Called == lateCalls' = IF killed THEN lateCalls + 1 ELSE lateCalls

Accepted == orders' = [orders EXCEPT ![cur] = @ + 1]

SubmitOk == /\ pc = "submit" /\ Called
            /\ Accepted
            /\ acked' = acked \cup {<<cur, orders'[cur]>>}
            /\ Goto("track")
            /\ UNCHANGED <<input, tokens, records, switch, events, breaker>>

\* Mutant: one try more than max_retries.
OneTryTooMany == IF attempt < MaxRetries THEN Goto("backoff") ELSE Goto("failed")

\* The loop runs max_retries times and sleeps between two tries.
TransientError == IF attempt + 1 < MaxRetries THEN Goto("backoff") ELSE Goto("failed")

\* No answer (ConnectionFailed): the order may or may not be at the broker.
SubmitUnanswered == /\ pc = "submit" /\ Called
                    /\ (Accepted \/ UNCHANGED orders)
                    /\ TransientError
                    /\ UNCHANGED <<acked, input, tokens, records, switch, events, breaker>>

\* Rejected, or an acceptance whose body could not be parsed (ParseFailed).
SubmitRefused == /\ pc = "submit" /\ Called
                 /\ (Accepted \/ UNCHANGED orders)
                 /\ Goto("failed")
                 /\ UNCHANGED <<acked, input, tokens, records, switch, events, breaker>>

Backoff == /\ pc = "backoff"
           /\ pc' = "submit" /\ attempt' = attempt + 1 /\ UNCHANGED cur
           /\ UNCHANGED <<input, tokens, records, switch, events, broker, breaker>>

\* Mutant: an order acknowledged after the switch was thrown is not tracked.
TrackUnlessKilled ==
  /\ pc = "track"
  /\ openOrders' = IF killed THEN openOrders ELSE openOrders \cup {NewestOrder(cur)}
  /\ Goto("mark")
  /\ UNCHANGED <<killed, input, tokens, records, events, broker, breaker>>

Track == /\ pc = "track"
         /\ openOrders' = openOrders \cup {NewestOrder(cur)}
         /\ Goto("mark")
         /\ UNCHANGED <<killed, input, tokens, records, events, broker, breaker>>

MarkProcessed == /\ pc = "mark"
                 /\ processed' = processed \cup {cur}
                 /\ Goto("submitted")
                 /\ UNCHANGED <<journal, input, tokens, switch, events, broker, breaker>>

WriteSubmitted == /\ pc = "submitted"
                  /\ TryWrite(cur, "Submitted")
                  /\ Goto("notify")
                  /\ UNCHANGED <<processed, input, tokens, switch, events, broker, breaker>>

\* Mutant: the receiver outlives the handler, so a full channel stays full.
NotifyWhileHandled ==
  /\ pc = "notify"
  /\ handler /\ lifecycle < LifecycleCap /\ lifecycle' = lifecycle + 1
  /\ Goto("success")
  /\ UNCHANGED <<handler, input, tokens, records, switch, broker, breaker>>

\* A blocking send; it fails at once when the receiver is gone.
Notify == /\ pc = "notify"
          /\ \/ handler /\ lifecycle < LifecycleCap /\ lifecycle' = lifecycle + 1
             \/ ~handler /\ UNCHANGED lifecycle
          /\ Goto("success")
          /\ UNCHANGED <<handler, input, tokens, records, switch, broker, breaker>>

Success == /\ pc = "success"
           /\ CB!RecordSuccess(Exec)
           /\ Return
           /\ UNCHANGED <<input, tokens, records, switch, events, broker>>

Failed == /\ pc = "failed"
          /\ CB!RecordFailure(Exec)
          /\ Goto("failure")
          /\ UNCHANGED <<input, tokens, records, switch, events, broker>>

WriteFailed == /\ pc = "failure"
               /\ TryWrite(cur, "Failed")
               /\ Return
               /\ UNCHANGED <<processed, input, tokens, switch, events, broker, breaker>>

\* What is left in the channel is logged and dropped; the receiver goes.
Drain == /\ pc = "drain"
         /\ decisions' = <<>> /\ Goto("exited")
         /\ UNCHANGED <<connected, arrived>>
         /\ UNCHANGED <<tokens, records, switch, events, broker, breaker>>

Submit == SubmitOk \/ SubmitUnanswered \/ SubmitRefused

ThreadStep == \/ LoopHead \/ Receive \/ ReceiveTimeout \/ SwitchGate \/ BreakerGate
              \/ RateGate \/ DuplicateGate \/ WritePending
              \/ Submit \/ Backoff
              \/ Track \/ MarkProcessed \/ WriteSubmitted \/ Notify \/ Success
              \/ Failed \/ WriteFailed
              \/ Drain

-----------------------------------------------------------------------------
(* The other threads.                                                      *)

\* RiskCoordinator: the channel's policy drops or delays what does not fit.
Decide(i, ok) == /\ connected /\ pc # "exited"
                 /\ arrived < MaxDecisions /\ Len(decisions) < QueueCap
                 /\ decisions' = Append(decisions, [intent |-> i, approved |-> ok])
                 /\ arrived' = arrived + 1
                 /\ UNCHANGED connected
                 /\ UNCHANGED <<thread, tokens, records, switch, events, broker, breaker>>

Disconnect == /\ connected /\ connected' = FALSE
              /\ UNCHANGED <<decisions, arrived>>
              /\ UNCHANGED <<thread, tokens, records, switch, events, broker, breaker>>

Refill == /\ tokens < Burst /\ tokens' \in (tokens + 1)..Burst
          /\ UNCHANGED <<thread, input, records, switch, events, broker, breaker>>

\* KillSwitch::activate and clear, by the command thread or a watchdog.
Activate == /\ killed' = TRUE
            /\ lateCalls' = IF killed THEN lateCalls ELSE 0
            /\ UNCHANGED <<openOrders, orders, acked>>
            /\ UNCHANGED <<thread, input, tokens, records, events, breaker>>

Clear == /\ killed' = FALSE
         /\ UNCHANGED openOrders
         /\ UNCHANGED <<thread, input, tokens, records, events, broker, breaker>>

\* The lifecycle handler leaves its loop once it sees the switch active,
\* after draining the channel.
HandleEvent == /\ handler /\ lifecycle > 0
               /\ lifecycle' = lifecycle - 1
               /\ UNCHANGED handler
               /\ UNCHANGED <<thread, input, tokens, records, switch, broker, breaker>>

HandlerExit == /\ handler /\ killed
               /\ handler' = FALSE /\ lifecycle' = 0
               /\ UNCHANGED <<thread, input, tokens, records, switch, broker, breaker>>

BreakerOperator == /\ CB!Operator
                   /\ UNCHANGED <<thread, input, tokens, records, switch, events, broker>>

BreakerClock == /\ CB!Clock
                /\ UNCHANGED <<thread, input, tokens, records, switch, events, broker>>

Init == /\ pc = "head" /\ cur = Nobody /\ attempt = 0
        /\ decisions = <<>> /\ connected = TRUE /\ arrived = 0
        /\ tokens = Burst
        /\ processed = {} /\ journal = {}
        /\ killed = FALSE /\ openOrders = {}
        /\ lifecycle = 0 /\ handler = TRUE
        /\ orders = [i \in Intents |-> 0] /\ acked = {} /\ lateCalls = 0
        /\ CB!Init

Environment == \/ \E i \in Intents, ok \in BOOLEAN : Decide(i, ok)
               \/ Disconnect
               \/ Refill
               \/ Activate \/ Clear
               \/ BreakerOperator \/ BreakerClock

Next == ThreadStep \/ HandleEvent \/ HandlerExit \/ Environment

Spec == Init /\ [][Next]_vars

(* Both threads are scheduled and every broker call returns (its client    *)
(* has a 30 s timeout).  Nothing is assumed of operators and the clock.    *)
FairSpec == Spec /\ WF_vars(ThreadStep) /\ WF_vars(HandleEvent) /\ WF_vars(HandlerExit)

-----------------------------------------------------------------------------
Steps == {"head", "recv", "gate", "breaker", "rate", "dedup", "pending",
          "submit", "backoff", "track", "mark", "submitted", "notify", "success",
          "failed", "failure", "drain", "exited"}

\* Steps at which the thread carries a decision.
Carrying == Steps \ {"head", "recv", "drain", "exited"}

Decisions == [intent : Intents, approved : BOOLEAN]
Entries == [intent : Intents, status : {"Pending", "Submitted", "Failed"}]

Tries == IF MaxRetries = 0 THEN 1 ELSE MaxRetries

TypeOK == /\ pc \in Steps /\ attempt \in Nat
          /\ cur \in Intents \cup {Nobody}
          /\ pc \in Carrying => cur \in Intents
          /\ decisions \in Seq(Decisions)
          /\ connected \in BOOLEAN /\ arrived \in Nat /\ tokens \in 0..Burst
          /\ processed \subseteq Intents
          /\ journal \subseteq Entries
          /\ killed \in BOOLEAN
          /\ acked \subseteq Intents \X Nat /\ openOrders \subseteq Intents \X Nat
          /\ lifecycle \in 0..LifecycleCap /\ handler \in BOOLEAN
          /\ orders \in [Intents -> Nat] /\ lateCalls \in Nat

(* The thread keeps its promise about intents: once the broker's           *)
(* acknowledgement of an order for an intent has come back, no later       *)
(* decision, retry, early return or breaker state leads to another one.    *)
Placed == {o[1] : o \in acked}

Submission == INSTANCE OrderSubmission WITH placed <- Placed

ImplementsSubmission == Submission!Spec

(* Every order the broker has acknowledged is one the kill switch lists,   *)
(* from the step after the acknowledgement on, and it lists no other.      *)
AcknowledgedAreTracked ==
  /\ openOrders \subseteq acked
  /\ \A o \in acked : o \in openOrders \/ (pc = "track" /\ o = NewestOrder(cur))

(* The records follow the order: an intent is marked only when its order   *)
(* is tracked, and the journal calls it submitted only once it is marked,  *)
(* so neither record ever promises an order the switch cannot list.        *)
RecordsFollowOrders ==
  /\ \A i \in processed : \E o \in openOrders : o[1] = i
  /\ \A e \in journal : e.status = "Submitted" => e.intent \in processed

(* Throwing the kill switch stops the thread but for the decision it is    *)
(* carrying: whatever is queued, and whether or not the switch is cleared  *)
(* and thrown again meanwhile, the broker is called no more often than one *)
(* decision's retries allow.                                               *)
LateCallsBounded == lateCalls <= Tries

(* While the breaker is open, the only decision on its way to the broker   *)
(* is one that was let through before it opened, whatever operators, the   *)
(* clock and late reports did to the breaker meanwhile.                    *)
OpenBreakerHoldsBack ==
  state = "Open" /\ pc \in {"rate", "dedup", "pending", "submit", "backoff"}
    => Exec \in early

(* The thread never blocks for ever on a channel or a retry.               *)
ThreadReturns == []<>(pc \in {"head", "exited"})

(* A switch that stays thrown ends the thread.                             *)
KillEndsThread == []<>~killed \/ <>(pc = "exited")

(* The two together: nothing but its work keeps the thread.                *)
ThreadIsNotHeld == ThreadReturns /\ KillEndsThread
=============================================================================
