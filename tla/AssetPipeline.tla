----------------------------- MODULE AssetPipeline -----------------------------
(***************************************************************************)
(* The pipeline of one asset: tick reactor, asset processor with its       *)
(* strategy, risk coordinator and execution thread, joined by bounded      *)
(* channels, and the command thread that swaps the strategy or             *)
(* unsubscribes the asset.                                                 *)
(*                                                                         *)
(* A tick is normalised, turned into features and predicted upon inside    *)
(* the processor: what matters here is whether it reaches the strategy and *)
(* which zone its score falls in.  The limits of the risk check and the    *)
(* gates of the execution thread are one choice each: Execution models the *)
(* latter.  The prediction thread only watches shadow models and is left   *)
(* out; it ends when the processor has.                                    *)
(*                                                                         *)
(* An intent's signed units are +1 when it raises the position and -1 when *)
(* it lowers it; the strategy's own position, stance, moves when it emits  *)
(* an intent and hears nothing of what becomes of it.                      *)
(***************************************************************************)
EXTENDS Integers, Sequences, SequencesExt

CONSTANTS
  MdCap, RiskCap, DecisionCap,  \* channel capacities
  Policies,                     \* BackpressurePolicy values the configuration may name
  MaxIntents,                   \* bound on the intents emitted
  MaxSwaps                      \* bound on the SwapStrategy commands

ASSUME PipelineAssumption ==
  /\ {MdCap, RiskCap, DecisionCap} \subseteq Nat \ {0}
  /\ MaxIntents \in Nat /\ MaxSwaps \in Nat
  /\ Policies \subseteq {"DropNewest", "DropOldest", "Block"}

VARIABLES
  killed,        \* KillSwitch.active
  policy,        \* risk_backpressure_policy
  reactor,       \* the reactor's thread: running or gone
  commands,      \* its control channel
  target,        \* whether handler_array holds the asset's sender
  ticks,         \* ticks in the asset's tick channel
  processor,     \* what the processor does next
  batch,         \* ticks of its batch not yet processed
  stance,        \* hysteresis_state
  intent,        \* the intent it is sending
  emitted,       \* intents emitted
  requests,      \* risk channel
  coordinator, request, sawKill, decision,
  decisions,     \* decision channel
  executor, taken,
  control,       \* what the command thread does next with UnsubscribeFeed
  swaps,
  settled, lost, forgotten,  \* history: signed units ordered, units of intents
                             \* that were dropped or refused, stances swapped away
  account,       \* the broker's position
  late           \* history: approvals given since the switch was thrown

reactors  == <<reactor, commands, target>>
strategy  == <<stance, emitted, swaps, forgotten>>
processing == <<processor, batch, intent>>
coordination == <<coordinator, request, sawKill, decision, late>>
execution == <<executor, taken, settled, account>>
vars == <<killed, policy, reactors, ticks, processing, strategy, requests,
          coordination, decisions, execution, control, lost>>

Rises == {"Long", "CloseShort"}
Sides == Rises \cup {"Short", "CloseLong"}

Units(side) == IF side \in Rises THEN 1 ELSE -1

\* The request's side byte and what the execution thread makes of it.
SideCode(side) == CASE side = "Long" -> 1 [] side = "Short" -> 2
                    [] side = "CloseLong" -> 3 [] side = "CloseShort" -> 4

Order(code) == IF code \in {0, 2, 4} THEN 1 ELSE -1

NoIntent == [id |-> 0, side |-> "none"]
Intents == [id : 1..MaxIntents, side : Sides]

Judged(i, ok) == [intent |-> i, approved |-> ok]

Lose(is) == lost' = FoldSeq(LAMBDA i, sum : sum + Units(i.side), lost, is)

-----------------------------------------------------------------------------
(* The tick reactor.                                                       *)

\* One round's tick: it goes to whom handler_array names, or nowhere when the
\* channel is full or its receiver gone.
Tick == /\ reactor = "running"
        /\ ticks' = IF target /\ ticks < MdCap /\ processor # "gone" THEN ticks + 1 ELSE ticks
        /\ UNCHANGED <<killed, policy, reactors, processing, strategy, requests,
                       coordination, decisions, execution, control, lost>>

\* subscribe stores the sender in handler_array; unsubscribe removes the
\* symbol's statistics only.
ControlBatch == /\ reactor = "running" /\ commands # <<>>
                /\ target' = (target \/ Head(commands) = "subscribe")
                /\ commands' = Tail(commands)
                /\ UNCHANGED <<killed, policy, reactor, ticks, processing, strategy, requests,
                               coordination, decisions, execution, control, lost>>

ReactorStops == /\ reactor = "running" /\ killed
                /\ reactor' = "gone" /\ target' = FALSE
                /\ UNCHANGED <<killed, policy, commands, ticks, processing, strategy,
                               requests, coordination, decisions, execution, control, lost>>

-----------------------------------------------------------------------------
(* The asset processor.                                                    *)

\* A tick's score against the thresholds: 2 above long_entry, -2 below
\* short_entry; within the deadband of them 1 and -1; 0 between.
Scores == -2..2

\* The transitions of apply_hysteresis.
Transition(side, score) ==
  CASE side = "Long"       -> stance = 0 /\ score = 2
    [] side = "Short"      -> stance = 0 /\ score = -2
    [] side = "CloseLong"  -> stance = 1 /\ score < 1
    [] side = "CloseShort" -> stance = -1 /\ score > -1

\* recv_batch: whatever is in the channel, nothing when it is empty or
\* disconnected.  Channel and batch have the same bound here.
Receive == /\ processor = "loop" /\ ~killed /\ batch = 0
           /\ batch' = ticks /\ ticks' = 0
           /\ UNCHANGED <<killed, policy, reactors, processor, intent, strategy, requests,
                          coordination, decisions, execution, control, lost>>

\* A tick that is rejected as malformed, finds the switch thrown, or makes the
\* strategy say nothing: stale or unsure prediction, cooldown, no transition; or
\* one of those that a tick over its time budget lets skip the strategy.
Pass == /\ processor = "loop" /\ batch > 0
        /\ batch' = batch - 1
        /\ UNCHANGED <<killed, policy, reactors, ticks, processor, intent, strategy, requests,
                       coordination, decisions, execution, control, lost>>

Emit(side) == /\ emitted < MaxIntents /\ emitted' = emitted + 1
              /\ stance' = stance + Units(side)
              /\ intent' = [id |-> emitted', side |-> side]
              /\ UNCHANGED <<swaps, forgotten>>

Evaluate(side, score) ==
  /\ processor = "loop" /\ batch > 0 /\ ~killed
  /\ Transition(side, score) /\ Emit(side)
  /\ batch' = batch - 1 /\ processor' = "send"
  /\ UNCHANGED <<killed, policy, reactors, ticks, requests, coordination, decisions,
                 execution, control, lost>>

Deliver == /\ requests' = Append(requests, intent)
           /\ processor' = "loop" /\ intent' = NoIntent

GiveUp == /\ Lose(<<intent>>)
          /\ processor' = "loop" /\ intent' = NoIntent

\* send_with_policy to the risk channel, which never disconnects: the processor
\* holds one of its receivers.  A full channel makes Block wait, but no longer
\* than its timeout, and DropOldest take the oldest out in a step of its own.
Send == /\ processor = "send"
        /\ \/ Len(requests) < RiskCap /\ Deliver /\ UNCHANGED lost
           \/ /\ Len(requests) = RiskCap /\ policy # "DropOldest"
              /\ GiveUp /\ UNCHANGED requests
           \/ /\ Len(requests) = RiskCap /\ policy = "DropOldest"
              /\ processor' = "evict" /\ UNCHANGED <<intent, requests, lost>>
        /\ UNCHANGED <<killed, policy, reactors, ticks, batch, strategy, coordination,
                       decisions, execution, control>>

\* Mutant: the evicted request is put back behind the new one.
EvictRotates ==
  /\ processor = "evict"
  /\ IF requests = <<>> THEN GiveUp /\ UNCHANGED requests
     ELSE /\ requests' = Append(Append(Tail(requests), intent), Head(requests))
          /\ processor' = "loop" /\ intent' = NoIntent /\ UNCHANGED lost
  /\ UNCHANGED <<killed, policy, reactors, ticks, batch, strategy, coordination, decisions,
                 execution, control>>

\* The coordinator may have emptied the channel meanwhile: then the new intent
\* is dropped into the void.
Evict == /\ processor = "evict"
         /\ \/ requests = <<>> /\ GiveUp /\ UNCHANGED requests
            \/ /\ requests # <<>> /\ Lose(<<Head(requests)>>)
               /\ requests' = Append(Tail(requests), intent)
               /\ processor' = "loop" /\ intent' = NoIntent
         /\ UNCHANGED <<killed, policy, reactors, ticks, batch, strategy, coordination,
                        decisions, execution, control>>

\* Mutant: the loop ends when the tick channel disconnects.
ProcessorStopsDisconnected ==
  /\ processor = "loop" /\ batch = 0 /\ ~target /\ control # "idle"
  /\ processor' = "gone" /\ ticks' = 0
  /\ UNCHANGED <<killed, policy, reactors, batch, intent, strategy, requests, coordination,
                 decisions, execution, control, lost>>

\* Leaving the loop, draining the ticks and dropping the risk channel's sender.
ProcessorStops == /\ processor = "loop" /\ batch = 0 /\ killed
                  /\ processor' = "gone" /\ ticks' = 0
                  /\ UNCHANGED <<killed, policy, reactors, batch, intent, strategy, requests,
                                 coordination, decisions, execution, control, lost>>

-----------------------------------------------------------------------------
(* The risk coordinator.                                                   *)

TakeRequest == /\ coordinator = "loop" /\ requests # <<>>
               /\ request' = Head(requests) /\ requests' = Tail(requests)
               /\ coordinator' = "read"
               /\ UNCHANGED <<killed, policy, reactors, ticks, processing, strategy, sawKill,
                              decision, late, decisions, execution, control, lost>>

ReadSwitch == /\ coordinator = "read"
              /\ sawKill' = killed /\ coordinator' = "check"
              /\ UNCHANGED <<killed, policy, reactors, ticks, processing, strategy, requests,
                             request, decision, late, decisions, execution, control, lost>>

\* RiskEngine::check with the kill switch as a veto; the other vetoes are a choice.
Check(approved) ==
  /\ coordinator = "check" /\ (approved => ~sawKill)
  /\ decision' = Judged(request, approved) /\ request' = NoIntent /\ sawKill' = FALSE
  /\ late' = IF approved /\ killed THEN late + 1 ELSE late
  /\ coordinator' = "send"
  /\ UNCHANGED <<killed, policy, reactors, ticks, processing, strategy, requests,
                 decisions, execution, control, lost>>

NoDecision == Judged(NoIntent, FALSE)

\* send_with_policy without a receiver: DropOldest drops the newest too.
SendDecision ==
  /\ coordinator = "send" /\ decision' = NoDecision
  /\ \/ /\ executor # "gone" /\ Len(decisions) < DecisionCap
        /\ decisions' = Append(decisions, decision)
        /\ coordinator' = "loop" /\ UNCHANGED lost
     \/ /\ executor # "gone" /\ Len(decisions) = DecisionCap
        /\ Lose(<<decision.intent>>)
        /\ coordinator' = "loop" /\ UNCHANGED decisions
     \/ /\ executor = "gone" /\ Lose(<<decision.intent>>)
        /\ coordinator' = "drain" /\ UNCHANGED decisions
  /\ UNCHANGED <<killed, policy, reactors, ticks, processing, strategy, requests, request,
                 sawKill, late, execution, control>>

CoordinatorLeaves == /\ coordinator = "loop" /\ requests = <<>> /\ processor = "gone"
                     /\ coordinator' = "drain"
                     /\ UNCHANGED <<killed, policy, reactors, ticks, processing, strategy,
                                    requests, request, sawKill, decision, late, decisions,
                                    execution, control, lost>>

\* Mutant: what is left is judged as usual, by the switch as it was last read.
DrainRequestsJudging ==
  /\ coordinator = "drain" /\ requests # <<>>
  /\ requests' = Tail(requests)
  /\ late' = IF ~sawKill /\ killed THEN late + 1 ELSE late
  /\ Lose(<<Head(requests)>>) /\ UNCHANGED <<coordinator, decisions>>
  /\ UNCHANGED <<killed, policy, reactors, ticks, processing, strategy, request, sawKill,
                 decision, execution, control>>

\* What is left is rejected; the rejection is sent if there is room for it.
DrainRequests ==
  /\ coordinator = "drain"
  /\ \/ /\ requests # <<>> /\ requests' = Tail(requests) /\ UNCHANGED coordinator
        /\ IF executor # "gone" /\ Len(decisions) < DecisionCap
           THEN /\ decisions' = Append(decisions, Judged(Head(requests), FALSE))
                /\ UNCHANGED lost
           ELSE Lose(<<Head(requests)>>) /\ UNCHANGED decisions
     \/ /\ requests = <<>> /\ coordinator' = "gone"
        /\ UNCHANGED <<requests, decisions, lost>>
  /\ UNCHANGED <<killed, policy, reactors, ticks, processing, strategy, request, sawKill,
                 decision, late, execution, control>>

-----------------------------------------------------------------------------
(* The execution thread, as far as the pipeline tells.                     *)

TakeDecision == /\ executor = "loop" /\ ~killed /\ decisions # <<>>
                /\ taken' = Head(decisions) /\ decisions' = Tail(decisions)
                /\ executor' = "taken"
                /\ UNCHANGED <<killed, policy, reactors, ticks, processing, strategy, requests,
                               coordination, settled, account, control, lost>>

\* Rejected by risk, by the kill switch, the breaker, or a later gate.
Refuse == /\ executor = "taken"
          /\ Lose(<<taken.intent>>)
          /\ executor' = "loop" /\ taken' = NoDecision
          /\ UNCHANGED <<killed, policy, reactors, ticks, processing, strategy, requests,
                         coordination, decisions, settled, account, control>>

Execute == /\ executor = "taken" /\ taken.approved
           /\ settled' = settled + Units(taken.intent.side)
           /\ account' = account + Order(SideCode(taken.intent.side))
           /\ executor' = "loop" /\ taken' = NoDecision
           /\ UNCHANGED <<killed, policy, reactors, ticks, processing, strategy, requests,
                          coordination, decisions, control, lost>>

ExecutorStops == /\ executor = "loop"
                 /\ killed \/ (decisions = <<>> /\ coordinator = "gone")
                 /\ executor' = "gone" /\ decisions' = <<>>
                 /\ Lose([n \in 1..Len(decisions) |-> decisions[n].intent])
                 /\ UNCHANGED <<killed, policy, reactors, ticks, processing, strategy, requests,
                                coordination, taken, settled, account, control>>

-----------------------------------------------------------------------------
(* The command thread.                                                     *)

\* A new StrategyEngine, which starts flat.
SwapStrategy == /\ swaps < MaxSwaps /\ swaps' = swaps + 1
                /\ forgotten' = forgotten + stance /\ stance' = 0
                /\ UNCHANGED <<killed, policy, reactors, ticks, processing, emitted, requests,
                               coordination, decisions, execution, control, lost>>

Ended == processor = "gone" /\ coordinator = "gone" /\ executor = "gone"

\* UnsubscribeFeed drops the pipeline's tick sender and joins its threads.
Unsubscribe == /\ control = "idle" /\ control' = "join"
               /\ UNCHANGED <<killed, policy, reactors, ticks, processing, strategy, requests,
                              coordination, decisions, execution, lost>>

\* join_with_timeout, one thread after the other: each has ended or is given up
\* after five seconds.
Join == /\ control = "join" /\ control' = "tell"
        /\ UNCHANGED <<killed, policy, reactors, ticks, processing, strategy, requests,
                       coordination, decisions, execution, lost>>

TellReactor == /\ control = "tell" /\ control' = "done"
               /\ commands' = IF reactor = "gone" THEN commands
                              ELSE Append(commands, "unsubscribe")
               /\ UNCHANGED <<killed, policy, reactor, target, ticks, processing,
                              strategy, requests, coordination, decisions, execution,
                              lost>>

\* Any of the engine's threads or an operator.
Activate == /\ ~killed /\ killed' = TRUE /\ late' = 0
            /\ UNCHANGED <<policy, reactors, ticks, processing, strategy, requests,
                           coordinator, request, sawKill, decision, decisions, execution,
                           control, lost>>

Clear == /\ killed /\ killed' = FALSE
         /\ UNCHANGED <<policy, reactors, ticks, processing, strategy, requests,
                        coordination, decisions, execution, control, lost>>

-----------------------------------------------------------------------------
Init ==
  /\ killed = FALSE /\ policy \in Policies
  /\ reactor = "running" /\ commands = <<"subscribe">> /\ target = FALSE
  /\ ticks = 0 /\ processor = "loop" /\ batch = 0 /\ intent = NoIntent
  /\ stance = 0 /\ emitted = 0 /\ swaps = 0 /\ forgotten = 0
  /\ requests = <<>> /\ coordinator = "loop" /\ request = NoIntent /\ sawKill = FALSE
  /\ decision = NoDecision /\ late = 0
  /\ decisions = <<>> /\ executor = "loop" /\ taken = NoDecision
  /\ settled = 0 /\ account = 0 /\ lost = 0
  /\ control = "idle"

ReactorStep == ControlBatch \/ ReactorStops
ProcessorStep == \/ Receive \/ Pass \/ Send \/ Evict \/ ProcessorStops
                 \/ \E side \in Sides, score \in Scores : Evaluate(side, score)
CoordinatorStep == \/ TakeRequest \/ ReadSwitch \/ SendDecision
                   \/ CoordinatorLeaves \/ DrainRequests
                   \/ \E approved \in BOOLEAN : Check(approved)
ExecutorStep == TakeDecision \/ Refuse \/ Execute \/ ExecutorStops
ControlStep == Join \/ TellReactor

Next == \/ Tick \/ ReactorStep \/ ProcessorStep \/ CoordinatorStep \/ ExecutorStep
        \/ ControlStep \/ Unsubscribe \/ SwapStrategy \/ Activate \/ Clear

Spec == Init /\ [][Next]_vars

\* Every thread keeps running; nobody has to send a tick, a command or a kill.
FairSpec == /\ Spec
            /\ WF_vars(ReactorStep) /\ WF_vars(ProcessorStep) /\ WF_vars(CoordinatorStep)
            /\ WF_vars(ExecutorStep) /\ WF_vars(ControlStep)

-----------------------------------------------------------------------------
Holding(i) == IF i = NoIntent THEN <<>> ELSE <<i>>

\* The intents on their way, from the one the execution thread has in hand
\* back to the one the processor is sending.
OnTheirWay ==
  Holding(taken.intent) \o [n \in DOMAIN decisions |-> decisions[n].intent]
    \o Holding(decision.intent) \o Holding(request) \o requests \o Holding(intent)

TypeOK ==
  /\ {killed, target, sawKill} \subseteq BOOLEAN
  /\ policy \in Policies
  /\ reactor \in {"running", "gone"}
  /\ commands \in Seq({"subscribe", "unsubscribe"})
  /\ ticks \in 0..MdCap /\ batch \in 0..MdCap
  /\ processor \in {"loop", "send", "evict", "gone"}
  /\ coordinator \in {"loop", "read", "check", "send", "drain", "gone"}
  /\ executor \in {"loop", "taken", "gone"}
  /\ {intent, request} \subseteq Intents \cup {NoIntent}
  /\ requests \in Seq(Intents) /\ Len(requests) <= RiskCap
  /\ decisions \in Seq([intent : Intents, approved : BOOLEAN]) /\ Len(decisions) <= DecisionCap
  /\ {decision, taken} \subseteq [intent : Intents \cup {NoIntent}, approved : BOOLEAN]
  /\ stance \in -1..1 /\ emitted \in 0..MaxIntents /\ swaps \in 0..MaxSwaps
  /\ {settled, account, lost, forgotten} \subseteq Int /\ late \in Nat
  /\ control \in {"idle", "join", "tell", "done"}

\* The strategy's position is what was ordered for it, plus what is on its way,
\* plus what was dropped or refused without its knowledge, less what swaps made
\* it forget: no intent is lost or doubled without being counted.
StanceAccounted ==
  stance + forgotten
    = settled + lost + FoldSeq(LAMBDA i, sum : sum + Units(i.side), 0, OnTheirWay)

\* Whatever is dropped, evicted or drained, intents reach the execution thread
\* in the order in which the strategy emitted them, and none twice: an exit
\* never overtakes the entry it closes.
OrderKept ==
  LET way == OnTheirWay
  IN  \A m, n \in DOMAIN way : m < n => way[m].id < way[n].id

\* Once the switch is thrown, at most the request the coordinator had already
\* read the switch for is still approved.
OneLateApproval == late <= 1

\* A switch that stays thrown ends every thread of the pipeline, whatever is in
\* its channels and whichever ends first.
KillEndsPipeline ==
  []<>~killed \/ <>(reactor = "gone" /\ Ended)

\* The two together: no intent is lost, doubled or overtaken uncounted.
IntentsAreAccounted == StanceAccounted /\ OrderKept
=============================================================================
