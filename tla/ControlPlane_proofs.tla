------------------------- MODULE ControlPlane_proofs -------------------------
(***************************************************************************)
(* Proofs about the process around the trading threads, for any set of     *)
(* workers and any capacity of the command channel, and about the          *)
(* configuration its actor spreads, for any symbols, versions and callers. *)
(***************************************************************************)
EXTENDS ControlPlane, ConfigRollout, SequenceTheorems, TLAPS

\* Where main has not started the actor yet, and where it holds the engine lock.
StartingUp == {"boot", "start", "save", "clear", "clearConfig"}
ShuttingDown == {"stop", "join", "flush", "journal"}

(* The engine lock is held by whom the program counters say, the switch    *)
(* stays thrown under main's, and main gets past the join only without the *)
(* actor: what keeps commands out of the end of shutdown.                  *)
LockInv == /\ lock = "main" <=> main \in ShuttingDown
           /\ lock = "actor" <=> actor = "handle"
           /\ main \in ShuttingDown => killed
           /\ main \in {"flush", "journal"} => actor = "exited"
           /\ main \in StartingUp => actor = "off"

(* The state file has counted at least the startups that were let through, *)
(* but for two per failed access; where it does not hold the last startup, *)
(* it may be counted upon for nothing.                                     *)
CountInv == /\ count \in 0..2 /\ failed \in Nat /\ lost \in Nat
            /\ failed <= count + 2 * lost
            /\ recorded = TRUE \/ failed <= 2 * lost

USE ControlPlaneAssumption

-----------------------------------------------------------------------------
LEMMA LockStep ==
  ASSUME LockInv, [Next]_vars PROVE LockInv'
<1> USE DEF LockInv, ShuttingDown, StartingUp, Goto, actorVars
<1>1. CASE Startup
  BY <1>1 DEF Startup, Boot, Start, SaveConfig, ClearState, ClearConfig
<1>2. CASE Send \/ Notice \/ Interrupt \/ WatcherReload \/ \E c \in Commands : Request(c)
  BY <1>2 DEF Send, Notice, Interrupt, WatcherReload, Request
<1>3. CASE EnterShutdown
  BY <1>3 DEF EnterShutdown
<1>4. CASE StopActor \/ JoinActor \/ FlushJournal
  BY <1>4 DEF StopActor, JoinActor, FlushJournal
<1>5. CASE ActorCheck \/ ActorReceive \/ ActorTimeout \/ ActorLock
  BY <1>5 DEF ActorCheck, ActorReceive, ActorTimeout, ActorLock
<1>6. CASE ActorHandle
  BY <1>6 DEF ActorHandle
<1>7. CASE MonitorCheck
  BY <1>7 DEF MonitorCheck
<1>8. CASE \E w \in Workers : Pulse(w) \/ WorkerExit(w) \/ Trouble(w)
  BY <1>8 DEF Pulse, WorkerExit, Trouble, Stall, Resume, Panic, Age, SetStatus, SetHeartbeat
<1>9. CASE Crash
  BY <1>9 DEF Crash, Fresh
<1>10. CASE UNCHANGED vars
  BY <1>10 DEF vars
<1>11. QED
  BY <1>1, <1>2, <1>3, <1>4, <1>5, <1>6, <1>7, <1>8, <1>9, <1>10
     DEF Next, MainStep, Shutdown, ActorStep

\* Beginning a run of startups anew, or going on with one.
LEMMA BootStep ==
  ASSUME CountInv, NEW quick \in BOOLEAN, Boot(quick) PROVE CountInv'
<1>1. PICK seen \in {count, 0}, near \in BOOLEAN, outcome \in Detector!Outcomes :
        /\ recorded => near = quick
        /\ Detector!CheckAndRecordStartup(seen, near, outcome)
        /\ safe' = Detector!Loops(seen, near)
        /\ IF safe' THEN failed' = 0 /\ lost' = 0
           ELSE LetThrough(quick, Failures(seen, outcome))
  BY DEF Boot
<1>2. CASE Detector!Loops(seen, near)
  BY <1>1, <1>2 DEF CountInv, Detector!CheckAndRecordStartup
<1>3. CASE ~Detector!Loops(seen, near)
  <2>0. PICK f, l : f = (IF quick THEN failed ELSE 0) /\ l = (IF quick THEN lost ELSE 0)
    OBVIOUS
  <2>1. /\ f \in Nat /\ l \in Nat /\ f <= count + 2 * l
        /\ ~quick => f = 0
        /\ quick => recorded = TRUE \/ f <= 2 * l
    BY <2>0 DEF CountInv
  <2>2. failed' = f + 1 /\ lost' = l + Failures(seen, outcome)
    BY <1>1, <1>3, <2>0 DEF LetThrough
  <2>3. CASE outcome = "written"
    <3>1. count' = Detector!Counted(seen, near) /\ recorded' = TRUE
      BY <1>1, <1>3, <2>3 DEF Detector!CheckAndRecordStartup
    <3>2. Failures(seen, outcome) = IF seen # count THEN 1 ELSE 0
      BY <2>3 DEF Failures
    <3>3. QED
      BY <1>1, <1>3, <2>1, <2>2, <3>1, <3>2
         DEF CountInv, Detector!Counted, Detector!Loops, Detector!Limit
  <2>4. CASE outcome # "written"
    <3>1. count' \in {count, 0} /\ recorded' = FALSE
      BY <1>1, <1>3, <2>4 DEF Detector!CheckAndRecordStartup
    <3>2. Failures(seen, outcome) = IF seen # count THEN 2 ELSE 1
      BY <2>4 DEF Failures
    <3>3. f + 1 <= 2 * (l + Failures(seen, outcome))
      BY <1>1, <1>3, <2>1, <3>2 DEF CountInv, Detector!Counted, Detector!Loops, Detector!Limit
    <3>4. PICK k \in {1, 2} : k = Failures(seen, outcome)
      BY <3>2
    <3>5. failed' \in Nat /\ lost' \in Nat /\ failed' <= 2 * lost'
      BY <2>1, <2>2, <3>3, <3>4
    <3>6. count' \in 0..2
      BY <3>1 DEF CountInv
    <3>7. failed' <= count' + 2 * lost'
      <4>1. \A x, y, z \in Nat : x <= 2 * y => x <= z + 2 * y
        OBVIOUS
      <4>2. count' \in Nat
        BY <3>6
      <4>3. QED
        BY <3>5, <4>1, <4>2
    <3>8. QED
      BY <3>5, <3>6, <3>7 DEF CountInv
  <2>5. QED
    BY <2>3, <2>4
<1>4. QED
  BY <1>2, <1>3

LEMMA CountStep ==
  ASSUME CountInv, [Next]_vars PROVE CountInv'
<1> USE DEF CountInv, files, history
<1>1. CASE \E quick \in BOOLEAN : Boot(quick)
  BY <1>1, BootStep
<1>2. CASE ClearState
  BY <1>2 DEF ClearState, Detector!Clear, Detector!crashVars
<1>3. CASE SaveConfig \/ ClearConfig
  BY <1>3 DEF SaveConfig, ClearConfig
<1>4. CASE Start \/ Send \/ Shutdown \/ Notice \/ ActorStep \/ MonitorCheck
  BY <1>4 DEF Start, Send, Shutdown, EnterShutdown, StopActor, JoinActor, FlushJournal, Notice,
              ActorStep, ActorCheck, ActorReceive, ActorTimeout, ActorLock, ActorHandle, MonitorCheck
<1>5. CASE \E w \in Workers : Pulse(w) \/ WorkerExit(w) \/ Trouble(w)
  BY <1>5 DEF Pulse, WorkerExit, Trouble, Stall, Resume, Panic, Age, SetStatus, SetHeartbeat
<1>6. CASE (\E c \in Commands : Request(c)) \/ Interrupt \/ WatcherReload \/ Crash \/ UNCHANGED vars
  BY <1>6 DEF Request, Interrupt, WatcherReload, Crash, vars
<1>7. QED
  BY <1>1, <1>2, <1>3, <1>4, <1>5, <1>6 DEF Next, MainStep, Startup

(* Whatever commands, interrupts, crashes and late workers come, no        *)
(* command is handled once shutdown has got to the journal's flush, and    *)
(* the switch is then thrown.                                              *)
THEOREM QuietFlush == Spec => []NoCommandAfterFlush
<1>1. Init => LockInv
  BY DEF Init, LockInv, ShuttingDown, StartingUp
<1>2. LockInv => NoCommandAfterFlush
  BY DEF LockInv, NoCommandAfterFlush, ShuttingDown
<1>3. QED
  BY <1>1, <1>2, LockStep, PTL DEF Spec

(* At whatever steps processes die, and whatever becomes of the reads and  *)
(* writes of the state file, a crash loop is let through twice, and twice  *)
(* more for each of them that failed: the next startup is in safe mode.    *)
THEOREM LoopStopped == Spec => []LoopIsStopped
<1>1. Init => CountInv
  BY DEF Init, CountInv, Detector!Init
<1>2. CountInv => LoopIsStopped
  BY DEF CountInv, LoopIsStopped, Detector!Limit
<1>3. QED
  BY <1>1, <1>2, CountStep, PTL DEF Spec

-----------------------------------------------------------------------------
(* What a step may do to a configuration, as far as types go, and which    *)
(* version of which group it then is.                                      *)
LEMMA ConfigTyped ==
  ASSUME NEW c \in Config, NEW g \in Groups, NEW v \in Versions
  PROVE  /\ [c EXCEPT !.version[g] = v] \in Config
         /\ \A h \in Groups : [c EXCEPT !.version[g] = v].version[h]
                                = IF h = g THEN v ELSE c.version[h]
<1> DEFINE w == [c.version EXCEPT ![g] = v]
<1>1. w \in [Groups -> Versions] /\ \A h \in Groups : w[h] = IF h = g THEN v ELSE c.version[h]
  BY DEF Config
<1>2. [c EXCEPT !.version[g] = v] = [version |-> w, enabled |-> c.enabled]
  BY DEF Config
<1> HIDE DEF w
<1>3. c.enabled \in SUBSET Assets
  BY DEF Config
<1>4. QED
  BY <1>1, <1>2, <1>3 DEF Config

LEMMA EnabledTyped ==
  ASSUME NEW c \in Config, NEW e \in SUBSET Assets
  PROVE  [c EXCEPT !.enabled = e] \in Config /\ [c EXCEPT !.enabled = e].version = c.version
BY DEF Config

LEMMA StagedTyped ==
  ASSUME NEW c \in Config, NEW v \in Versions, NEW e \in SUBSET Assets
  PROVE  /\ [c EXCEPT !.version["risk"] = v, !.enabled = e] \in Config
         /\ [c EXCEPT !.version["risk"] = v, !.enabled = e].version["breaker"]
              = c.version["breaker"]
         /\ v = c.version["risk"] /\ e = c.enabled
              => [c EXCEPT !.version["risk"] = v, !.enabled = e] = c
<1> DEFINE w == [c.version EXCEPT !["risk"] = v]
           d == [c EXCEPT !.version["risk"] = v]
<1>1. /\ w \in [Groups -> Versions] /\ w["breaker"] = c.version["breaker"]
      /\ v = c.version["risk"] => w = c.version
  BY DEF Config, Groups
<1>2. d = [version |-> w, enabled |-> c.enabled]
  BY DEF Config
<1>3. [c EXCEPT !.version["risk"] = v, !.enabled = e] = [d EXCEPT !.enabled = e]
  OBVIOUS
<1> HIDE DEF w, d
<1>4. [c EXCEPT !.version["risk"] = v, !.enabled = e] = [version |-> w, enabled |-> e]
  BY <1>2, <1>3
<1>5. c = [version |-> c.version, enabled |-> c.enabled]
  BY DEF Config
<1>6. QED
  BY <1>1, <1>4, <1>5 DEF Config

(* What a routed command carries.                                          *)
LEMMA CommandTyped ==
  ASSUME NEW cmd \in Routed
  PROVE  /\ cmd.op \in {"subscribe", "unsubscribe", "pause", "resume", "swap"} => cmd.symbol \in Symbols
         /\ cmd.op \in {"risk", "execution", "channels", "mode", "broker", "journal", "validator",
                        "features", "models", "breaker", "rates", "swap"} => cmd.version \in Versions
         /\ cmd.op = "reload" => cmd = ReloadCommand
<1>1. Shipped \in Versions
  BY ConfigAssumption
<1>2. CASE cmd \in AssetCommands \cup SwapCommands
  BY <1>2 DEF AssetCommands, SwapCommands
<1>3. CASE cmd \in RiskCommands \cup ExecutionCommands \cup ChannelCommands
  BY <1>3 DEF RiskCommands, ExecutionCommands, ChannelCommands
<1>4. CASE cmd \in ModeCommands \cup BrokerCommands \cup JournalCommands \cup ValidatorCommands
  BY <1>1, <1>4 DEF ModeCommands, BrokerCommands, JournalCommands, ValidatorCommands
<1>5. CASE cmd \in FeatureCommands \cup ModelCommands \cup BreakerCommands \cup RateCommands
  BY <1>5 DEF FeatureCommands, ModelCommands, BreakerCommands, RateCommands
<1>6. CASE cmd = ModelSwapCommand
  <2>1. cmd.op = "model swap"
    BY <1>6 DEF ModelSwapCommand
  <2>2. QED
    BY <2>1
<1>7. CASE cmd = ReloadCommand
  <2>1. cmd.op = "reload"
    BY <1>7 DEF ReloadCommand
  <2>2. QED
    BY <1>7, <2>1
<1>8. QED
  BY <1>2, <1>3, <1>4, <1>5, <1>6, <1>7 DEF Routed

(* What a pipeline starts with, what a file says, and what setting one of  *)
(* a pipeline's fields does to its breaker's parameters.                   *)
LEMMA StartedTyped ==
  ASSUME NEW c \in Config
  PROVE  Started(c) \in Pipelines /\ Started(c).breaker = c.version["breaker"]
BY DEF Started, Config, Groups, Pipelines

LEMMA LoadTyped ==
  ASSUME NEW v \in Versions, NEW e \in SUBSET Assets
  PROVE  FileConfig(v, e) \in Config /\ DefaultConfig \in Config
BY ConfigAssumption DEF FileConfig, DefaultConfig, ShippedGroups, Uniform, Config

LEMMA FieldTyped ==
  ASSUME NEW p \in Pipelines, NEW v \in Versions
  PROVE  /\ [p EXCEPT !["features"] = v] \in Pipelines /\ [p EXCEPT !["features"] = v].breaker = p.breaker
         /\ [p EXCEPT !["models"] = v] \in Pipelines /\ [p EXCEPT !["models"] = v].breaker = p.breaker
         /\ [p EXCEPT !["rates"] = <<"api", v>>] \in Pipelines
         /\ [p EXCEPT !["rates"] = <<"api", v>>].breaker = p.breaker
         /\ [p EXCEPT !.strategy = v] \in Pipelines /\ [p EXCEPT !.strategy = v].breaker = p.breaker
<1>1. [p EXCEPT !["features"] = v] \in Pipelines /\ [p EXCEPT !["features"] = v].breaker = p.breaker
  BY DEF Pipelines
<1>2. [p EXCEPT !["models"] = v] \in Pipelines /\ [p EXCEPT !["models"] = v].breaker = p.breaker
  BY DEF Pipelines
<1>3. /\ [p EXCEPT !["rates"] = <<"api", v>>] \in Pipelines
      /\ [p EXCEPT !["rates"] = <<"api", v>>].breaker = p.breaker
  BY DEF Pipelines
<1>4. [p EXCEPT !.strategy = v] \in Pipelines /\ [p EXCEPT !.strategy = v].breaker = p.breaker
  BY DEF Pipelines
<1>5. QED
  BY <1>1, <1>2, <1>3, <1>4

LEMMA BreakerTyped ==
  ASSUME NEW p \in Pipelines, NEW v \in Versions
  PROVE  [p EXCEPT !["breaker"] = v] \in Pipelines /\ [p EXCEPT !["breaker"] = v].breaker = v
BY DEF Pipelines

LEMMA ReloadTyped ==
  ASSUME NEW p \in Pipelines, NEW v \in Versions, NEW w \in Versions
  PROVE  /\ [p EXCEPT !.breaker = v, !.rates = <<"execution", w>>] \in Pipelines
         /\ [p EXCEPT !.breaker = v, !.rates = <<"execution", w>>].breaker = v
<1> DEFINE q == [p EXCEPT !.breaker = v]
<1>1. q \in Pipelines /\ q.breaker = v
  BY DEF Pipelines
<1>2. [p EXCEPT !.breaker = v, !.rates = <<"execution", w>>]
        = [q EXCEPT !.rates = <<"execution", w>>]
  OBVIOUS
<1> HIDE DEF q
<1>3. [q EXCEPT !.rates = <<"execution", w>>] \in Pipelines
      /\ [q EXCEPT !.rates = <<"execution", w>>].breaker = v
  BY <1>1 DEF Pipelines
<1>4. QED
  BY <1>2, <1>3

(* The reload waiting in the queue is waiting still when a command has     *)
(* been put behind it, and when another has been taken.                    *)
LEMMA QueueKeeps ==
  ASSUME NEW q \in Seq(Routed), NEW cmd \in Routed
  PROVE  /\ Append(q, cmd) \in Seq(Routed) /\ Len(Append(q, cmd)) = Len(q) + 1
         /\ Contains(q, ReloadCommand) => Contains(Append(q, cmd), ReloadCommand)
         /\ Contains(Append(q, ReloadCommand), ReloadCommand)
         /\ q # <<>> => /\ Head(q) \in Routed /\ Tail(q) \in Seq(Routed) /\ Len(Tail(q)) = Len(q) - 1
                        /\ Contains(q, ReloadCommand) /\ Head(q).op # "reload"
                             => Contains(Tail(q), ReloadCommand)
<1>1. /\ Append(q, cmd) \in Seq(Routed) /\ Len(Append(q, cmd)) = Len(q) + 1
      /\ Contains(q, ReloadCommand) => Contains(Append(q, cmd), ReloadCommand)
  BY DEF Contains
<1>2. Contains(Append(q, ReloadCommand), ReloadCommand)
  BY DEF Contains
<1>3. ASSUME q # <<>>
      PROVE  /\ Head(q) \in Routed /\ Tail(q) \in Seq(Routed) /\ Len(Tail(q)) = Len(q) - 1
             /\ Contains(q, ReloadCommand) /\ Head(q).op # "reload"
                  => Contains(Tail(q), ReloadCommand)
  <2>1. /\ Head(q) \in Routed /\ Head(q) = q[1] /\ Tail(q) \in Seq(Routed)
        /\ Len(Tail(q)) = Len(q) - 1 /\ \A i \in 1..Len(Tail(q)) : Tail(q)[i] = q[i + 1]
    BY <1>3
  <2>2. ASSUME NEW i \in 1..Len(q), q[i] = ReloadCommand, Head(q).op # "reload"
        PROVE  Contains(Tail(q), ReloadCommand)
    <3>1. i # 1
      BY <2>1, <2>2 DEF ReloadCommand
    <3>2. i - 1 \in 1..Len(Tail(q)) /\ Tail(q)[i - 1] = ReloadCommand
      BY <2>1, <2>2, <3>1
    <3>3. QED
      BY <3>2 DEF Contains
  <2>3. QED
    BY <2>1, <2>2 DEF Contains
<1>4. QED
  BY <1>1, <1>2, <1>3

(* All that the steps below need of the types, and the promise itself:     *)
(* one step of anybody keeps both.                                         *)
RolloutInv == RolloutTypeOK /\ BreakersFollowConfig

LEMMA RolloutStart == RolloutInit => RolloutInv
<1> SUFFICES ASSUME RolloutInit PROVE RolloutInv
  OBVIOUS
<1>1. config \in Config /\ last \in Seq(Config) /\ Len(last) <= 1 /\ watcher \in {"absent", "idle"}
  <2>1. PICK present \in BOOLEAN : Load(present) /\ StartWatcher(present)
    BY DEF RolloutInit
  <2>2. config \in Config
    BY <2>1, LoadTyped, ConfigAssumption DEF Load
  <2>3. <<config>> \in Seq(Config) /\ Len(<<config>>) = 1
    BY <2>2
  <2>4. CASE present
    <3>1. watcher = "idle" /\ last = <<config>>
      BY <2>1, <2>4, Zenon DEF StartWatcher
    <3>2. QED
      BY <2>2, <2>3, <3>1
  <2>5. CASE ~present
    BY <2>1, <2>2, <2>5 DEF StartWatcher
  <2>6. QED
    BY <2>4, <2>5
<1>2. Started(config) \in Pipelines /\ Started(config).breaker = config.version["breaker"]
  BY <1>1, StartedTyped
<1>3. /\ Running = config.enabled /\ config.enabled \subseteq Symbols
      /\ \A s \in Running : live[s] = Started(config)
  BY <1>1, ConfigAssumption DEF RolloutInit, Running, Config
<1>4. RolloutTypeOK
  <2>1. /\ rollout = <<>> /\ commands = <<>> /\ reading = <<>> /\ behind = FALSE
        /\ warned = {} /\ spent = [c \in Clients |-> 0] /\ edits = 0 /\ requests = 0
    BY DEF RolloutInit
  <2>2. PerWindow \in Nat /\ Capacity \in Nat /\ MaxEdits \in Nat /\ MaxRequests \in Nat
    BY ConfigAssumption
  <2>3. /\ rollout \in Seq(Config) /\ Len(rollout) <= 1
        /\ reading \in Seq(Config) /\ Len(reading) <= 1
        /\ commands \in Seq(Routed) /\ Len(commands) <= Capacity
    BY <2>1, <2>2
  <2>4. /\ spent \in [Clients -> 0 .. PerWindow]
        /\ edits \in 0 .. MaxEdits /\ requests \in 0 .. MaxRequests
    BY <2>1, <2>2
  <2>5. QED
    BY <1>1, <1>2, <1>3, <2>1, <2>3, <2>4 DEF RolloutTypeOK
<1>5. QED
  BY <1>2, <1>3, <1>4 DEF RolloutInv, BreakersFollowConfig

\* What every step of the actor that handles a command op has in common.
LEMMA HandleTyped ==
  ASSUME RolloutInv, NEW op, Handle(op)
  PROVE  /\ Head(commands) \in Routed /\ Head(commands).op = op
         /\ commands' \in Seq(Routed) /\ Len(commands') <= Capacity
         /\ op # "reload" /\ ~Contains(commands', ReloadCommand)
              => ~Contains(commands, ReloadCommand)
         /\ reading = <<>> /\ UNCHANGED <<last, watcher, spent, edits, requests>>
<1>1. commands \in Seq(Routed) /\ Len(commands) <= Capacity /\ commands # <<>>
      /\ Head(commands).op = op /\ commands' = Tail(commands)
  BY DEF RolloutInv, RolloutTypeOK, Handle
<1>2. /\ Head(commands) \in Routed /\ Tail(commands) \in Seq(Routed)
      /\ Len(Tail(commands)) = Len(commands) - 1
      /\ Contains(commands, ReloadCommand) /\ Head(commands).op # "reload"
           => Contains(Tail(commands), ReloadCommand)
  BY <1>1, QueueKeeps
<1>3. Len(commands) \in Nat /\ Capacity \in Nat
  BY <1>1, ConfigAssumption
<1>4. QED
  BY <1>1, <1>2, <1>3 DEF Handle, bounds

(* A command that leaves the rollout alone keeps the invariant when it     *)
(* keeps the types and what the breakers run with, or gives every breaker  *)
(* the configuration's.                                                    *)
LEMMA CommandKeeps ==
  ASSUME RolloutInv, NEW op, op # "reload", Handle(op), UNCHANGED <<rollout, reading, behind>>, Quiet,
         config' \in Config, Running' \subseteq Symbols, \A s \in Running' : live'[s] \in Pipelines,
         (\A s \in Running : live[s].breaker = config.version["breaker"])
           => \A s \in Running' : live'[s].breaker = config'.version["breaker"]
  PROVE  RolloutInv'
<1>1. /\ commands' \in Seq(Routed) /\ Len(commands') <= Capacity
      /\ ~Contains(commands', ReloadCommand) => ~Contains(commands, ReloadCommand)
      /\ UNCHANGED <<last, watcher, spent, edits, requests>>
  BY HandleTyped
<1>2. RolloutTypeOK'
  BY <1>1 DEF RolloutInv, RolloutTypeOK, Quiet
<1>3. BreakersFollowConfig'
  BY <1>1 DEF RolloutInv, BreakersFollowConfig, ReloadCommand
<1>4. QED
  BY <1>2, <1>3 DEF RolloutInv

(* A Set...Params command writes one group and nothing else of the         *)
(* configuration.                                                          *)
LEMMA SetStep ==
  ASSUME RolloutInv, Quiet, NEW op, NEW group \in Groups,
         op \in {"risk", "execution", "channels", "mode", "broker", "journal", "validator",
                 "features", "models", "breaker"},
         Set(op, group)
  PROVE  /\ Head(commands).version \in Versions /\ config' \in Config
         /\ \A h \in Groups : config'.version[h] = IF h = group THEN Head(commands).version
                                                                ELSE config.version[h]
         /\ Handle(op) /\ UNCHANGED <<rollout, reading, behind>>
<1>1. Handle(op) /\ UNCHANGED <<rollout, reading, behind>>
      /\ config' = [config EXCEPT !.version[group] = Head(commands).version]
  BY DEF Set
<1>2. Head(commands).version \in Versions
  BY <1>1, HandleTyped, CommandTyped
<1>3. config \in Config
  BY DEF RolloutInv, RolloutTypeOK
<1> DEFINE v == Head(commands).version
<1> HIDE DEF v
<1>4. /\ [config EXCEPT !.version[group] = v] \in Config
      /\ \A h \in Groups : [config EXCEPT !.version[group] = v].version[h]
                             = IF h = group THEN v ELSE config.version[h]
  <2>1. v \in Versions
    BY <1>2 DEF v
  <2>2. QED
    BY <1>3, <2>1, ConfigTyped
<1>5. config' = [config EXCEPT !.version[group] = v]
  BY <1>1 DEF v
<1>6. QED
  BY <1>1, <1>2, <1>4, <1>5 DEF v

(* The commands, one kind at a time.                                       *)
LEMMA SetOnlyStep ==
  ASSUME RolloutInv, Quiet,
         \/ SetMode \/ SetRiskParams \/ SetBrokerParams \/ SetJournalParams
         \/ SetExecutionDefaults \/ SetChannelParams \/ SetValidatorParams
  PROVE  RolloutInv'
<1>1. PICK op \in {"risk", "execution", "channels", "mode", "broker", "journal", "validator"},
           group \in {"risk", "execution", "channels", "process"} : Set(op, group)
  BY DEF SetMode, SetRiskParams, SetBrokerParams, SetJournalParams, SetExecutionDefaults,
         SetChannelParams, SetValidatorParams
<1>2. UNCHANGED live
  BY DEF SetMode, SetRiskParams, SetBrokerParams, SetJournalParams, SetExecutionDefaults,
         SetChannelParams, SetValidatorParams
<1>3. group \in Groups /\ "breaker" \in Groups /\ group # "breaker" /\ op # "reload"
  BY DEF Groups
<1>4. /\ config' \in Config /\ config'.version["breaker"] = config.version["breaker"]
      /\ Handle(op) /\ UNCHANGED <<rollout, reading, behind>>
  BY <1>1, <1>3, SetStep
<1>5. /\ Running' = Running /\ Running \subseteq Symbols
      /\ \A s \in Running : live'[s] = live[s] /\ live[s] \in Pipelines
  BY <1>2 DEF Running, RolloutInv, RolloutTypeOK
<1>6. QED
  BY <1>3, <1>4, <1>5, CommandKeeps

LEMMA SetLiveStep ==
  ASSUME RolloutInv, Quiet, SetFeatureParams \/ SetModelParams \/ SetCircuitBreakerParams
  PROVE  RolloutInv'
<1> DEFINE v == Head(commands).version
<1>1. \A s \in Running : live[s] \in Pipelines
  BY DEF RolloutInv, RolloutTypeOK
<1>2. Running \subseteq Symbols
  BY DEF RolloutInv, RolloutTypeOK
<1>3. "breaker" \in Groups /\ "features" \in Groups /\ "models" \in Groups
  BY DEF Groups
<1>4. CASE SetFeatureParams
  <2>1. /\ v \in Versions /\ config' \in Config
        /\ config'.version["breaker"] = config.version["breaker"]
        /\ Handle("features") /\ UNCHANGED <<rollout, reading, behind>>
    BY <1>3, <1>4, SetStep DEF SetFeatureParams
  <2>2. live' = [s \in Running |-> [live[s] EXCEPT !["features"] = v]]
    BY <1>4 DEF SetFeatureParams, SetLive
  <2> HIDE DEF v
  <2>3. /\ Running' = Running
        /\ \A s \in Running : live'[s] \in Pipelines /\ live'[s].breaker = live[s].breaker
    BY <1>1, <2>1, <2>2, FieldTyped DEF Running
  <2>4. QED
    BY <1>2, <2>1, <2>3, CommandKeeps
<1>5. CASE SetModelParams
  <2>1. /\ v \in Versions /\ config' \in Config
        /\ config'.version["breaker"] = config.version["breaker"]
        /\ Handle("models") /\ UNCHANGED <<rollout, reading, behind>>
    BY <1>3, <1>5, SetStep DEF SetModelParams
  <2>2. live' = [s \in Running |-> [live[s] EXCEPT !["models"] = v]]
    BY <1>5 DEF SetModelParams, SetLive
  <2> HIDE DEF v
  <2>3. /\ Running' = Running
        /\ \A s \in Running : live'[s] \in Pipelines /\ live'[s].breaker = live[s].breaker
    BY <1>1, <2>1, <2>2, FieldTyped DEF Running
  <2>4. QED
    BY <1>2, <2>1, <2>3, CommandKeeps
<1>6. CASE SetCircuitBreakerParams
  <2>1. /\ v \in Versions /\ config' \in Config
        /\ config'.version["breaker"] = v
        /\ Handle("breaker") /\ UNCHANGED <<rollout, reading, behind>>
    BY <1>3, <1>6, SetStep DEF SetCircuitBreakerParams
  <2>2. live' = [s \in Running |-> [live[s] EXCEPT !["breaker"] = v]]
    BY <1>6 DEF SetCircuitBreakerParams, SetLive
  <2> HIDE DEF v
  <2>3. /\ Running' = Running
        /\ \A s \in Running : live'[s] \in Pipelines /\ live'[s].breaker = v
    <3>1. Running' = Running /\ \A s \in Running : live'[s] = [live[s] EXCEPT !["breaker"] = v]
      BY <2>2 DEF Running
    <3>2. ASSUME NEW s \in Running
          PROVE  /\ [live[s] EXCEPT !["breaker"] = v] \in Pipelines
                 /\ [live[s] EXCEPT !["breaker"] = v].breaker = v
      BY <1>1, <2>1, BreakerTyped
    <3>3. QED
      BY <3>1, <3>2
  <2>4. QED
    BY <1>2, <2>1, <2>3, CommandKeeps
<1>7. QED
  BY <1>4, <1>5, <1>6

LEMMA LiveOnlyStep ==
  ASSUME RolloutInv, Quiet, ModelSwap \/ SetRateLimits \/ SwapStrategy
  PROVE  RolloutInv'
<1> DEFINE v == Head(commands).version
<1>1. Running \subseteq Symbols /\ \A s \in Running : live[s] \in Pipelines
  BY DEF RolloutInv, RolloutTypeOK
<1>2. config \in Config
  BY DEF RolloutInv, RolloutTypeOK
<1>3. CASE ModelSwap
  BY <1>1, <1>2, <1>3, CommandKeeps DEF ModelSwap, Running
<1>4. CASE SetRateLimits
  <2>1. Handle("rates") /\ UNCHANGED <<config, rollout, reading, behind>>
    BY <1>4 DEF SetRateLimits
  <2>2. v \in Versions
    BY <2>1, HandleTyped, CommandTyped
  <2>3. live' = [s \in Running |-> [live[s] EXCEPT !["rates"] = <<"api", v>>]]
    BY <1>4 DEF SetRateLimits, SetLive
  <2> HIDE DEF v
  <2>4. /\ Running' = Running
        /\ \A s \in Running : live'[s] \in Pipelines /\ live'[s].breaker = live[s].breaker
    BY <1>1, <2>2, <2>3, FieldTyped DEF Running
  <2>5. QED
    BY <1>1, <1>2, <2>1, <2>4, CommandKeeps
<1>5. CASE SwapStrategy
  <2>1. Handle("swap") /\ UNCHANGED <<config, rollout, reading, behind>>
    BY <1>5 DEF SwapStrategy
  <2>2. v \in Versions
    BY <2>1, HandleTyped, CommandTyped
  <2>3. PICK t : live' = IF t \in Running THEN [live EXCEPT ![t].strategy = v] ELSE live
    BY <1>5 DEF SwapStrategy
  <2> HIDE DEF v
  <2>4. /\ Running' = Running
        /\ \A s \in Running : \/ live'[s] = live[s]
                              \/ live'[s] = [live[s] EXCEPT !.strategy = v]
    BY <2>3 DEF Running
  <2>5. \A s \in Running : live'[s] \in Pipelines /\ live'[s].breaker = live[s].breaker
    <3>1. ASSUME NEW s \in Running
          PROVE  /\ [live[s] EXCEPT !.strategy = v] \in Pipelines
                 /\ [live[s] EXCEPT !.strategy = v].breaker = live[s].breaker
      BY <1>1, <2>2, FieldTyped
    <3>2. QED
      BY <1>1, <2>4, <3>1
  <2>6. QED
    BY <1>1, <1>2, <2>1, <2>4, <2>5, CommandKeeps
<1>6. QED
  BY <1>3, <1>4, <1>5

LEMMA AssetStep ==
  ASSUME RolloutInv, Quiet,
         PauseOrResume("pause") \/ PauseOrResume("resume") \/ Subscribe \/ Unsubscribe
  PROVE  RolloutInv'
<1>1. Running \subseteq Symbols /\ \A s \in Running : live[s] \in Pipelines
  BY DEF RolloutInv, RolloutTypeOK
<1>2. config \in Config /\ config.enabled \subseteq Assets
  BY DEF RolloutInv, RolloutTypeOK, Config
<1> DEFINE t == Head(commands).symbol
<1>3. ASSUME NEW op \in {"pause", "resume"}, PauseOrResume(op) PROVE RolloutInv'
  <2>1. Handle(op) /\ UNCHANGED <<live, rollout, reading, behind>> /\ op # "reload"
    BY <1>3 DEF PauseOrResume
  <2>2. \/ config' = config
        \/ config' = [config EXCEPT !.enabled = config.enabled \ {t}]
        \/ t \in Assets /\ config' = [config EXCEPT !.enabled = config.enabled \cup {t}]
    BY <1>3 DEF PauseOrResume
  <2> HIDE DEF t
  <2>3. PICK e \in SUBSET Assets : config' = config \/ config' = [config EXCEPT !.enabled = e]
    BY <1>2, <2>2
  <2>4. config' \in Config /\ config'.version = config.version
    BY <1>2, <2>3, EnabledTyped
  <2>5. QED
    BY <1>1, <2>1, <2>4, CommandKeeps DEF Running
<1>4. CASE Subscribe
  <2>1. Handle("subscribe") /\ UNCHANGED <<config, rollout, reading, behind>>
    BY <1>4 DEF Subscribe
  <2>2. t \in Symbols
    BY <2>1, HandleTyped, CommandTyped
  <2>3. live' = IF t \in Running THEN live ELSE With(t, Started(config))
    BY <1>4 DEF Subscribe
  <2> HIDE DEF t
  <2>4. /\ Running' \subseteq Running \cup {t}
        /\ \A s \in Running' : \/ s \in Running /\ live'[s] = live[s]
                               \/ live'[s] = Started(config)
    BY <2>3 DEF Running, With
  <2>5. Started(config) \in Pipelines /\ Started(config).breaker = config.version["breaker"]
    BY <1>2, StartedTyped
  <2>6. /\ Running' \subseteq Symbols /\ \A s \in Running' : live'[s] \in Pipelines
        /\ (\A s \in Running : live[s].breaker = config.version["breaker"])
             => \A s \in Running' : live'[s].breaker = config'.version["breaker"]
    BY <1>1, <2>1, <2>2, <2>4, <2>5
  <2>7. QED
    BY <1>2, <2>1, <2>6, CommandKeeps
<1>5. CASE Unsubscribe
  <2>1. Handle("unsubscribe") /\ UNCHANGED <<config, rollout, reading, behind>>
    BY <1>5 DEF Unsubscribe
  <2>2. Running' \subseteq Running /\ \A s \in Running' : live'[s] = live[s]
    BY <1>5 DEF Unsubscribe, Without, Running
  <2>3. QED
    BY <1>1, <1>2, <2>1, <2>2, CommandKeeps
<1>6. QED
  BY <1>3, <1>4, <1>5

(* A handled reload sets every breaker from the configuration.             *)
LEMMA ReloadStep ==
  ASSUME RolloutInv, Reload PROVE RolloutInv'
<1>1. Handle("reload") /\ reading' = <<config>> /\ behind' = FALSE /\ UNCHANGED <<config, rollout>>
  BY DEF Reload
<1>2. /\ commands' \in Seq(Routed) /\ Len(commands') <= Capacity
      /\ UNCHANGED <<last, watcher, spent, edits, requests>>
  BY <1>1, HandleTyped
<1>3. config \in Config /\ reading' \in Seq(Config) /\ Len(reading') <= 1
  <2>1. config \in Config
    BY DEF RolloutInv, RolloutTypeOK
  <2>2. <<config>> \in Seq(Config) /\ Len(<<config>>) = 1
    BY <2>1
  <2>3. QED
    BY <1>1, <2>1, <2>2
<1>4. /\ Running' = Running
      /\ \A s \in Running : live'[s] \in Pipelines
                            /\ live'[s].breaker = config.version["breaker"]
  <2>1. /\ Running' = Running
        /\ \A s \in Running : live'[s] = [live[s] EXCEPT !.breaker = config.version["breaker"],
                                            !.rates = <<"execution", config.version["execution"]>>]
    BY DEF Reload, Running
  <2>2. config.version["breaker"] \in Versions /\ config.version["execution"] \in Versions
    BY <1>3 DEF Config, Groups
  <2> DEFINE v == config.version["breaker"]
             w == config.version["execution"]
  <2> HIDE DEF v, w
  <2>3. ASSUME NEW s \in Running
        PROVE  /\ [live[s] EXCEPT !.breaker = v, !.rates = <<"execution", w>>] \in Pipelines
               /\ [live[s] EXCEPT !.breaker = v, !.rates = <<"execution", w>>].breaker = v
    <3>1. live[s] \in Pipelines /\ v \in Versions /\ w \in Versions
      BY <2>2 DEF RolloutInv, RolloutTypeOK, v, w
    <3>2. QED
      BY <3>1, ReloadTyped
  <2>4. \A s \in Running : live'[s] = [live[s] EXCEPT !.breaker = v, !.rates = <<"execution", w>>]
    BY <2>1 DEF v, w
  <2>5. QED
    BY <2>1, <2>3, <2>4 DEF v
<1>5. warned' \subseteq NotSwappable \cup {"assets"}
  BY DEF Reload, Warnings
<1>6. RolloutTypeOK'
  BY <1>1, <1>2, <1>3, <1>4, <1>5 DEF RolloutInv, RolloutTypeOK
<1>7. BreakersFollowConfig'
  BY <1>1, <1>4 DEF BreakersFollowConfig
<1>8. QED
  BY <1>6, <1>7 DEF RolloutInv

(* The second half keeps the breaker's group, and the whole configuration  *)
(* when that is still the copy it stages.                                  *)
LEMMA StageTyped ==
  ASSUME RolloutInv, NEW pending \in Config, Stage(pending)
  PROVE  /\ config' \in Config /\ config'.version["breaker"] = config.version["breaker"]
         /\ rollout' \in Seq(Config) /\ Len(rollout') <= 1
         /\ pending = config => config' = config
<1>1. config \in Config /\ rollout \in Seq(Config) /\ Len(rollout) <= 1
  BY DEF RolloutInv, RolloutTypeOK
<1>2. CASE UNCHANGED <<config, rollout>>
  BY <1>1, <1>2
<1>3. CASE ~UNCHANGED <<config, rollout>>
  <2> DEFINE v == pending.version["risk"]
  <2>1. PICK canary \in config.enabled :
          /\ config' = [config EXCEPT !.version["risk"] = v,
                          !.enabled = IF canary \in pending.enabled THEN config.enabled
                                                                     ELSE config.enabled \ {canary}]
          /\ rollout' = <<pending>>
    BY <1>3 DEF Stage
  <2> DEFINE e == IF canary \in pending.enabled THEN config.enabled ELSE config.enabled \ {canary}
  <2>2. "risk" \in Groups /\ "breaker" \in Groups /\ v \in Versions /\ e \in SUBSET Assets
    BY <1>1 DEF Groups, Config
  <2>3. config' = [config EXCEPT !.version["risk"] = v, !.enabled = e]
    BY <2>1
  <2>4. pending = config => v = config.version["risk"] /\ e = config.enabled
    BY <2>1
  <2> HIDE DEF v, e
  <2>5. /\ config' \in Config /\ config'.version["breaker"] = config.version["breaker"]
        /\ pending = config => config' = config
    <3>1. /\ [config EXCEPT !.version["risk"] = v, !.enabled = e] \in Config
          /\ [config EXCEPT !.version["risk"] = v, !.enabled = e].version["breaker"]
               = config.version["breaker"]
          /\ v = config.version["risk"] /\ e = config.enabled
               => [config EXCEPT !.version["risk"] = v, !.enabled = e] = config
      BY <1>1, <2>2, StagedTyped
    <3>2. QED
      BY <2>3, <2>4, <3>1
  <2>6. rollout' \in Seq(Config) /\ Len(rollout') = 1
    BY <2>1
  <2>7. QED
    BY <2>5, <2>6
<1>4. QED
  BY <1>2, <1>3

LEMMA SecondHalfTyped ==
  ASSUME RolloutInv, ReloadStage
  PROVE  /\ config' \in Config /\ config'.version["breaker"] = config.version["breaker"]
         /\ rollout' \in Seq(Config) /\ Len(rollout') <= 1
         /\ config = Head(reading) => config' = config
<1>1. Head(reading) \in Config
  BY DEF ReloadStage, RolloutInv, RolloutTypeOK
<1>2. CASE Running = {}
  BY <1>2 DEF ReloadStage, RolloutInv, RolloutTypeOK
<1>3. CASE Running # {}
  BY <1>1, <1>3, StageTyped DEF ReloadStage
<1>4. QED
  BY <1>2, <1>3

LEMMA StageStep ==
  ASSUME RolloutInv, Quiet, ReloadStage PROVE RolloutInv'
<1>1. /\ reading # <<>> /\ reading' = <<>> /\ last' = reading
      /\ UNCHANGED <<live, commands, watcher, behind, spent, edits, requests>>
  BY DEF ReloadStage, bounds
<1>2. reading \in Seq(Config) /\ Len(reading) <= 1
  BY DEF RolloutInv, RolloutTypeOK
<1>3. /\ config' \in Config /\ config'.version["breaker"] = config.version["breaker"]
      /\ rollout' \in Seq(Config) /\ Len(rollout') <= 1
  BY SecondHalfTyped
<1>4. Running' = Running /\ \A s \in Running : live'[s] = live[s]
  BY <1>1 DEF Running
<1>5. <<>> \in Seq(Config) /\ Len(<<>>) = 0
  OBVIOUS
<1>6. RolloutTypeOK'
  BY <1>1, <1>2, <1>3, <1>4, <1>5 DEF RolloutInv, RolloutTypeOK, Quiet
<1>7. BreakersFollowConfig'
  BY <1>1, <1>3, <1>4 DEF RolloutInv, BreakersFollowConfig
<1>8. QED
  BY <1>3, <1>6, <1>7 DEF RolloutInv

(* The others: the watcher, the callers of the API, and the operator's     *)
(* calls about a staged rollout.                                           *)
LEMMA FileStep ==
  ASSUME RolloutInv, Quiet, NEW v \in Versions, NEW e \in SUBSET Assets, FileChanges(v, e)
  PROVE  RolloutInv'
<1>1. /\ edits < MaxEdits /\ edits' = edits + 1
      /\ \/ config' = FileConfig(v, e) /\ watcher' = "sending"
         \/ UNCHANGED <<config, watcher>>
      /\ UNCHANGED <<live, rollout, last, commands, reading, behind, spent, requests>>
  BY DEF FileChanges
<1>2. config' \in Config /\ Running' = Running /\ edits' \in 0 .. MaxEdits
  <2>1. config \in Config /\ edits \in 0 .. MaxEdits /\ MaxEdits \in Nat
    BY ConfigAssumption DEF RolloutInv, RolloutTypeOK
  <2>2. QED
    BY <1>1, <2>1, LoadTyped DEF Running
<1>3. RolloutTypeOK'
  BY <1>1, <1>2 DEF RolloutInv, RolloutTypeOK, Quiet
<1>4. BreakersFollowConfig'
  BY <1>1, <1>2 DEF RolloutInv, BreakersFollowConfig
<1>5. QED
  BY <1>3, <1>4 DEF RolloutInv

LEMMA WatcherStep ==
  ASSUME RolloutInv, Watcher PROVE RolloutInv'
<1>1. /\ watcher' = "idle" /\ warned' = {}
      /\ \/ /\ Len(commands) < Capacity /\ commands' = Append(commands, ReloadCommand)
            /\ UNCHANGED behind
         \/ behind' = TRUE /\ UNCHANGED commands
      /\ UNCHANGED <<config, live, rollout, last, reading, spent, edits, requests>>
  BY DEF Watcher, TrySendReload, Quiet, ReloadCommand, bounds
<1>2. commands \in Seq(Routed) /\ Len(commands) \in Nat /\ Len(commands) <= Capacity /\ Capacity \in Nat
  BY ConfigAssumption DEF RolloutInv, RolloutTypeOK
<1>3. ReloadCommand \in Routed
  BY DEF Routed
<1>4. /\ commands' \in Seq(Routed) /\ Len(commands') <= Capacity
      /\ behind' \in BOOLEAN /\ (behind' \/ Contains(commands', ReloadCommand))
  <2>1. CASE Len(commands) < Capacity /\ commands' = Append(commands, ReloadCommand) /\ behind' = behind
    <3>1. /\ Append(commands, ReloadCommand) \in Seq(Routed)
          /\ Len(Append(commands, ReloadCommand)) = Len(commands) + 1
          /\ Contains(Append(commands, ReloadCommand), ReloadCommand)
      BY <1>2, <1>3, QueueKeeps
    <3>2. QED
      BY <1>2, <2>1, <3>1 DEF RolloutInv, RolloutTypeOK
  <2>2. CASE behind' = TRUE /\ commands' = commands
    BY <1>2, <2>2
  <2>3. QED
    BY <1>1, <2>1, <2>2
<1>5. Running' = Running
  BY <1>1 DEF Running
<1>6. RolloutTypeOK'
  BY <1>1, <1>4, <1>5 DEF RolloutInv, RolloutTypeOK
<1>7. BreakersFollowConfig'
  BY <1>4 DEF BreakersFollowConfig, ReloadCommand
<1>8. QED
  BY <1>6, <1>7 DEF RolloutInv

LEMMA PostStep ==
  ASSUME RolloutInv, Quiet, NEW c \in Clients, NEW cmd \in Routed, PostCommand(c, cmd)
  PROVE  RolloutInv'
<1>1. /\ requests < MaxRequests /\ requests' = requests + 1
      /\ Len(commands) < Capacity /\ commands' = Append(commands, cmd)
      /\ UNCHANGED <<config, live, rollout, last, reading, watcher, behind, edits>>
  BY DEF PostCommand
<1>2. commands \in Seq(Routed) /\ Len(commands) \in Nat /\ Capacity \in Nat
  BY ConfigAssumption DEF RolloutInv, RolloutTypeOK
<1>3. /\ commands' \in Seq(Routed) /\ Len(commands') <= Capacity
      /\ ~Contains(commands', ReloadCommand) => ~Contains(commands, ReloadCommand)
  BY <1>1, <1>2, QueueKeeps
<1>4. spent' \in [Clients -> 0 .. PerWindow]
  <2>1. spent \in [Clients -> 0 .. PerWindow] /\ PerWindow \in Nat \ {0}
    BY ConfigAssumption DEF RolloutInv, RolloutTypeOK
  <2>2. CASE spent[c] < PerWindow /\ spent' = [spent EXCEPT ![c] = spent[c] + 1]
    BY <2>1, <2>2
  <2>3. CASE spent' = [spent EXCEPT ![c] = 1]
    BY <2>1, <2>3
  <2>4. QED
    BY <2>2, <2>3 DEF PostCommand, Admit
<1>5. requests' \in 0 .. MaxRequests /\ Running' = Running
  <2>1. requests \in 0 .. MaxRequests /\ MaxRequests \in Nat
    BY ConfigAssumption DEF RolloutInv, RolloutTypeOK
  <2>2. QED
    BY <1>1, <2>1 DEF Running
<1>6. RolloutTypeOK'
  BY <1>1, <1>3, <1>4, <1>5 DEF RolloutInv, RolloutTypeOK, Quiet
<1>7. BreakersFollowConfig'
  BY <1>1, <1>3, <1>5 DEF RolloutInv, BreakersFollowConfig, ReloadCommand
<1>8. QED
  BY <1>6, <1>7 DEF RolloutInv

LEMMA EndRolloutStep ==
  ASSUME RolloutInv, Quiet, CompleteRollout \/ CancelRollout
  PROVE  RolloutInv'
<1>1. /\ rollout # <<>> /\ rollout' = <<>>
      /\ \/ config' = Head(rollout) /\ behind' = TRUE
         \/ UNCHANGED <<config, behind>>
      /\ UNCHANGED <<live, last, commands, reading, watcher, spent, edits, requests>>
  BY DEF CompleteRollout, CancelRollout, bounds
<1>2. /\ config' \in Config /\ behind' \in BOOLEAN /\ rollout' \in Seq(Config) /\ Len(rollout') <= 1
      /\ Running' = Running
  <2>1. Head(rollout) \in Config /\ config \in Config /\ behind \in BOOLEAN
    BY <1>1 DEF RolloutInv, RolloutTypeOK
  <2>2. <<>> \in Seq(Config) /\ Len(<<>>) = 0
    OBVIOUS
  <2>3. config' \in Config /\ behind' \in BOOLEAN
    BY <1>1, <2>1
  <2>4. QED
    BY <1>1, <2>2, <2>3 DEF Running
<1>3. RolloutTypeOK'
  BY <1>1, <1>2 DEF RolloutInv, RolloutTypeOK, Quiet
<1>4. BreakersFollowConfig'
  BY <1>1, <1>2 DEF RolloutInv, BreakersFollowConfig
<1>5. QED
  BY <1>3, <1>4 DEF RolloutInv

LEMMA RolloutStep ==
  ASSUME RolloutInv, [RolloutNext]_rolloutVars PROVE RolloutInv'
<1>1. CASE Command /\ Quiet
  BY <1>1, SetOnlyStep, SetLiveStep, LiveOnlyStep, AssetStep DEF Command
<1>2. CASE Actor
  BY <1>1, <1>2, StageStep, ReloadStep DEF Actor
<1>3. CASE Others /\ Quiet
  BY <1>3, FileStep, PostStep, EndRolloutStep DEF Others
<1>4. CASE UNCHANGED rolloutVars
  BY <1>4 DEF rolloutVars, bounds, RolloutInv, RolloutTypeOK, BreakersFollowConfig, Running
<1>5. QED
  BY <1>2, <1>3, <1>4, WatcherStep DEF RolloutNext

(* Whatever mixes with whatever, every breaker runs with the parameters of *)
(* the configuration when no reload is on its way and none was dropped or  *)
(* promoted over, for any symbols, versions, callers and channel capacity. *)
THEOREM BreakersFollow == RolloutSpec => []BreakersFollowConfig
<1>1. RolloutInv => BreakersFollowConfig
  BY DEF RolloutInv
<1>2. QED
  BY <1>1, RolloutStart, RolloutStep, PTL DEF RolloutSpec

(* Configurations, pipelines and commands keep to their types and the      *)
(* channel to its capacity.                                                *)
THEOREM RolloutTyped == RolloutSpec => []RolloutTypeOK
<1>1. RolloutInv => RolloutTypeOK
  BY DEF RolloutInv
<1>2. QED
  BY <1>1, RolloutStart, RolloutStep, PTL DEF RolloutSpec

(* Only the second half of a reload ends one, and it leaves a              *)
(* configuration alone that nobody changed meanwhile.                      *)
LEMMA ReloadKeepsStep ==
  ASSUME RolloutInv, [RolloutNext]_rolloutVars,
         reading # <<>>, reading' = <<>>, config = Head(reading)
  PROVE  config' = config
<1>1. CASE ReloadStage
  BY <1>1, SecondHalfTyped
<1>2. CASE Reload
  BY <1>2 DEF Reload
<1>3. CASE Command
  <2>1. \E op : Handle(op)
    BY <1>3 DEF Command, SetMode, SetRiskParams, SetBrokerParams, SetJournalParams,
          SetExecutionDefaults, SetChannelParams, SetValidatorParams, SetFeatureParams,
          SetModelParams, SetCircuitBreakerParams, Set, ModelSwap, SetRateLimits, SwapStrategy,
          PauseOrResume, Subscribe, Unsubscribe
  <2>2. QED
    BY <2>1 DEF Handle
<1>4. CASE Others \/ Watcher \/ UNCHANGED rolloutVars
  BY <1>4 DEF Others, FileChanges, PostCommand, CompleteRollout, CancelRollout, Watcher,
        TrySendReload, rolloutVars
<1>5. QED
  BY <1>1, <1>2, <1>3, <1>4 DEF RolloutNext, Actor

(* A reload is not an edit: unless the file changes while it is handled,   *)
(* the rollout it begins leaves the configuration as it is.                *)
THEOREM ReloadKeeps == RolloutSpec => ReloadKeepsConfig
<1>1. RolloutInv /\ [RolloutNext]_rolloutVars
        => [reading # <<>> /\ reading' = <<>> /\ config = Head(reading)
              => UNCHANGED config]_rolloutVars
  BY ReloadKeepsStep
<1>2. QED
  BY <1>1, RolloutStart, RolloutStep, PTL DEF RolloutSpec, ReloadKeepsConfig
=============================================================================
