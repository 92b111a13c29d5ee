----------------------------- MODULE ConfigRollout -----------------------------
(***************************************************************************)
(* The engine's configuration and what of it reaches the running           *)
(* pipelines: the file watcher (core/src/config_watcher.rs), the commands  *)
(* of the HTTP API (engine/src/api.rs) and their handling by the command   *)
(* actor, with the staged rollout a reload begins (engine/src/engine.rs).  *)
(*                                                                         *)
(* The watcher's thread writes the configuration under no lock but the     *)
(* configuration's own, so it may write between the two halves of the      *)
(* reload the actor handles: the copy it pushes, and the canary's write.   *)
(*                                                                         *)
(* A configuration is the version of each of its groups and the set of     *)
(* assets it enables.  "channels" stands for the channel and reactor       *)
(* groups, which a new pipeline or process reads, "process" for the broker,*)
(* journal and validator groups, which only a new process reads.  The      *)
(* API's requests are those that carry its key: another is refused before  *)
(* anything is counted.                                                    *)
(***************************************************************************)
EXTENDS Integers, Sequences, SequencesExt

CONSTANTS
  Symbols, Assets,       \* every symbol; those of asset_configs
  Versions, Invalid,     \* versions of a group; those validate() refuses
  Shipped,               \* the version of the defaults
  Clients, PerWindow,    \* callers of the API, by address; control_plane_rate_limit
  Capacity,              \* the command channel
  MaxEdits, MaxRequests  \* bounds: edits of the file, commands of the API

ASSUME ConfigAssumption ==
  /\ Assets \subseteq Symbols /\ Invalid \subseteq Versions /\ Shipped \in Versions \ Invalid
  /\ PerWindow \in Nat \ {0}
  /\ Capacity \in Nat \ {0} /\ MaxEdits \in Nat /\ MaxRequests \in Nat

VARIABLES
  config,        \* the shared configuration
  live,          \* of each running pipeline, what it runs with
  rollout,       \* staged_rollout: <<the pending configuration>> or <<>>
  last,          \* last_config, or <<>> without a file to watch
  commands,      \* command channel
  reading,       \* <<the copy the reload being handled works with>> or <<>>
  watcher,       \* "absent", "idle", or "sending" the reload for a file just written
  behind,        \* the configuration changed and no reload will tell of it
  warned,        \* what the step just taken has warned of
  spent,         \* of each client, the requests of the current window
  edits, requests

bounds == <<edits, requests>>
rolloutVars ==
  <<config, live, rollout, last, commands, reading, watcher, behind, warned, spent, bounds>>

Groups == {"breaker", "features", "models", "strategy", "risk", "execution", "channels", "process"}
Config == [version : [Groups -> Versions], enabled : SUBSET Assets]

(* validate() reports every violation it finds in the numbers of a group;  *)
(* which number is not told apart.  A file that breaks a rule of the asset *)
(* list, of max_assets or of the threads is one of an invalid version.     *)
Violations(cfg, groups) == {g \in groups : cfg.version[g] \in Invalid}
Valid(cfg) == Violations(cfg, {"risk", "execution", "strategy", "channels"}) = {}

\* spawn_asset_pipeline: the limiter's rates are the risk group's.
Started(cfg) == [breaker  |-> cfg.version["breaker"],  features |-> cfg.version["features"],
                 models   |-> cfg.version["models"],   strategy |-> cfg.version["strategy"],
                 risk     |-> cfg.version["risk"],     channels |-> cfg.version["channels"],
                 rates    |-> <<"risk", cfg.version["risk"]>>]

Pipelines == [breaker : Versions, features : Versions, models : Versions, strategy : Versions,
              risk : Versions, channels : Versions,
              rates : {"risk", "execution", "api"} \X Versions]

Uniform(v) == [g \in Groups |-> v]
Running == DOMAIN live
Without(s) == [t \in Running \ {s} |-> live[t]]
With(s, pipeline) == [t \in Running \cup {s} |-> IF t = s THEN pipeline ELSE live[t]]

\* What a file says; the defaults, with every asset of the environment's list.
FileConfig(v, e) == [version |-> Uniform(v), enabled |-> e]
ShippedGroups == Uniform(Shipped)
DefaultConfig == [version |-> ShippedGroups, enabled |-> Assets]

\* load_config: the file, which nothing validates at this point, or the
\* defaults where there is none or it does not parse.
Load(present) == config \in IF present THEN {FileConfig(v, e) : v \in Versions, e \in SUBSET Assets}
                                             \cup {DefaultConfig}
                             ELSE {DefaultConfig}

\* start_config_watcher: a file that exists is watched from then on.
StartWatcher(present) == IF present THEN watcher = "idle" /\ last = <<config>>
                                    ELSE watcher = "absent" /\ last = <<>>

RolloutInit ==
  /\ \E present \in BOOLEAN : Load(present) /\ StartWatcher(present)
  /\ live = [s \in config.enabled |-> Started(config)]
  /\ rollout = <<>> /\ commands = <<>> /\ reading = <<>>
  /\ behind = FALSE /\ warned = {} /\ spent = [c \in Clients |-> 0] /\ edits = 0 /\ requests = 0

-----------------------------------------------------------------------------
(* The watcher: the file is parsed, validated and written as a whole, then *)
(* the reload is tried on the command channel.                             *)

FileChanges(v, e) ==
  LET file == FileConfig(v, e)
  IN  /\ watcher = "idle" /\ edits < MaxEdits /\ edits' = edits + 1
      /\ IF Valid(file) THEN config' = file /\ watcher' = "sending"
                        ELSE UNCHANGED <<config, watcher>>
      /\ UNCHANGED <<live, rollout, last, commands, reading, behind, spent, requests>>

\* try_send: a full channel drops the reload.
TrySendReload ==
  /\ watcher = "sending" /\ watcher' = "idle"
  /\ IF Len(commands) < Capacity
     THEN commands' = Append(commands, [op |-> "reload"]) /\ UNCHANGED behind
     ELSE behind' = TRUE /\ UNCHANGED commands
  /\ UNCHANGED <<config, live, rollout, last, reading, spent, bounds>>

-----------------------------------------------------------------------------
(* The API: its gate and its commands.                                     *)

\* SimpleRateLimiter: so many requests counted from the first of a window;
\* the first one after the window opens the next.
Admit(c) == \/ spent[c] < PerWindow /\ spent' = [spent EXCEPT ![c] = @ + 1]
            \/ spent[c] > 0 /\ spent' = [spent EXCEPT ![c] = 1]

AssetCommands ==
  [op : {"subscribe", "unsubscribe", "pause", "resume"}, symbol : Symbols]
\* The parameters of a command are not validated.  Those of the "process"
\* group reach nothing that runs, so that one version of them is enough.
RiskCommands      == [op : {"risk"}, version : Versions]
ExecutionCommands == [op : {"execution"}, version : Versions]
ChannelCommands   == [op : {"channels"}, version : Versions]
ModeCommands      == [op : {"mode"}, version : {Shipped}]
BrokerCommands    == [op : {"broker"}, version : {Shipped}]
JournalCommands   == [op : {"journal"}, version : {Shipped}]
ValidatorCommands == [op : {"validator"}, version : {Shipped}]
FeatureCommands   == [op : {"features"}, version : Versions \ Invalid]
ModelCommands     == [op : {"models"}, version : Versions \ Invalid]
BreakerCommands   == [op : {"breaker"}, version : Versions \ Invalid]
RateCommands      == [op : {"rates"}, version : Versions \ Invalid]
SwapCommands      == [op : {"swap"}, symbol : Symbols, version : Versions \ Invalid]
ModelSwapCommand  == [op |-> "model swap"]
ReloadCommand     == [op |-> "reload"]

\* The commands with a route, those that set nothing here left out.
Routed == AssetCommands \cup RiskCommands \cup ExecutionCommands \cup ChannelCommands
            \cup ModeCommands \cup BrokerCommands \cup JournalCommands \cup ValidatorCommands
            \cup FeatureCommands \cup ModelCommands \cup BreakerCommands \cup RateCommands
            \cup SwapCommands \cup {ModelSwapCommand, ReloadCommand}

PostCommand(c, cmd) ==
  /\ requests < MaxRequests /\ requests' = requests + 1
  /\ Admit(c)
  /\ Len(commands) < Capacity /\ commands' = Append(commands, cmd)
  /\ UNCHANGED <<config, live, rollout, last, reading, watcher, behind, edits>>

-----------------------------------------------------------------------------
(* The actor.                                                              *)

\* The actor takes the next command, when the one before has been handled.
Handle(op) == /\ commands # <<>> /\ reading = <<>> /\ Head(commands).op = op
              /\ commands' = Tail(commands) /\ UNCHANGED <<last, watcher, spent, bounds>>

\* Every pipeline's field becomes v.
\* Mutant: one pipeline only.
SetLiveOnce(field, v) ==
  IF Running = {} THEN live' = live
  ELSE \E s \in Running : live' = [live EXCEPT ![s] = [live[s] EXCEPT ![field] = v]]
SetLive(field, v) == live' = [s \in Running |-> [live[s] EXCEPT ![field] = v]]

\* Set...Params: in the configuration only, or there and in every pipeline.
Set(op, group) == /\ Handle(op)
                  /\ config' = [config EXCEPT !.version[group] = Head(commands).version]
                  /\ UNCHANGED <<rollout, reading, behind>>
SetMode              == Set("mode", "process") /\ UNCHANGED live
SetRiskParams        == Set("risk", "risk") /\ UNCHANGED live
SetBrokerParams      == Set("broker", "process") /\ UNCHANGED live
SetJournalParams     == Set("journal", "process") /\ UNCHANGED live
SetExecutionDefaults == Set("execution", "execution") /\ UNCHANGED live
SetChannelParams     == Set("channels", "channels") /\ UNCHANGED live
SetValidatorParams   == Set("validator", "process") /\ UNCHANGED live
SetFeatureParams     == Set("features", "features") /\ SetLive("features", Head(commands).version)
SetModelParams       == Set("models", "models") /\ SetLive("models", Head(commands).version)
SetCircuitBreakerParams == Set("breaker", "breaker") /\ SetLive("breaker", Head(commands).version)

\* ModelSwap is not implemented: it is answered and changes nothing.
ModelSwap == Handle("model swap") /\ UNCHANGED <<config, live, rollout, reading, behind>>

\* SetRateLimits and SwapStrategy reach the pipelines and not the configuration.
SetRateLimits == /\ Handle("rates") /\ SetLive("rates", <<"api", Head(commands).version>>)
                 /\ UNCHANGED <<config, rollout, reading, behind>>

SwapStrategy ==
  /\ Handle("swap")
  /\ LET cmd == Head(commands) IN
       live' = IF cmd.symbol \in Running THEN [live EXCEPT ![cmd.symbol].strategy = cmd.version]
                                         ELSE live
  /\ UNCHANGED <<config, rollout, reading, behind>>

\* PauseAsset, ResumeAsset and SetAssetConfig, for a symbol of asset_configs.
PauseOrResume(op) ==
  /\ Handle(op)
  /\ LET s == Head(commands).symbol IN
       config' = IF s \notin Assets THEN config
                 ELSE [config EXCEPT !.enabled = IF op = "pause" THEN @ \ {s} ELSE @ \cup {s}]
  /\ UNCHANGED <<live, rollout, reading, behind>>

\* A new pipeline reads the configuration of now.
Subscribe ==
  /\ Handle("subscribe")
  /\ LET s == Head(commands).symbol IN
       live' = IF s \in Running THEN live ELSE With(s, Started(config))
  /\ UNCHANGED <<config, rollout, reading, behind>>

Unsubscribe == /\ Handle("unsubscribe") /\ live' = Without(Head(commands).symbol)
               /\ UNCHANGED <<config, rollout, reading, behind>>

\* check_non_hot_swappable_config_changes: groups that no reload pushes, where
\* they differ from the last reload's copy, whatever the pipelines run with.
NotSwappable == {"features", "models", "channels", "process"}
Warnings(old, new) == {g \in NotSwappable : old.version[g] # new.version[g]}
                        \cup IF old.enabled # new.enabled THEN {"assets"} ELSE {}

\* ReloadConfig, first half: warn, copy the configuration, then set every breaker
\* and limiter from the copy.
\* Mutant: while a rollout is staged, nothing is pushed.
ReloadOnce ==
  /\ Handle("reload") /\ warned' = {} /\ reading' = <<config>> /\ behind' = FALSE
  /\ live' = IF rollout = <<>>
             THEN [s \in Running |-> [live[s] EXCEPT !.breaker = config.version["breaker"]]]
             ELSE live
  /\ UNCHANGED <<config, rollout>>

Reload ==
  /\ Handle("reload")
  /\ warned' = IF last = <<>> THEN {} ELSE Warnings(Head(last), config)
  /\ reading' = <<config>> /\ behind' = FALSE
  /\ live' = [s \in Running |-> [live[s] EXCEPT !.breaker = config.version["breaker"],
                                                !.rates = <<"execution", config.version["execution"]>>]]
  /\ UNCHANGED <<config, rollout>>

\* begin_staged_rollout: refused if the copy is not valid, for which its asset
\* list may be the cause too, or no asset is enabled; else the canary's fields
\* and the risk limits are written.
Stage(pending) ==
  \/ UNCHANGED <<config, rollout>>
  \/ /\ Valid(pending)
     /\ \E canary \in config.enabled :
          /\ config' = [config EXCEPT !.version["risk"] = pending.version["risk"],
                          !.enabled = IF canary \in pending.enabled THEN @ ELSE @ \ {canary}]
          /\ rollout' = <<pending>>

\* Second half, if there are pipelines; the copy is kept for the next warning.
\* Mutant: what is staged is the last configuration.
StageLast ==
  /\ reading # <<>> /\ reading' = <<>> /\ last' = reading
  /\ IF Running # {} /\ last # <<>> THEN Stage(Head(last)) ELSE UNCHANGED <<config, rollout>>
  /\ UNCHANGED <<live, commands, watcher, behind, spent, bounds>>

ReloadStage ==
  /\ reading # <<>> /\ reading' = <<>> /\ last' = reading
  /\ IF Running # {} THEN Stage(Head(reading)) ELSE UNCHANGED <<config, rollout>>
  /\ UNCHANGED <<live, commands, watcher, behind, spent, bounds>>

\* An operator's call, under the engine's lock: the pending configuration
\* becomes the configuration, or its record is dropped.  Neither tells a
\* pipeline anything.
CompleteRollout == /\ rollout # <<>> /\ reading = <<>>
                   /\ config' = Head(rollout) /\ rollout' = <<>> /\ behind' = TRUE
                   /\ UNCHANGED <<live, last, commands, reading, watcher, spent, bounds>>

CancelRollout == /\ rollout # <<>> /\ reading = <<>> /\ rollout' = <<>>
                 /\ UNCHANGED <<config, live, last, commands, reading, watcher, behind, spent, bounds>>

Quiet == warned' = {}

Command == \/ SetMode \/ SetRiskParams \/ SetBrokerParams \/ SetJournalParams
           \/ SetExecutionDefaults \/ SetChannelParams \/ SetValidatorParams \/ ModelSwap
           \/ SetFeatureParams \/ SetModelParams \/ SetCircuitBreakerParams
           \/ SetRateLimits \/ SwapStrategy
           \/ PauseOrResume("pause") \/ PauseOrResume("resume")
           \/ Subscribe \/ Unsubscribe

Actor == ((Command \/ ReloadStage) /\ Quiet) \/ Reload

Watcher == TrySendReload /\ Quiet

Others == \/ \E v \in Versions, e \in SUBSET Assets : FileChanges(v, e)
          \/ \E c \in Clients, cmd \in Routed : PostCommand(c, cmd)
          \/ CompleteRollout \/ CancelRollout

RolloutNext == Watcher \/ Actor \/ (Others /\ Quiet)

(* Fair: the watcher's thread and the actor.  Nobody need call the others. *)
RolloutSpec == RolloutInit /\ [][RolloutNext]_rolloutVars
FairRolloutSpec == RolloutSpec /\ WF_rolloutVars(Watcher) /\ WF_rolloutVars(Actor)

-----------------------------------------------------------------------------
(* Properties.                                                             *)

RolloutTypeOK ==
  /\ config \in Config /\ last \in Seq(Config) /\ Len(last) <= 1
  /\ Running \subseteq Symbols /\ \A s \in Running : live[s] \in Pipelines
  /\ rollout \in Seq(Config) /\ Len(rollout) <= 1
  /\ reading \in Seq(Config) /\ Len(reading) <= 1
  /\ commands \in Seq(Routed) /\ Len(commands) <= Capacity
  /\ watcher \in {"absent", "idle", "sending"} /\ behind \in BOOLEAN
  /\ warned \subseteq NotSwappable \cup {"assets"}
  /\ spent \in [Clients -> 0 .. PerWindow]
  /\ edits \in 0 .. MaxEdits /\ requests \in 0 .. MaxRequests

\* Whatever mixes with whatever, file edits, API commands, new pipelines,
\* rollouts: when no reload is on its way and none was dropped or promoted
\* over, every circuit breaker runs with the parameters of the configuration,
\* and one handled reload is enough to get there.
BreakersFollowConfig ==
  ~behind /\ watcher # "sending" /\ ~Contains(commands, [op |-> "reload"])
    => \A s \in Running : live[s].breaker = config.version["breaker"]

\* A reload is not an edit: unless the file changes while it is handled, the
\* rollout it begins leaves the configuration as it is, so that cancelling
\* it has nothing to revert.
ReloadKeepsConfig ==
  [][reading # <<>> /\ reading' = <<>> /\ config = Head(reading) => UNCHANGED config]_rolloutVars

\* A change of the configuration reaches every breaker, or its reload was
\* dropped by a full channel.
ReloadsAreApplied ==
  (\E s \in Running : live[s].breaker # config.version["breaker"])
    ~> (behind \/ \A s \in Running : live[s].breaker = config.version["breaker"])
=============================================================================
