# Monolito: a TLA+ model of the trading engine

This directory holds TLA+ models of the Rust trading engine under `src/crates`,
the TLC configurations that check them and the TLAPS proofs about them.
`PROJECT.json` lists the components, the runs, the mutants that show each
property can fail, the source lines of every definition, the hazards and the
theorems. Paths below are relative to `src/crates`.

Contents: 1. the system; 2. the modules and the code; 3. the runs; 4. fairness;
5. the proofs; 6. what the models found; 7. what is not modelled; 8. the plan.

## 1. The system

Ticks arrive over a market-data feed and reach a *tick reactor*, which routes
them to one *asset processor* thread per symbol. It turns ticks into features,
predictions and strategy signals. A signal becomes a request for the symbol's
*risk coordinator* thread, whose decisions go over a bounded channel to the
symbol's *execution thread*, which submits orders to the broker. Beside this
pipeline run the journal's writer, the order-lifecycle handler, the heartbeat
monitor, the configuration watcher, a periodic reconciliation thread, the
command actor that serves the HTTP API, and `main`.

All of them share one `KillSwitch`, an atomic flag that each loop reads at one
place of its own, and channels that end by disconnection: a thread leaves when
the last sender of its channel is dropped. Much of what is hard in this code is
in those two mechanisms: which step reads the flag, and who still holds a sender.

| component | state | operations | what is hard | what makes it correct |
|---|---|---|---|---|
| execution thread (`execution/src/execution_manager.rs`) | decision in hand, retry count | gates, submission with retries, recording the outcome | lost answers, the switch thrown between steps, a blocking send | an acknowledged order is never submitted again; a kill lets one decision's tries through |
| circuit breaker (`gateway/src/circuit_breaker.rs`) | state, failures, trip time, parameters | ask, report, trip, reset, retune | late reports, wall clock, parameters changed meanwhile | an open breaker admits nobody; it is always left again |
| rate limiter (`execution/src/rate_limiter.rs`) | shared bucket, a bucket per symbol | consume, retune | lazy refill, refund, width of the clock | as strict as a quota that fills continuously |
| journal (`core/src/journal.rs`) | channel, buffer, files of lines | write, flush, compact, read back | crashes, writes and flushes that fail, late flush answers, compaction of the open file, file names on a wall clock | what survives has no gaps but at its ends and where a write failed; an acknowledged flush that did not fail is durable |
| recovery (`engine/src/engine.rs`, `core/src/idempotency.rs`, `core/src/symbol_registry.rs`) | journal, key file, id counters | derive an id, trade, crash, replay | records, keys and orders are made at different steps, each of which may fail or stop within a line | no record runs ahead of its order; no acknowledged order is placed again |
| order book (`execution/src/order_tracker.rs`, `order_state_machine.rs`, `core/src/portfolio_manager.rs`) | order records, position, equity | reconcile, fill, reject, cancel, check | reports overtaking each other, fills in parts, restarts, short positions | quantities follow the broker's; a fill at the market is worth nothing |
| control plane (`engine/src/main.rs`, `core/src/command_channel.rs`, `engine/src/api.rs`) | command channel, engine lock, actor, `main` | start, serve, command, shut down | a lock held over a join, a blocking send on a single-threaded runtime | a kill command takes effect; senders return |
| configuration (`core/src/config*.rs`, reload and rollout in `engine/src/engine.rs`) | file, live and pending configuration, what each pipeline runs with | reload, set, roll out, cancel | a watcher that writes without the engine's lock; a full command channel | configuration and running pipelines agree once no reload is on its way |
| heartbeats (`core/src/heartbeat.rs`) | last pulse of each worker | pulse, age, check | hangs, panics, an operator who clears the switch | a silent worker has the switch thrown |
| crash detector (`core/src/crash_detector.rs`) | startup counter | record, clear | a crash between or within file operations, errors that are ignored | a crash loop ends in safe mode |
| feed (`gateway/src/alpaca_feed.rs`) | session, active symbols, replay buffer | connect, authenticate, subscribe, replay | commands while the session is down, a second delivery, waits without a time-out | no command is lost; the peer is asked for the active symbols |
| tick reactor (`engine/src/tick_reactor.rs`) | routes per symbol | subscribe, unsubscribe, route | holds the senders that keep a pipeline alive | a kill ends it |
| normaliser and features (`market-data/src/normalizer.rs`, `feature/src`) | last spread, rolling windows | normalise, update | ticks skipped, over budget or malformed in a batch | windows hold the latest accepted values |
| asset processor (`engine/src/engine.rs`) | batch, strategy | receive, evaluate, deliver, swap the strategy | a stance taken before its intent is delivered | the stance is accounted for |
| inference (`model/src`) | none | score and confidence | a confidence nobody sets | see section 6 |
| strategy (`strategy/src/strategy_engine.rs`) | stance by hysteresis, time of the last entry | evaluate | cooldowns on a clock that steps back, exits for entries never ordered | entries are spaced; a stance the market left is left |
| channels' policies (`core/src/channel_utils.rs`) | none | send with drop, evict or block | evicting beside a receiver | order is kept |
| risk coordinator and checks (`risk/src`) | request in hand, order-rate bucket | check, send, drain | one read of the switch per request, a bucket on the wall clock | at most one late approval; the order rate holds |
| metrics (`core/src/metrics.rs`) | counters | count, snapshot | a snapshot between two increments | a symbol's count stays below the total |

### How they interact

* *channels*: ticks, risk requests, risk decisions, lifecycle events, journal
  commands, feed subscriptions and control commands each have a bounded channel.
  Only the risk channel evicts (`DropOldest`) or drops; the lifecycle, the
  subscription and the command channel block their senders; journal writes and
  the watcher's reload are tried and dropped.
* *shared state*: the kill switch, the breaker, the limiter, the tracker and the
  idempotency store of an asset, the engine behind one mutex, the configuration
  behind a read-write lock of its own.
* *files*: the journal, one key file per symbol, the crash counter, the configuration.

## 2. The modules and the code

| module | models | composed with |
|---|---|---|
| `CircuitBreaker` | the breaker, callers between admission and report, an operator, a wall clock that may step back | `Execution` instantiates its operations |
| `OrderSubmission` | abstract: what submitting promises of an intent | implemented by `Execution` |
| `Execution` | the execution thread step by step, the lifecycle handler, the switch, the breaker, the limiter's verdict, the broker | refines `OrderSubmission` |
| `RateQuota` | abstract: quotas that fill as time passes | implemented by `RateLimiter` |
| `RateLimiter` | both levels of token buckets | refines `RateQuota` |
| `Journal` | channel, writer thread, buffer, files, compaction, a disk that may refuse any write, crash, replay | |
| `Recovery` | records, keys and ids of one asset over several processes | abstracts `Journal` to a log that loses what was not saved, may read one entry on another's line, and is read in another order of its files |
| `OrderBook` | tracker, position and kill switch's list of one symbol, the handlers of reports, reconciliation, the periodic check | begins where `Execution` ends: at an order the broker has |
| `CrashDetector` | the state file and the operations on it | instantiated by `ControlPlane` |
| `ControlPlane` | `main`, the command channel and its actor, the heartbeat monitor, workers | |
| `ConfigRollout` | file, watcher, API's gate, the commands' effects, reload and staged rollout | gives content to `ControlPlane`'s commands |
| `FeedSession` | the feed's task, the feed thread and the actor's send beside it, the peer | |
| `TickPath` | normaliser, feature engine, batches, budget, counters and snapshots | feeds `SignalPath` |
| `SignalPath` | score and confidence, strategy, the risk checks that keep time | abstracts channels away; `AssetPipeline` has them |
| `AssetPipeline` | reactor, processor, strategy, risk coordinator, execution thread of one symbol, and the engine's unsubscribe | abstracts `Execution` to one step per decision |
| `Execution_proofs`, `CircuitBreaker_proofs`, `Recovery_proofs`, `ControlPlane_proofs`, `AssetPipeline_proofs`, `FeedSession_proofs`, `SignalPath_proofs`, `OrderBook_proofs` | the theorems about those modules and, in `Execution_proofs` about `RateLimiter`, in `Recovery_proofs` about `Journal`, in `ControlPlane_proofs` about `ConfigRollout`, in `SignalPath_proofs` about `TickPath` | |

Modules that share a proof module have names of their own for what the other has
too: `LimiterSpec`, `JournalSpec`, `RolloutSpec` and `TicksSpec` are the
specifications of `RateLimiter`, `Journal`, `ConfigRollout` and `TickPath`.

**Execution.** `pc` is where the thread is in `run_loop` and `execute_decision`;
each step is one statement that another thread can see: reading the switch,
asking the breaker, consuming a token, looking the intent up, trying to write
the Pending record, a submission's call, tracking the order, marking the intent,
the Submitted record, the event, and the report to the breaker. A submission is
accepted and answered, accepted or not and unanswered, or refused; transport
errors are retried after a sleep. `acked` is history: what the broker
acknowledged to this thread. `early` and `lateCalls` are history too.

**RateLimiter.** Tokens are scaled by the clock's `Second`, so that a refill of
`elapsed * rate` is an integer; the clock is an age per bucket, wrapped at
`Width` as an unsigned difference is.

**Journal.** Entries are numbered in the order in which `try_write` accepted them.
A file is a sequence of *pieces*: an entry's text is its head, up to the bar after
the time stamp, and its data; a newline follows, as `writeln!` hands it over
separately. A reader finds an entry where a line begins with its whole head
(`Understood`, `Found`). A write or a flush may fail at any piece (`Put`, `FlushNow`):
what the file did not take stays in the buffer, a `writeln!` that fails keeps back its
text or only its newline, and a flush that fails is acknowledged all the same. A
death within a flush is a flush that fails and a `Restart`, which keeps the files and
nothing else. Files are named for the second in which their process started:
`files` is a function from seconds to texts, `name` the running process's second,
and a restart may find the clock at any second of `Clock`, an older one or one
that has a file already, to which it appends. The open file may have lost its name
to a compaction (`Linked`); which files one removes depends on sizes, modification
times and a clock, and is any set of them. The two flushers are `main` at shutdown
and the command actor: `flush_sync` gives up after its time-out while its request
stays in the channel. `failed`, `torn`, `stuck` and `steady` are history: whose write
failed, whether the file ended within a line when it was opened, whether the last
flush failed, and whether no clock was behind an earlier process's.

**Recovery.** One asset, whose symbol may or may not be spelled like its numeric
id (`named`). `Order` runs the submission with its tries; a crash may fall
between any two of its steps. `Id` is the derivation from counters that begin
again in each process. A line of the key file is written in four parts, of which an error or a
death may leave the first few (`AppendParts`): the next key then stands on the same
line, and is lost, or taken for the line's result. `tail` is the line the file
ends with, `file` the keys that are read from it; a file that cannot be read is
taken for an empty one (`LoadFromDisk`). `SaveGlued` is a journal entry that stands on the line of
another, which is then read with its status, and `Reread` the order in which files
are read when a clock was set back. `lost` and `glued` say for which keys and
entries that happened.

**OrderBook.** `tracked` is the tracker with its state machines (`Valid` is
`can_transition`), `pos` and `equity` the portfolio's, `listed` the kill
switch's open orders; `broker` and `account` are the other side. A `Start` is
`reconcile_and_rehydrate`: the broker's open orders become records under new
local ids, its position replaces the portfolio's. Reports are a set, so they may
be handled in any order; a crash loses those on their way, and `missed` marks the
orders filled between a start's two queries of the broker. Money is counted in units of 1/`Scale`, so that the average
prices of a run are exact. The periodic check asks the broker and compares the
answer with what is here in steps of its own, for positions and then for orders
(`AskPositions` to `CompareOrders`), and anything may happen between them;
`check` is where it stands with which answer, `warned` what it logs, and `calm` is
history: no fill was on its way when it asked, and none was handled since.

**ControlPlane.** `main` goes through boot, start, the crash detector's calls,
serving and shutdown. The crash detector's file may refuse a read, a write or a
removal, and a write that is cut short leaves it empty (`Outcomes`), none of which anybody
hears of; `lost` counts such accesses in a run of quick startups, `failed` the
startups in it that were let through. The HTTP runtime is single-threaded: a handler's blocking
`send` is a state of `main`. The actor alternates between checking its
`running` flag, a receive with a time-out, taking the engine lock and handling.
A worker runs, hangs, or exits, by the switch or by a panic (development builds:
the release profile aborts the process). A worker's restart is a new process.

**ConfigRollout.** A configuration is a version per group of parameters and the
set of assets it enables; which group a command or a new pipeline reads decides
what it takes over. A process starts from a file that parses, one that does not
(defaults, no watcher), or none. The watcher validates the file, writes the
configuration under its own lock and tries to send a reload; the actor handles
the reload in two halves, pushing the copy it took and then beginning a rollout,
and the watcher may write between them (`reading` holds the copy). `Warnings` is
what a reload logs of groups it cannot swap. Requests pass the API's window per
client first.

**FeedSession.** A session is a state of `feed`: it dials, waits for a confirmation,
streams, or waits to reconnect; a session's end counts an attempt.
`wanted` is the engine's set of pipelines, `active` the feed's symbols, `asked`
what this connection asked for. A tick is a number; `times` counts its
deliveries. The buffer's bytes are counted in ticks, and `Room` drops by bytes
and then by count, with the code's own subtraction. The public field `running`
starts with either value.

**TickPath.** `stage` is where the processor is with the batch in hand. Prices are
integers, a mid price the sum of bid and ask. What is computed from a window is
a function of its contents, so contents are kept, as the ring the code has:
slots, position and count. The processor counts a tick in several increments;
API and telemetry read totals and per-symbol counts in two reads.

**SignalPath.** Features are the market's choice among `Readings`; `Prediction` is
`predict` with its weights and, where that is not valid, the heuristic. The
strategy's clock, the cooldown and the risk checks' staleness and bucket share one
wall clock, kept as ages, that may be set back.

**AssetPipeline.** The processor's evaluation is one step that chooses whether the
tick passes normaliser, feature engine, prediction, staleness, confidence and
cooldown, and which zone its score falls in; what follows (hysteresis, the
intent, the send under a policy) is modelled. The policies `Block`, `DropNewest`
and `PrioritizeCritical` behave alike on the risk channel as long as nobody
receives, and are one; on the decision channel the policies agree, because
the coordinator gives up only when the execution thread is gone. The prediction
thread between features and strategy is left out, the kill-switch check keeps its
default severity (Veto), and thresholds are ordered as in the default
configuration. `stance` is the strategy's hysteresis in units, `settled` what was
ordered in its terms, `account` what the orders sent do to the account.

## 3. The runs

| run | configuration | bounds | why they are enough |
|---|---|---|---|
| `breaker` | two callers, two thresholds, two cooldowns | failures capped at 4, elapsed time at 2, one step back of 1 | the thresholds are below the cap, the cooldowns below the age at which time stops mattering; two callers are needed for a report that overtakes another |
| `limiter` | two symbols, two rates, an order costs 3 half-tokens of `Second` = 2 | clock width 8, a step back of 1 | refills cross whole seconds and the wrap; two symbols compete for the shared bucket |
| `execution` | one intent decided twice, two tries, lifecycle channel of one | one failure opens the breaker | a duplicate, a retry, a full lifecycle channel and an opening each occur |
| `journal` | two flushers, a channel of two, a clock of three seconds that starts at the middle one | three entries, one crash | a write, its newline and a flush each fail before and after the crash; the second process's file is older, the same or newer; a compaction removes any of the files; a flush is answered after its time-out |
| `recovery` | asset named like its id or not, one try | two intents per process, one crash, a journal of four records | the same id in both processes, a crash at every step of a trade and of the replay, a key cut after each of its parts with another behind it, both orders of the two processes' files |
| `orders` | two orders of one or two lots at two prices; the account starts short, flat or long | two starts | fills in parts, a report that overtakes another, one lost by a crash, a position that is opened, closed and turned, all of it between a question of the check and its comparison |
| `control` | two workers, a command channel of one | one failed access of the crash counter's file in a run of quick startups | a startup too many is let through by each kind of failure and the next ones are stopped; the channel is full, one worker is silent while another pulses |
| `config` | two symbols, one of them configured; three versions, one of them invalid; a command channel of one; one client with one request per window | two edits, two API commands | an edit lands between the halves of a reload, a reload meets a full channel, a rollout is overtaken by an edit |
| `feed` | two symbols, one of them configured; subscription channel of one, tick channel of two, buffer of two ticks or three ticks' bytes | three attempts, three ticks, three commands | each way of dropping from the buffer, a command sent while the session is down, the last attempt |
| `ticks` | two kinds of quote, a crossed one, a trade, a bar; batches of two; windows of three, two, three and two | four ticks | every window wraps around; a batch has a skipped and an accepted tick |
| `signal` | the shipped weights, five readings; strategies with no minimum of confidence and with 50; thresholds of 50 | one step back of one tick | a reading for each way a score changes sign, one that is no number; a cooldown of two ticks can be cut short by the step |
| `pipeline` | channels of one, `DropNewest` and `DropOldest` | two intents, one strategy swap | an entry and its exit meet in every channel; an eviction and a refusal occur |

Thresholds of 50 stand for the shipped 60 in `signal`: with 60 the model's best
score, 54, reaches no entry at all (section 6) and there would be no stance to
say anything of.

What each run shows is in its properties:

* `breaker`: an open breaker admits nobody before its cooldown is over, an open
  one closes only by an operator's reset or by the late success of a caller
  admitted before it opened, and left alone it is left again.
* `limiter`: lazy refilling implements continuously filling quotas while the clock
  runs forward; refunds and refusals included.
* `execution`: the kill switch lists every acknowledged order and no other; a kill
  lets through only the tries of the decision already in hand; an open breaker
  holds back whatever was not admitted before; the thread implements
  `OrderSubmission`; it never blocks for ever, and a lasting kill ends it.
* `journal`: as long as the writer's file has a name, file, buffer and channel hold
  what was accepted, once and in order, but for an entry whose write failed or that
  stands on an unfinished line; what was accepted sooner is replayed sooner, across
  processes as long as no clock was set back between them; what was accepted before
  an acknowledged flush is on disk, with the same exceptions, unless the last flush
  failed.
* `recovery`: a Submitted record that took no other's text has an acknowledged order,
  and its key in the file unless that key's line was cut short or stands on one that
  was; a key that is read has an order, or such a record; an id that is refused as processed though
  nothing was placed under it in this process comes from an earlier one; an
  acknowledged intent is placed again by nothing but a replay that finds its asset.
* `orders`: a record's filled quantity is the broker's less the reports on their
  way; the position follows the account through buys and restarts, and the
  periodic check is then silent about it unless a fill was on its way when it asked
  or was handled before it compared; the kill switch's list names open
  orders only; a fill at the market price leaves the equity, except where it
  turns a short position long.
* `control`: no command is handled once shutdown flushes the journal, at most two
  startups in a row fail outside safe mode, and two more for each access of the
  crash counter's file that failed, a kill command returns, is obeyed and
  ends workers and serving, silence is noticed.
* `config`: with no reload on its way, dropped or promoted over, every breaker runs
  with the configuration's parameters; a reload changes the configuration only if
  the file changes meanwhile; a change reaches every breaker or its reload was
  dropped.
* `feed`: no subscription command is lost or overtaken; a streaming session has
  asked for the active symbols; the buffer's count and bytes agree and no tick is
  delivered more than twice; nobody is held by the feed for ever, and the feed stays
  connected or gives up, but for a peer that falls silent before a session streams.
* `ticks`: averages and windows were fed the accepted ticks, once and in order; a
  request carries its tick's price and the last known spread; between batches each
  tick is in one count; no snapshot shows more ticks for the symbols than in total.
* `signal`: a strategy that asks for confidence never enters; the order rate stays
  below a bucket that fills all the time; entries are a cooldown apart in real
  time; a stance the market left is left.
* `pipeline`: the strategy's stance equals what was ordered, plus what is on its
  way, plus what was dropped or refused, and intents stay in order; at most one
  approval follows a kill; a lasting kill ends every thread of the pipeline.

`CHECK_DEADLOCK FALSE` is set for `recovery`, `orders`, `config` and `feed`, whose
traffic is bounded and whose systems have nothing left to do after it.

## 4. Fairness

* `CircuitBreaker`: time passes, a waiting caller asks again (decisions keep
  coming) and a submission is reported, because every submission ends in an
  answer or a time-out (`alpaca_execution.rs` sets 30 s). Operators owe nothing.
* `Execution`: the thread and the lifecycle handler are scheduled. Nobody has to
  decide, to throw the switch or to clear it.
* `ControlPlane`: weak fairness for `main`, the actor, the monitor and pulses;
  strong fairness for the four steps that depend on a state others may undo and
  that the code polls for or queues for: `Notice` (the server's poll of the switch,
  which an operator may clear between polls), `EnterShutdown` (a lock whose other
  user lets go of it again and again), `Send` (a channel whose other senders may
  fill it) and `WorkerExit` (the loop's poll of the switch). Strong fairness says
  here that a poll, repeated for ever, does not always fall into the gaps.
* `ConfigRollout`: the watcher's thread and the actor are scheduled. Nobody has to
  edit the file, send a command or complete a rollout.
* `FeedSession`: the feed's task with its 250 ms timer, the feed thread's poll of
  the switch and the actor are scheduled. The peer owes nothing: it need not answer a
  dial, confirm anything, or close, and since neither wait has a time-out
  (`alpaca_feed.rs:335`, `:356`) a peer that stays silent there holds the task for
  ever, and with it whoever waits for it: the first disjunct of `ThreadsAreReleased`
  and `ReconnectsRunOut` (`AwaitsPeer`).
* `SignalPath`: ticks keep arriving and time passes.
* `AssetPipeline`: each thread is scheduled. Nobody has to send a tick, throw the
  switch or send a command.

The other modules state safety only. Liveness is stated against a switch that may
be cleared at any time: `[]<>~killed \/ ...` says what a *lasting* kill leads to
(in `FeedSession` nobody clears it, there `killed ~> ...` says the same).

## 5. The proofs

All hold for every value of the constants that satisfies the module's assumption
(capacities are positive, bounds natural numbers, thresholds below the cap of the
failure counter, the strategy's thresholds on either side of zero, the marker for
"no decision" is no intent). No theorem but `FillsNeutral` has a hypothesis of its own.

| module | theorem | says | from |
|---|---|---|---|
| `Execution_proofs` | `TypeCorrect` | `Spec => []TypeOK` | one step per action; the breaker's operations have a lemma each |
| | `MarkCorrect`, `TrackedOrders` | the kill switch lists what was acknowledged, and no record runs ahead of its order | `MarkInv` |
| | `SubmissionImplemented` | `Spec => ImplementsSubmission`, the abstract specification under its refinement mapping | `MarkInv`; initial states map to initial states, every step to `Place`, `PlaceUnheard` or a stutter |
| | `LateCalls` | a thrown switch lets through one decision's tries at most | `LateInv` |
| | `BreakerHoldsBack` | an open breaker holds back what it had not admitted | `BreakerInv` |
| | `LimiterImplements` | `LimiterSpec => ImplementsQuota`: buckets refilled on demand implement quotas that fill as time passes, under the mapping `ShownPool`, `ShownQuota` | `RipeInv`; initial states to initial states, each step to a step or a stutter |
| | `LimiterTyped` | the shared bucket holds at most a second's worth and no tokens go below zero, wherever the clock is set | `LimiterTypeOK` is inductive |
| `CircuitBreaker_proofs` | `TypeCorrect`, `BreakerHolds` | an open breaker admits nobody, a closed one is below the largest threshold | `BreakerInv`, for any set of callers |
| | `ClosesOnlyLate` | an open breaker closes by a reset or a late success only (an action property) | `BreakerInv` |
| `Recovery_proofs` | `RecoveryCorrect`, `TypeCorrect` | the inductive invariant | `JournalInv`, `PlacedInv` |
| | `RecordsAreTrue` | `RecordsHold`: Submitted records have their order and, if its line is whole, their key; keys have an order or a record that took another's text; refusals are of an earlier process's intents | the same |
| | `PlacedStaysFinal` | no acknowledged intent is submitted again but by a replay (an action property) | the same |
| | `WriterKeepsOrder` | `NothingSkipped`: what the journal's channel accepted is in file, buffer and channel once and in order, but where a write failed, and is replayed in that order unless a clock was set back | `WriterInv` |
| | `FlushesHold` | what was accepted before an acknowledged flush is on disk, with the same exceptions, unless the last flush failed | `WriterInv` |
| | `WriterTypes` | files and buffer hold pieces of the program's lines, and the channel keeps to its capacity | `WriterInv` |
| `ControlPlane_proofs` | `QuietFlush` | no command is handled once shutdown flushes the journal | `LockInv` |
| | `LoopStopped` | a crash loop ends in safe mode at its third startup, or two later for each failed access of the counter's file | `CountInv` |
| | `BreakersFollow` | with no reload on its way, dropped or promoted over, every breaker runs with the configuration's parameters | `RolloutInv` |
| | `ReloadKeeps` | a reload's rollout leaves a configuration alone that did not change meanwhile (an action property) | `RolloutInv` |
| | `RolloutTyped` | configurations, pipelines and commands keep their types, the channel its capacity | `RolloutInv` |
| `AssetPipeline_proofs` | `LateApproval` | one approval at most follows a thrown switch | `LateInv` |
| | `PipelineTyped` | `Spec => []TypeOK`: channels keep to their capacities | `PipeInv` |
| | `IntentsAccounted` | the stance is what was ordered, plus what is on its way, plus what was dropped or refused, and no intent overtakes another | `PipeInv` |
| `FeedSession_proofs` | `CommandsArrive` | no subscription command is lost or overtaken | `FeedInv` |
| | `PeerIsTold` | a streaming session's peer sends the active symbols | `FeedInv` |
| | `ReplayHolds` | the replay buffer keeps to its limits, no tick is delivered a third time | `FeedInv` |
| `SignalPath_proofs` | `UnsureStaysFlat` | a strategy that asks for confidence never enters | `SignalInv` |
| | `RateHolds` | the order rate stays below a bucket that fills all the time | `SignalInv` |
| | `EntriesWait` | entries are a cooldown apart (an action property) | `SignalInv` |
| | `WindowsHold` | every rolling window holds the latest values since its engine was made, and the averages were fed each price once | `TallyInv`, `WindowInv` |
| | `RequestsHold` | a request carries its tick's price and the spread of the last quote that had one | `TallyInv`, `PriceInv` |
| | `TicksAccounted` | between batches each tick is in one count | `TallyInv` |
| | `SnapshotsHold` | a snapshot shows no more ticks for the symbols than in total (an action property) | `TallyInv` |
| `OrderBook_proofs` | `FillsCounted` | a record's filled quantity is the broker's less the reports on their way | `BookInv` |
| | `PositionFollows` | the position follows the account, and a check that no fill overtook is silent about it | `BookInv` |
| | `ListedOpen` | the switch's list names open orders | `BookInv` |
| | `FillsNeutral` | a fill leaves the equity at its price (an action property) | `BookInv`, `Marked` and the hypothesis `AveragesAreExact` |

*Execution, MarkInv.* That no acknowledged order is submitted again needs more than
the gate that looks the intent up: the gate is passed before the call and the
intent is marked after it. The invariant says that while a decision is past the
gate and not placed its intent is unmarked, that an acknowledged order's intent is
marked or is the newest order of a thread about to track and mark it, and that
whoever is about to mark has tracked the order. At the submission step it follows
that no order of this intent has been acknowledged, which is the guard of `Place`.

*Execution, LateInv.* `lateCalls` counts broker calls since the switch was thrown.
The bound on it is not inductive; the invariant relates it to the try the thread is
in: before the first call it is zero, at try `n` it is at most `n`.

*Execution, BreakerInv.* The breaker counts this thread as in flight exactly between
its admission and its report, and while it is open those in flight were so when it
opened. It needs the thread's program counter, which is why it is proved for the
composition; `CircuitBreaker_proofs` shows the breaker's own side of it.

*Execution, RipeInv.* The limiter keeps tokens and the age of the last refill, the
quota a level that rises with every tick of the clock. `ShownPool` and `ShownQuota`
map a bucket to what it would hold if it were refilled now. As long as the clock
never stepped back (`steady`) a bucket is `Ripe`: its tokens are a natural number and
its age is at most a second, where it stops to matter. Then refilling changes
nothing that is shown, a tick of the clock raises it by one rate up to the cap, and
taking and refunding leave the other buckets as they are shown. Of a clock that was
set back `ImplementsQuota` says nothing (section 6).

*CircuitBreaker, BreakerInv.* `OpenAdmitsNobody` and `ClosedBelowThreshold` are
inductive with the types, by two lemmas: the operations of the type keep its inner
state whoever calls them (`OperationsKeepInner`), and marking who is in flight at
an opening survives reports (`MarkKeeps`).

*Recovery.* Every entry of the journal, on disk, on its way or still to be
replayed, belongs to the set `TrueEntries` of those the state backs: one that says
Submitted, on a line of its own, has an acknowledged order and a key in the file or
a lost line; within a process that set only grows, and a crash makes what is in it old.
`PlacedInv` says that keys follow acknowledgements, the key at the file's end
included, and that a process numbers its intents upward, so the one in hand is newer
than all that were acknowledged: it is why a refusal can only be of an earlier
process's intent.

*Journal, WriterInv.* There is a boundary, `taken`: file and buffer hold, as one
text, the entries after `base` up to it (`StreamOK`), and the channel those behind it
(`QueueOK`). Handling a write moves the boundary by one, whether or not the entry got
through; a flush moves pieces over from buffer to file, where it stops makes no
difference to the text. What a failed write costs is local: a text that
ends in a newline lets the next entry be found, and where it does not, the last
entry failed or the file was torn when it was opened, which excuses the next one
(the last conjunct of `StreamOK`). Heads stay in order (`OrderedTo`), so whatever a reader
finds is. Files that are not the process's hold nothing newer than what it began
with (`FilesOK`), and follow one another as long as no clock was set back;
compaction only takes files away. For flushes, everything behind a
flusher's last request in the channel was accepted after its mark
(`BehindRequest`), so that once the request is at the head the mark is at or below the
boundary, and a flush that leaves nothing in the buffer puts all of it in the file. A
request that timed out is why the invariant speaks of the last one.

*ControlPlane.* The engine lock is held by whom the program counters say, the
switch stays thrown while `main` holds it (only a command clears it, and commands
need the lock), and the actor has not been started before `main` serves. The state
file's count is at least the number of startups that were let through in a row, less two for
each access of it that failed (`CountInv`); where the file does not record the last
startup, its count, two at most, may be forgotten at any time.

*ConfigRollout, RolloutInv.* `BreakersFollowConfig` is inductive with the types: its
exceptions (a reload in the channel or in hand, `behind`, a rollout promoted over an
edit) are exactly what the steps that break the agreement leave behind. The proof
goes by what each command does to a group's version and to the pipelines. It found a
fault of the model, since repaired: the guards of a `CASE` in `PauseOrResume`
overlapped, so that the specification left open which arm applied to a symbol the
configuration does not have, while TLC took the first.

*AssetPipeline, LateInv.* While the switch is thrown, a coordinator that may still
approve has approved nothing since.

*AssetPipeline, PipeInv.* The stance equals a sum over six places an intent can be
in: `IntentsAreAccounted` is inductive once each thread's hands are typed by where it
stands (`Holders`), and with the order of what is on its way (`UpTo`: the intents in
hand and in the channels are numbered upward and none beyond the last emitted). Each
step moves intents from one place to the next, or cuts some out of the sequence of all
six, `OnTheirWay`: `ChainShifts` and `ChainCuts` say which of the two regroupings of
the places is which, `CutStep` what a cut does to the sum and to the order, and each
action has a lemma that names what it cuts.

*FeedSession, FeedInv.* What the feed's task still has to apply, from the channel, from
its hand and from the thread's send, is folded over the active symbols; `CommandsReachFeed`
says the result is what the engine wants. Sending appends to that sequence and applying
takes its head, which leaves the fold where it was (`ApplyAllIsAfter`, `ApplyAllLast`).
`AttemptsLeft` says that an attempt is left while one is under way, `OneInHand` that the
actor holds one command at most; `TimesInv` that a tick still to come has not been
delivered and one still buffered has been at most once, which bounds them by two.

*SignalPath, SignalInv.* `EntryInv` relates the strategy's own clock to real time:
since stepping the clock back makes entries look younger, the age the strategy reads is,
within the cooldown, at most the time that passed. `RateInv` says the same of the
bucket: filled now, it would hold no more than the quota. `UnsureNeverEnters` needs that a prediction
beyond a threshold has no confidence (`EntriesAreUnsure`).

*TickPath, TallyInv and PriceInv.* `TallyInv` balances the counters in each stage of a
batch: the symbol's count is behind the total between the two increments, what an
over-budget batch skips is for the symbol already and for the total when the
batch ends, and a snapshot that has read one count has read no more than the
other will be. `PriceInv`: the remembered spread is that of the last quote that had one
(`LatestSpread`, whose largest element exists by `HasLargest`).

*TickPath, WindowInv.* A ring of `n` places that has been given the values of a list
holds its last `n`, those up to the next place in one piece and the
others before them (`RingOf`). Giving it one value more (`Push`) keeps that, for any `n`;
read out in the code's order it is the list's end. What remains is that each
accepted tick appends to the lists the windows are compared with (`Mids`, `Rises`,
`Ranges`, `Doubled`) exactly what the engine pushes.

*OrderBook, BookInv.* A report of a fill carries the quantity that was filled before
it (`ReportsOK`), so a set can hold all reports, no two fills are alike, and each report
is within what the broker filled. With that, an order's record is terminal only when it
is full (`TrackedInv`): a fill reported as large as the order finds a record
with nothing filled, and no fill finds a full one; otherwise the code's rule that
a report as large as the order fills it, "whatever was filled", would count too much.
`PhaseOK` (a process that is not up has been told of nothing) carries the three
properties over restarts. `AnswerInv` carries the check's answer to its comparison: as
long as all is calm, what it was told of the position is still so.

*OrderBook, FillsNeutral.* The model divides as integers and a run's `Scale` makes
each of its averages exact; for every value of the constants that is the hypothesis
`AveragesAreExact`, of the reports on their way. TLC finds it to hold in every state
of the run `orders`. The case left out, a short position turned long, is the code's (section 6).

*Sums and folds.* The models add with `FoldSeq`, `FoldSet` and `FoldLeft`, whose
definitions choose a recursive function. The proofs need no induction theorem for
them: a closed form without recursion (the number of raising less the number of
lowering intents in `Total` of `AssetPipeline_proofs`, the number of single lots in `Total` of
`OrderBook_proofs`, the effect of the last command for each symbol in `After` of
`FeedSession_proofs`) satisfies the recursion, so the chosen function does as well, and
a smallest set at which the two differ, which exists since strict inclusion of finite
sets is well founded, would have a smaller one (`SumIsTotal`, `UnhandledIsTotal`,
`ApplyAllIsAfter`). What `FoldSeq` adds up then does not depend on the order it chooses.

`TypeOK` of the proved modules, `ClosedBelowThreshold` of the breaker and
`RecordsFollowOrders` of the execution thread are proved and in no run. Every safety
property a run checks, invariant or action property, is proved, and so are the two
refinements. Liveness, what the runs check under fairness, is model-checked and out of
the prover's reach. None of the modules declares a RECURSIVE operator: recursion is
by folds.

## 6. What the models found

Where a comment, a log message or a test says something else than the code does:

* *A Long entry is sold.* The strategy's `Long` is the byte 1 (`engine.rs:370`) and
  `execution_manager.rs:243` makes a Sell of any byte but 0, while that file's tests
  write `side: 1u8, // Buy` (`execution_manager.rs:440`). Exits send the other
  byte, so entries go against the signal and exits with it. `AssetPipeline`
  keeps both accounts: `settled`, what was ordered in the strategy's terms, and
  `account`, what the broker then holds.
* *Unsubscribing does not end a pipeline.* "Drop md_tx to trigger channel disconnect
  cascade" (`engine.rs:1795`): the tick reactor's `handler_array` keeps a sender,
  and `recv_batch` takes a disconnected channel for an empty one. Every join behind
  it runs into its five seconds, and only the kill switch ends the threads.
* *Clearing the switch brings nothing back.* "new orders will be accepted"
  (`kill_switch.rs:63`): threads that have seen the switch have left their loops, and
  nothing starts them again.
* *Pending records are not retried.* The replay (`engine.rs:812`) looks among symbols
  for what the journal names by numeric id (`execution_manager.rs:253`), so it
  finds an asset only where the two are spelled alike.
* *Shutdown joins the actor under its lock.* `engine.rs:1852` waits for the command
  actor, without a time-out, while holding the engine's mutex: an actor that has
  just received a command waits for that mutex, and both wait for ever.
* *A staged rollout is not only the canary's.* `engine.rs:1175` applies a pending
  configuration "only to the first enabled asset (canary)"; the risk limits it
  writes (`engine.rs:1214`) are everybody's, and, taken from the copy the reload
  began with, may be older than the file's.

About processes, clocks and files:

* `engine.journal_tx` (`engine.rs:483`) is a sender of the journal's channel that
  nobody drops, so shutdown's join of the journal thread (`engine.rs:1864`) never
  returns and the steps after it are unreachable. `ControlPlane` ends there.
* A limiter whose clock steps back refills at once (`rate_limiter.rs:37`, an
  unsigned difference; a development build panics). `ImplementsQuota` is
  stated for steady clocks; the risk check's bucket does the same.
* Changing the default rate leaves symbols that have traded at theirs
  (`rate_limiter.rs:124`).
* Compaction by size may remove every file, the open one included
  (`journal.rs:321`: a removed file's size is asked for after its removal, and so not
  subtracted); what is written after that has no name. A process restarted
  within the same second appends to the file of the one before.
* A flush that fails is acknowledged like one that does not (`journal.rs:249`), so
  `FlushJournal` and shutdown's `flush_sync` report success; what the file did not take
  is made good only by a later flush. `FlushIsDurable` excepts it (`stuck`).
* A failed write skips its entry (`journal.rs:234`) or leaves it without its newline,
  and then the next entry is read as part of its data and lost, and, when a Pending
  record takes the text of a Submitted one, as its status: recovery may take an intent
  for placed that never was (`glued`).
* Journal files are named and sorted by a wall clock (`journal.rs:126`, `:186`): set back
  between two processes, the later one's entries are replayed first (`steady`).
* The key file's line is written in parts and its errors only logged
  (`idempotency.rs:143`): a key whose line was cut short is lost, and so may be the next one,
  which is appended to that line. A key file that cannot be read counts as empty
  (`idempotency.rs:69`), and what it knew may be refused no longer.
* The crash counter is truncated before it is written and all errors are ignored
  (`crash_detector.rs:79`): a death in between, or a failed access, starts the count anew
  (`lost`). A startup in safe mode records nothing, so one a minute after the last recorded one is let
  through again.
* A SNAPSHOT line cannot be read back (its time stamp is where the data is looked
  for); nothing writes one.
* The replay of a Pending record that does find its asset submits the intent
  before it reads the Submitted record behind it (`engine.rs:830`).
* Intent ids come from counters that begin again with each process
  (`symbol_registry.rs:50`) and are compared with keys kept on disk, so a new
  intent can be refused for an old one: `RefusedAcrossProcesses`.
* `main` saves the working configuration and then clears it with the crash
  detector's state (`main.rs:121-122`).
* The maps of execution states that the API and the periodic check use are cloned
  before later pipelines are in them (`main.rs:108-111`).
* The API's limiter knows one client, "unknown", when there is no address, and
  limits the kill request like any other.

About orders and positions:

* `execute_decision` never creates a record in the tracker and no thread calls
  `on_fill`, `on_reject` or `on_cancel`: the tracker knows what a start found at the
  broker, under ids that are this process's and not the broker's.
* `on_fill` books every fill as a buy, so the position follows the account only as
  long as nothing is sold; an order filled in parts, each report below its quantity,
  is never Filled; a partial fill already removes the order from the kill switch's
  list; a fill handled after a cancellation opens the record again.
* A fill that turns a short position long keeps the old average price: the one
  exception in `FillsAreNeutral`.
* The periodic check compares an answer of the broker with positions it reads
  afterwards (`engine.rs:921`, `:923`), so a fill handled in between is warned of as drift.
  It compares which symbols have positions, not how much, and counts
  the orders of the tracker, so this process's own orders look like drift.
* `update_price` is called by nobody, so equity moves with fills only.
* Without credentials the engine trades through the mock port.

About configuration:

* A configuration is validated by the watcher and by a rollout, not at the start.
* A reload sets the limiter's global rate to the default order quantity and each
  symbol's to the divisor (`engine.rs:1690-1697`); the `execution` group's
  consumers disagree from then on until a command sets them.
* `ModelSwap` and `UpdateConfig` are logged and do nothing else. `SetRiskParams`
  changes the configuration and no running check, `SetFeatureParams` replaces the
  feature engine and forgets its windows.
* A reload's warnings compare with the last reload's copy, which the API's commands
  do not update: a file that takes an API change back is not warned of.
* Cancelling a staged rollout reverts nothing (`engine.rs:1267`); completing one
  tells the pipelines nothing.
* A full command channel drops the reload while the configuration has changed
  already (`config_watcher.rs:95`): `behind` in `ConfigRollout`.
* `SetChannelParams` accepts a capacity of zero; the saved configuration holds
  "********" for its secrets.

About signals and ticks:

* The feature `confidence` is set by nothing, so the model's confidence is 0 and the
  shipped minimum of 0.5 refuses each of its predictions; the heuristic, which has
  confidence, is used only where the prediction is invalid and its score then is 0.
  The shipped configuration therefore never enters: `UnsureNeverEnters`. Without a
  minimum it would not either: volume only lowers the score, whose best is 0.54
  against a threshold of 0.6.
* A strong reversal has to wait for the entry's cooldown, `exit_threshold` is
  unused, exits are checked like entries, a swapped strategy starts flat and
  without a cooldown, and `net_position` is never updated, so the position gate is
  open.
* A token of the order rate is spent although a later check rejects.
* The RSI is updated twice per tick; a tick over budget counts as processed and as
  skipped, a malformed one in no counter.
* `DropOldest` on the decision channel drops the newest: the sender has no
  receiver to evict from. The processor's reaction to a disconnected risk channel,
  throwing the switch (`engine.rs:326`), cannot happen: it holds a receiver of that
  channel itself.
* The feed's `running` flag starts false and is never set, its attempts are never
  reset, every tick is buffered for a replay although it was delivered, and the
  session waits for a confirmation of a subscription it has not asked for yet.
* Neither the dial nor that wait has a time-out or looks at `running`: a peer that falls
  silent holds the feed thread at a kill, and the actor once the subscription channel is full.

## 7. What is not modelled

* JSON, HTTP, signing, formatting of logs and responses: I/O, which no property here
  is about. Disks that fail are modelled where something is written that is read again
  by a property: the journal, the key file and the crash counter. What a power
  failure does to data the operating system has taken is not: the code never calls `fsync`.
* The saved configuration of the crash detector: it decides what a start in safe
  mode runs with, and no step of `main`.
* Which files a compaction removes: sizes and ages are abstracted to any choice.
* Of `validate()`, which number of a group is wrong; that asset list, `max_assets` and
  thread settings are valid is a choice where a copy is staged.
* Arithmetic inside features (deviations, RSI, ATR as numbers) and the comparisons
  of position, exposure, leverage and drawdown with their limits: they keep no state,
  and the verdict is a choice in `AssetPipeline`.
* The idempotency store's eviction: it begins at 100,000 keys or 8 MiB, and every
  model stays below.
* The broker's cancel, replace and status, the tracker's expire and replace, and the
  other operations nothing calls.
* The mock port, except as one of the broker's behaviours.
* Read-only handlers of the API, the model registry and shadow models, thread-local
  metrics and their aggregator, `FeedMonitor`, `check_sequence`, `check_staleness`,
  `MarketDataReceiver`, `strategy_ext`, `send_with_policy_critical` and the reactor's
  Shutdown command: only tests call the latter, the former keep no state.
* The `platform` crate: operating-system calls. The steps of its clocks are actions of
  the modules that read them.
* What the prediction thread computes from the feature channel: it serves nobody.

Bounds are constants named `Max...` or capacities; each module's header says which
are the code's parameters and which only bound the exploration.

## 8. The plan

Done, in this order: breaker, execution thread with its abstract specification and
proofs, limiter with its abstract specification, journal, recovery, control plane,
pipeline, feed, configuration, order book, ticks, signals, then the proofs of every
safety property the runs check. Next:

1. `IdempotencyStore` with a capacity small enough to evict: the set `Recovery` uses,
   implemented as long as nothing was evicted.
2. Two assets over one broker: the shared limiter and the two key files in a
   composition of `Execution` with itself.
