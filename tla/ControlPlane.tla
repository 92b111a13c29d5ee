----------------------------- MODULE ControlPlane -----------------------------
(***************************************************************************)
(* The process around the trading threads: main.rs, UnifiedEngine's        *)
(* command handling and shutdown, the command actor, the heartbeat monitor *)
(* and the crash detector's files.                                         *)
(*                                                                         *)
(* The main thread runs a single-threaded runtime: an API handler that     *)
(* blocks in its send to the bounded command channel blocks it whole.  The *)
(* actor takes commands from the channel and handles them under the engine *)
(* lock, which the main thread takes to shut down.  Every registered       *)
(* worker thread leaves its loop when it sees the kill switch; operators,  *)
(* the monitor and the main thread throw it, operators may clear it.  The  *)
(* process may die at any step and be started again.                       *)
(*                                                                         *)
(* main's steps end at "journal", the join of the journal thread in        *)
(* shutdown: engine.journal_tx is never dropped, so that thread never sees *)
(* its channel disconnect and the join never returns.                      *)
(***************************************************************************)
EXTENDS Naturals, Sequences

CONSTANTS
  Workers,    \* threads registered with the heartbeat monitor
  QueueCap,   \* capacity of the command channel
  MaxLost     \* bound: failed accesses to the state file in one run of startups

ASSUME ControlPlaneAssumption == QueueCap \in Nat \ {0} /\ MaxLost \in Nat

VARIABLES
  main,       \* what the main thread does next
  safe,       \* config.safe_mode
  request,    \* the command of the API handler that is sending, else "other"
  queue,      \* command channel
  actor,      \* what the command actor does next
  command,    \* the command it has in hand, else "other"
  running,    \* its running flag
  lock,       \* who holds the engine lock
  killed,     \* KillSwitch.active
  status,     \* of each worker thread
  heartbeat,  \* of each worker: never pulsed, fresh, or older than its timeout
  count, recorded,   \* see CrashDetector
  failed,     \* history: startups let through, each less than 60 s after the
              \* one before it, since the last that succeeded or was in safe mode
  lost        \* history: the reads and writes of the state file that failed in
              \* these startups

files   == <<count, recorded>>
history == <<failed, lost>>
actorVars == <<actor, command>>
workers == <<status, heartbeat>>
vars == <<main, safe, request, queue, actor, command, running, lock, killed,
          status, heartbeat, count, recorded, failed, lost>>

Detector == INSTANCE CrashDetector

Commands == {"kill", "clear", "other"}
Alive == {w \in Workers : status[w] \in {"running", "stuck"}}

Goto(step) == main' = step

-----------------------------------------------------------------------------
(* main: startup.                                                          *)

Failures(seen, outcome) ==
  (IF seen # count THEN 1 ELSE 0) + (IF outcome # "written" THEN 1 ELSE 0)

\* Another startup is let through, in this run of startups or the first of one.
LetThrough(quick, failures) ==
  /\ failed' = (IF quick THEN failed ELSE 0) + 1
  /\ lost' = (IF quick THEN lost ELSE 0) + failures
  /\ lost' <= MaxLost

\* Mutant: a startup near the last one is counted as the first again.
BootForgets(quick) ==
  /\ main = "boot" /\ Goto("start") /\ safe' = FALSE
  /\ Detector!CheckAndRecordStartup(count, FALSE, "written") /\ LetThrough(quick, 0)
  /\ UNCHANGED <<request, queue, actorVars, running, lock, killed, workers>>

\* quick: this startup is less than 60 s after the last one.
Boot(quick) ==
  /\ main = "boot" /\ Goto("start")
  /\ \E seen \in {count, 0}, near \in BOOLEAN, outcome \in Detector!Outcomes :
       /\ recorded => near = quick
       /\ Detector!CheckAndRecordStartup(seen, near, outcome)
       /\ safe' = Detector!Loops(seen, near)
       /\ IF safe' THEN failed' = 0 /\ lost' = 0
          ELSE LetThrough(quick, Failures(seen, outcome))
  /\ UNCHANGED <<request, queue, actorVars, running, lock, killed, workers>>

\* Engine::start, which in safe mode starts no trading thread.
Start == /\ main = "start" /\ Goto("save")
         /\ status' = [w \in Workers |-> IF safe THEN "off" ELSE "running"]
         /\ UNCHANGED <<safe, request, queue, actorVars, running, lock, killed, heartbeat,
                        files, history>>

\* save_working_config: what becomes of that file decides no step.
SaveConfig == /\ main = "save" /\ Goto("clear")
              /\ UNCHANGED <<safe, request, queue, actorVars, running, lock, killed,
                             workers, files, history>>

ClearState == /\ main = "clear" /\ Goto("clearConfig")
              /\ Detector!Clear /\ failed' = 0 /\ lost' = 0
              /\ UNCHANGED <<safe, request, queue, actorVars, running, lock, killed, workers>>

ClearConfig == /\ main = "clearConfig" /\ Goto("serve")
               /\ actor' = "check"      \* start_command_actor
               /\ UNCHANGED <<safe, request, queue, command, running, lock, killed,
                              workers, files, history>>

-----------------------------------------------------------------------------
(* main: serving the API, and shutdown.                                    *)

Request(c) == /\ main = "serve" /\ Goto("sending") /\ request' = c
              /\ UNCHANGED <<safe, queue, actorVars, running, lock, killed, workers, files,
                             history>>

\* send_command: the blocking send of the handler's command.
Send == /\ main = "sending" /\ Len(queue) < QueueCap /\ Goto("serve")
        /\ queue' = Append(queue, request) /\ request' = "other"
        /\ UNCHANGED <<safe, actorVars, running, lock, killed, workers, files,
                       history>>

\* Ctrl+C throws the switch; a server that ends does not.
Interrupt == /\ main = "serve" /\ Goto("lock")
             /\ killed' \in {TRUE, killed}
             /\ UNCHANGED <<safe, request, queue, actorVars, running, lock, workers, files,
                            history>>

\* The serving loop looks at the switch every second.
Notice == /\ main = "serve" /\ killed /\ Goto("lock")
          /\ UNCHANGED <<safe, request, queue, actorVars, running, lock, killed, workers,
                         files, history>>

\* Mutant: shutdown itself leaves the switch alone.
EnterShutdownQuietly == /\ main = "lock" /\ lock = "nobody" /\ Goto("stop")
                        /\ lock' = "main"
                        /\ UNCHANGED <<safe, request, queue, actorVars, running, killed,
                                       workers, files, history>>

EnterShutdown == /\ main = "lock" /\ lock = "nobody" /\ Goto("stop")
                 /\ lock' = "main" /\ killed' = TRUE
                 /\ UNCHANGED <<safe, request, queue, actorVars, running, workers, files,
                                history>>

\* CommandActor::shutdown: lower the flag, then join the thread.
StopActor == /\ main = "stop" /\ Goto("join")
             /\ running' = FALSE
             /\ UNCHANGED <<safe, request, queue, actorVars, lock, killed, workers, files,
                            history>>

\* Mutant: the join gives up after a time, like that of the workers.
JoinWithTimeout == /\ main = "join" /\ Goto("flush")
                   /\ UNCHANGED <<safe, request, queue, actorVars, running, lock, killed,
                                  workers, files, history>>

JoinActor == /\ main = "join" /\ actor = "exited" /\ Goto("flush")
             /\ UNCHANGED <<safe, request, queue, actorVars, running, lock, killed, workers,
                            files, history>>

\* flush_sync returns within five seconds, one way or the other.
FlushJournal == /\ main = "flush" /\ Goto("journal")
                /\ UNCHANGED <<safe, request, queue, actorVars, running, lock, killed,
                               workers, files, history>>

-----------------------------------------------------------------------------
(* The command actor.                                                      *)

ActorCheck == /\ actor = "check"
              /\ actor' = IF running THEN "recv" ELSE "exited"
              /\ UNCHANGED <<main, safe, request, queue, command, running, lock, killed,
                             workers, files, history>>

ActorReceive == /\ actor = "recv" /\ queue # <<>> /\ actor' = "lock"
                /\ command' = Head(queue) /\ queue' = Tail(queue)
                /\ UNCHANGED <<main, safe, request, running, lock, killed, workers, files,
                               history>>

ActorTimeout == /\ actor = "recv" /\ queue = <<>> /\ actor' = "check"
                /\ UNCHANGED <<main, safe, request, queue, command, running, lock, killed,
                               workers, files, history>>

ActorLock == /\ actor = "lock" /\ lock = "nobody"
             /\ actor' = "handle" /\ lock' = "actor"
             /\ UNCHANGED <<main, safe, request, queue, command, running, killed, workers,
                            files, history>>

\* Engine::handle_command; of the other commands only the time matters.
ActorHandle == /\ actor = "handle"
               /\ actor' = "check" /\ command' = "other" /\ lock' = "nobody"
               /\ killed' = CASE command = "kill" -> TRUE
                              [] command = "clear" -> FALSE
                              [] OTHER -> killed
               /\ UNCHANGED <<main, safe, request, queue, running, workers, files, history>>

\* The configuration watcher, from start on: its try_send gives up when the
\* channel is full.
WatcherReload == /\ main \notin {"boot", "start"} /\ Len(queue) < QueueCap
                 /\ queue' = Append(queue, "other")
                 /\ UNCHANGED <<main, safe, request, actorVars, running, lock, killed,
                                workers, files, history>>

-----------------------------------------------------------------------------
(* Workers and their monitor.                                              *)

SetStatus(w, s) ==
  /\ status' = [status EXCEPT ![w] = s]
  /\ UNCHANGED <<main, safe, request, queue, actorVars, running, lock, killed, heartbeat,
                 files, history>>

SetHeartbeat(w, h) ==
  /\ heartbeat' = [heartbeat EXCEPT ![w] = h]
  /\ UNCHANGED <<main, safe, request, queue, actorVars, running, lock, killed, status,
                 files, history>>

\* while !kill_switch.is_active() { pulse ...
Pulse(w) == status[w] = "running" /\ ~killed /\ SetHeartbeat(w, "fresh")

WorkerExit(w) == status[w] = "running" /\ killed /\ SetStatus(w, "exited")

\* A slow or blocked call, its end, and a panic.
Stall(w)  == status[w] = "running" /\ SetStatus(w, "stuck")
Resume(w) == status[w] = "stuck" /\ SetStatus(w, "running")
Panic(w)  == status[w] \in {"running", "stuck"} /\ SetStatus(w, "exited")

\* More than its timeout has passed since the worker's last pulse.
Age(w) == heartbeat[w] = "fresh" /\ SetHeartbeat(w, "stale")

\* Mutant: every worker has to be late.
MonitorCheckAll == /\ ~killed /\ Workers # {} /\ \A w \in Workers : heartbeat[w] = "stale"
                   /\ killed' = TRUE
                   /\ UNCHANGED <<main, safe, request, queue, actorVars, running, lock,
                                  workers, files, history>>

\* A worker that has never pulsed is not looked at.
MonitorCheck == /\ ~killed /\ \E w \in Workers : heartbeat[w] = "stale"
                /\ killed' = TRUE
                /\ UNCHANGED <<main, safe, request, queue, actorVars, running, lock, workers,
                               files, history>>

-----------------------------------------------------------------------------
\* What a new process starts with.
Fresh == /\ main' = "boot" /\ safe' = FALSE /\ request' = "other"
         /\ queue' = <<>> /\ actor' = "off" /\ command' = "other" /\ running' = TRUE
         /\ lock' = "nobody" /\ killed' = FALSE
         /\ status' = [w \in Workers |-> "off"]
         /\ heartbeat' = [w \in Workers |-> "never"]

\* The process dies, and is started again; the files stay.
Crash == main # "boot" /\ Fresh /\ UNCHANGED <<files, history>>

Init == /\ main = "boot" /\ safe = FALSE /\ request = "other"
        /\ queue = <<>> /\ actor = "off" /\ command = "other" /\ running = TRUE
        /\ lock = "nobody" /\ killed = FALSE
        /\ status = [w \in Workers |-> "off"]
        /\ heartbeat = [w \in Workers |-> "never"]
        /\ Detector!Init /\ failed = 0 /\ lost = 0

Startup == \/ \E quick \in BOOLEAN : Boot(quick)
           \/ Start \/ SaveConfig \/ ClearState \/ ClearConfig

Shutdown == EnterShutdown \/ StopActor \/ JoinActor \/ FlushJournal

MainStep == Startup \/ Send \/ Shutdown

ActorStep == ActorCheck \/ ActorReceive \/ ActorTimeout \/ ActorLock \/ ActorHandle

Trouble(w) == Stall(w) \/ Resume(w) \/ Panic(w) \/ Age(w)

Next == \/ MainStep \/ Notice
        \/ ActorStep
        \/ MonitorCheck
        \/ \E w \in Workers : Pulse(w) \/ WorkerExit(w) \/ Trouble(w)
        \/ (\E c \in Commands : Request(c)) \/ Interrupt \/ WatcherReload
        \/ Crash

Spec == Init /\ [][Next]_vars

(* Threads are scheduled; commands and flushes take a bounded time; time   *)
(* passes for a worker that is silent.  A worker that comes back from a    *)
(* slow call looks at the switch; however many API requests come, the      *)
(* runtime polls its timer; parking_lot's mutex is eventually fair, and    *)
(* the watcher's rare commands do not starve a waiting sender (SF).        *)
(* Operators, trouble and crashes are not required.                        *)
FairSpec == /\ Spec
            /\ WF_vars(MainStep) /\ SF_vars(Notice)
            /\ SF_vars(EnterShutdown) /\ SF_vars(Send)
            /\ WF_vars(ActorStep)
            /\ WF_vars(MonitorCheck)
            /\ \A w \in Workers : /\ WF_vars(Pulse(w)) /\ SF_vars(WorkerExit(w))
                                  /\ WF_vars(Age(w) /\ status[w] # "running")

-----------------------------------------------------------------------------
TypeOK ==
  /\ main \in {"boot", "start", "save", "clear", "clearConfig", "serve", "sending", "lock",
               "stop", "join", "flush", "journal"}
  /\ safe \in BOOLEAN /\ request \in Commands /\ command \in Commands
  /\ queue \in Seq(Commands) /\ Len(queue) <= QueueCap
  /\ actor \in {"off", "check", "recv", "lock", "handle", "exited"}
  /\ running \in BOOLEAN /\ lock \in {"nobody", "main", "actor"} /\ killed \in BOOLEAN
  /\ status \in [Workers -> {"off", "running", "stuck", "exited"}]
  /\ heartbeat \in [Workers -> {"never", "fresh", "stale"}]
  /\ count \in 0..2 /\ recorded \in BOOLEAN
  /\ failed \in Nat /\ lost \in 0..MaxLost

(* "Stop command actor so no new control commands are processed": once     *)
(* shutdown has got as far as the journal's flush, no command is handled,  *)
(* so nothing that a handler does can come after the flush.                *)
NoCommandAfterFlush ==
  main \in {"flush", "journal"} => actor = "exited" /\ lock = "main" /\ killed

(* Of startups in quick succession, none of which succeeds, two are let    *)
(* through and the third is in safe mode, whatever the steps at which the  *)
(* processes died; each read or write of the state file that fails or is   *)
(* cut short lets at most two more through.                                *)
LoopIsStopped == failed < Detector!Limit + 2 * lost

(* A switch that stays thrown ends every worker thread that is not itself  *)
(* stuck.                                                                  *)
KillEndsWorkers == []<>~killed \/ []<>(\A w \in Alive : status[w] = "stuck")

(* A switch that stays thrown ends the API, and with it the process's way  *)
(* back from a kill.                                                       *)
KillStopsServing == []<>~killed \/ []<>(main \notin {"serve", "sending"})

(* An API handler's blocking send returns: the actor, which may itself be  *)
(* waiting for the engine lock, always gets to empty the channel.          *)
SendReturns == []<>(main # "sending")

(* A kill command that has entered the channel takes effect, whatever is   *)
(* in front of it and even when shutdown stops the actor first.            *)
KillIsObeyed == \A n \in 1..QueueCap :
  (n <= Len(queue) /\ queue[n] = "kill") ~> (killed \/ main = "boot")

(* A worker that stays silent after its first pulse has the switch thrown, *)
(* and thrown again whenever an operator clears it.                        *)
SilenceIsNoticed == \A w \in Workers :
  \/ []<>(heartbeat[w] = "never" \/ status[w] = "running")
  \/ []<>killed

(* A kill, from its request to its end: the handler's send returns, the    *)
(* command takes effect, and a switch that stays thrown ends the workers   *)
(* and the API.                                                            *)
KillIsCarriedOut == SendReturns /\ KillIsObeyed /\ KillEndsWorkers /\ KillStopsServing
=============================================================================
