------------------------------ MODULE FeedSession ------------------------------
(***************************************************************************)
(* AlpacaWebSocketFeed (gateway/src/alpaca_feed.rs) and the two engine     *)
(* threads beside it: the feed thread that starts and stops it, and the    *)
(* command actor, which sends subscription commands into its bounded       *)
(* channel with a blocking send (engine.rs, handle_command).               *)
(*                                                                         *)
(* A session dials, waits for the peer to confirm a subscription, asks for *)
(* the active symbols, replays the buffered ticks and then serves messages *)
(* and commands until the connection or the feed ends.  Neither wait has a *)
(* time-out, or an eye on running.  Sessions end MaxAttempts times at      *)
(* most.  new() leaves running FALSE and nothing in the repository sets    *)
(* it; the field is public, so both values start.                          *)
(*                                                                         *)
(* A tick is a number, in the order the peer sends them; times counts how  *)
(* often each was put in the tick channel.  A message that is not the one  *)
(* a session waits for, or that does not parse, is only logged.            *)
(***************************************************************************)
EXTENDS Integers, Sequences, SequencesExt

CONSTANTS
  Symbols, StartSymbols,   \* every symbol; config.symbols
  MaxAttempts,             \* max_reconnect_attempts
  SubCapacity,             \* the subscription channel: 64
  TickCapacity,            \* the tick channel: 10000
  MaxReplay, MaxBytes,     \* replay buffer: max_replay_ticks; its bytes, in ticks
  MaxTicks, MaxCommands    \* bounds: ticks the peer sends, commands the engine gets

ASSUME FeedAssumption ==
  /\ StartSymbols \subseteq Symbols
  /\ {MaxAttempts, SubCapacity, TickCapacity, MaxReplay, MaxBytes} \subseteq Nat \ {0}
  /\ MaxTicks \in Nat /\ MaxCommands \in Nat

VARIABLES
  feed,       \* the session: "down", "dial", "auth", "live", "wait" or, for good,
              \* "ended"
  running, connected, attempts,
  active,     \* active_symbols
  asked,      \* what this connection has asked the peer for
  unsent,     \* a command of this session could not be sent to the peer
  commands,   \* subscription channel
  sender,     \* the command the engine's actor is sending, or <<>>
  wanted,     \* symbols the engine has a pipeline for
  given,      \* bound: commands given to the engine
  killed,     \* KillSwitch.active
  buffer, bytes,
  ticks,      \* tick channel
  next, times \* next tick of the peer; deliveries of each

session  == <<feed, running, connected, attempts, asked, unsent>>
engine   == <<commands, sender, wanted, given>>
delivery == <<buffer, bytes, ticks, times>>
vars == <<session, active, engine, killed, delivery, next>>

Tick == 1 .. MaxTicks
Ops  == [op : {"subscribe", "unsubscribe"}, symbol : Symbols]

Init ==
  /\ feed = "down" /\ running \in BOOLEAN /\ connected = FALSE /\ attempts = 0
  /\ active = StartSymbols /\ asked = {} /\ unsent = FALSE
  /\ commands = <<>> /\ sender = <<>> /\ wanted = StartSymbols /\ given = 0
  /\ killed = FALSE /\ buffer = <<>> /\ bytes = 0 /\ ticks = <<>>
  /\ next = 1 /\ times = [t \in Tick |-> 0]

\* A set of symbols after one command, and after a sequence of them.
Apply(set, cmd) == IF cmd.op = "subscribe" THEN set \cup {cmd.symbol} ELSE set \ {cmd.symbol}
ApplyAll(set, cmds) == FoldLeft(Apply, set, cmds)

-----------------------------------------------------------------------------
(* The replay buffer and the tick channel.                                 *)

\* Room for one more tick of 200 bytes: first by bytes, then by count.
Room(b, n) ==
  LET short  == IF n + 1 > MaxBytes THEN n + 1 - MaxBytes ELSE 0
      popped == IF short < Len(b) THEN short ELSE Len(b)
      rest   == SubSeq(b, popped + 1, Len(b))
      left   == IF n >= popped THEN n - popped ELSE 0
      over   == Len(rest) >= MaxReplay
  IN  [ticks |-> IF over THEN Tail(rest) ELSE rest,
       bytes |-> IF over /\ left > 0 THEN left - 1 ELSE left]

BufferTick(t) == LET room == Room(buffer, bytes)
                 IN  buffer' = Append(room.ticks, t) /\ bytes' = room.bytes + 1

\* try_send of each tick of a sequence: what does not fit is dropped.
TrySend(seq) ==
  LET fits == SubSeq(seq, 1, TickCapacity - Len(ticks))
      sent == IF Len(seq) <= TickCapacity - Len(ticks) THEN seq ELSE fits
  IN  /\ ticks' = ticks \o sent
      /\ times' = [t \in Tick |-> times[t] + IF Contains(sent, t) THEN 1 ELSE 0]

\* Mutant: the buffer is replayed and kept.
ReplayKeeping == TrySend(buffer) /\ UNCHANGED <<buffer, bytes>>
ReplayTicks == TrySend(buffer) /\ buffer' = <<>> /\ bytes' = 0

-----------------------------------------------------------------------------
(* Sessions.                                                               *)

\* connect_and_stream returns, with or without an error.
\* Mutant: a session that got as far as streaming does not count.
EndSessionUncounted ==
  /\ attempts' = IF feed = "live" THEN attempts ELSE attempts + 1
  /\ feed' = IF running THEN "wait" ELSE "down"

EndSession == /\ attempts' = attempts + 1
              /\ feed' = IF running THEN "wait" ELSE "down"

\* The loop of run is over: the task ends and the command receiver with it.
GiveUp == /\ feed = "down" /\ (~running \/ attempts >= MaxAttempts)
          /\ feed' = "ended"
          /\ UNCHANGED <<running, connected, attempts, asked, unsent, active, engine, killed,
                         delivery, next>>

\* The head of run's loop, and connect_async.
Dial == /\ feed = "down" /\ running /\ attempts < MaxAttempts
        /\ feed' = "dial"
        /\ UNCHANGED <<running, connected, attempts, asked, unsent, active, engine, killed,
                       delivery, next>>

ConnectFails == /\ feed = "dial" /\ EndSession
                /\ UNCHANGED <<running, connected, asked, unsent, active, engine, killed,
                               delivery, next>>

\* connected is set here and never cleared; the auth request may fail.
Connect == /\ feed = "dial" /\ connected' = TRUE
           /\ \/ feed' = "auth" /\ UNCHANGED attempts
              \/ EndSession
           /\ asked' = {} /\ unsent' = FALSE
           /\ UNCHANGED <<running, active, engine, killed, delivery, next>>

\* The head of the streaming loop: stream on while running.
\* Mutant: the loop does not look at running.
StreamForever == feed' = "live" /\ UNCHANGED attempts
Stream == IF running THEN feed' = "live" /\ UNCHANGED attempts ELSE EndSession

\* The peer confirms a subscription: ask for the active symbols and replay.
\* Mutant: ask for the configured symbols again.
AuthenticatedAnew ==
  /\ feed = "auth" /\ active # {}
  /\ asked' = StartSymbols /\ ReplayTicks /\ Stream
  /\ UNCHANGED <<running, connected, unsent, active, engine, killed, next>>

Authenticated ==
  /\ feed = "auth" /\ active # {}
  /\ asked' = active /\ ReplayTicks /\ Stream
  /\ UNCHANGED <<running, connected, unsent, active, engine, killed, next>>

\* It is confirmed with nothing to ask for, or the request cannot be sent;
\* or the peer closes the connection.
AuthFails == /\ feed = "auth" /\ EndSession
             /\ UNCHANGED <<running, connected, asked, unsent, active, engine, killed,
                            delivery, next>>

\* A market data message is buffered, then sent.
Receive == /\ feed = "live" /\ asked # {} /\ next \in Tick
           /\ BufferTick(next) /\ TrySend(<<next>>) /\ next' = next + 1 /\ Stream
           /\ UNCHANGED <<running, connected, asked, unsent, active, engine, killed>>

\* The 250 ms timer: every command waiting is taken.  The symbols follow all
\* of them; the peer hears the first k, after which the connection is broken.
ServeCommands ==
  /\ feed = "live" /\ Stream
  /\ active' = ApplyAll(active, commands) /\ commands' = <<>>
  /\ \E k \in 0 .. Len(commands) :
       /\ asked' = ApplyAll(asked, SubSeq(commands, 1, k))
       /\ unsent' = (unsent \/ k < Len(commands))
  /\ UNCHANGED <<running, connected, sender, wanted, given, killed, delivery, next>>

\* Close, a read error or the end of the stream.
Disconnected == /\ feed = "live" /\ EndSession
                /\ UNCHANGED <<running, connected, asked, unsent, active, engine, killed,
                               delivery, next>>

Reconnect == /\ feed = "wait" /\ feed' = "down"
             /\ UNCHANGED <<running, connected, attempts, asked, unsent, active, engine,
                            killed, delivery, next>>

-----------------------------------------------------------------------------
(* The threads around it.                                                  *)

\* SubscribeFeed and UnsubscribeFeed: the pipeline first, then the feed.
Command(cmd) ==
  /\ sender = <<>> /\ given < MaxCommands /\ given' = given + 1
  /\ IF cmd.op = "subscribe" THEN cmd.symbol \notin wanted ELSE cmd.symbol \in wanted
  /\ wanted' = Apply(wanted, cmd) /\ sender' = <<cmd>>
  /\ UNCHANGED <<session, active, commands, killed, delivery, next>>

\* The blocking send: it returns with room in the channel, or with an error
\* that is ignored once the receiver is gone.
\* Mutant: a full channel drops the command.
SendDropping == /\ sender # <<>> /\ sender' = <<>>
                /\ commands' = IF Len(commands) < SubCapacity THEN commands \o sender ELSE commands
                /\ UNCHANGED <<session, active, wanted, given, killed, delivery, next>>

Send == /\ sender # <<>> /\ (feed = "ended" \/ Len(commands) < SubCapacity)
        /\ commands' = IF feed = "ended" THEN commands ELSE commands \o sender
        /\ sender' = <<>> /\ UNCHANGED <<session, active, wanted, given, killed, delivery, next>>

Kill == /\ ~killed /\ killed' = TRUE
        /\ UNCHANGED <<session, active, engine, delivery, next>>

\* The feed thread sees the switch within a second and stops the feed.
Stop == /\ killed /\ running /\ running' = FALSE
        /\ UNCHANGED <<feed, connected, attempts, asked, unsent, active, engine, killed,
                       delivery, next>>

\* The tick reactor takes a tick.
Take == /\ ticks # <<>> /\ ticks' = Tail(ticks)
        /\ UNCHANGED <<session, active, engine, killed, buffer, bytes, times, next>>

Next ==
  \/ GiveUp \/ Dial \/ ConnectFails \/ Connect \/ Authenticated \/ AuthFails
  \/ Receive \/ ServeCommands \/ Disconnected \/ Reconnect
  \/ \E cmd \in Ops : Command(cmd)
  \/ Send \/ Kill \/ Stop \/ Take

(* Fair: the feed's task, its timers, the feed thread and the actor, and a  *)
(* write to the peer, which the transport ends one way or the other.  The  *)
(* peer need not answer a dial or confirm anything, nor close.              *)
Fairness ==
  /\ WF_vars(GiveUp) /\ WF_vars(Dial)
  /\ WF_vars(ServeCommands) /\ WF_vars(Reconnect) /\ WF_vars(Send) /\ WF_vars(Stop)

Spec == Init /\ [][Next]_vars
FairSpec == Spec /\ Fairness

-----------------------------------------------------------------------------
(* Properties.                                                             *)

TypeOK ==
  /\ feed \in {"down", "dial", "auth", "live", "wait", "ended"}
  /\ running \in BOOLEAN /\ connected \in BOOLEAN /\ attempts \in 0 .. MaxAttempts
  /\ active \subseteq Symbols /\ asked \subseteq Symbols /\ unsent \in BOOLEAN
  /\ commands \in Seq(Ops) /\ Len(commands) <= SubCapacity
  /\ sender \in Seq(Ops) /\ wanted \subseteq Symbols /\ given \in 0 .. MaxCommands
  /\ killed \in BOOLEAN /\ buffer \in Seq(Tick) /\ bytes \in Nat
  /\ ticks \in Seq(Tick) /\ Len(ticks) <= TickCapacity
  /\ next \in 1 .. MaxTicks + 1 /\ times \in [Tick -> Nat]

\* No command is lost or applied out of order while the feed lives, through
\* any number of reconnections: what is still in the channel, and in the
\* actor's hands, leads from the active symbols to the engine's pipelines.
CommandsReachFeed == feed # "ended" => ApplyAll(active, commands \o sender) = wanted

\* A streaming session has asked the peer for exactly the active symbols,
\* whatever changed while it was down, unless a send to the peer failed.
PeerKnowsActive == feed = "live" /\ ~unsent => asked = active

\* The replay buffer keeps to both limits, its byte count is that of its
\* ticks, and it holds the newest ones in the order they came.
BufferIsAccounted ==
  /\ bytes = Len(buffer) /\ Len(buffer) <= MaxReplay /\ bytes <= MaxBytes
  /\ \A i \in 1 .. Len(buffer) : buffer[i] = next - 1 - Len(buffer) + i

\* Reconnecting delivers a tick a second time, but never a third: a replay
\* empties the buffer, and replayed ticks do not enter it again.
DeliveredTwiceAtMost == \A t \in Tick : times[t] <= 2

\* The two together: reconnecting neither outgrows its buffer nor repeats itself.
ReplayIsAccounted == BufferIsAccounted /\ DeliveredTwiceAtMost

\* Where a session waits for the peer alone.
AwaitsPeer == feed \in {"dial", "auth"}

\* No thread is held for ever but by a peer that falls silent before it has
\* confirmed anything: else the actor's blocking send returns, through any
\* disconnection and after the feed has given up, and the kill switch ends
\* the feed.
ThreadsAreReleased ==
  \/ <>[]AwaitsPeer
  \/ /\ sender # <<>> ~> sender = <<>>
     /\ killed ~> feed = "ended"

\* Disconnections are counted over the life of the process, so the feed does
\* not reconnect for ever: it stays in one session, waiting or streaming, or
\* gives up for good.
ReconnectsRunOut == <>[]AwaitsPeer \/ <>[](feed = "live") \/ <>[](feed = "ended")
=============================================================================
