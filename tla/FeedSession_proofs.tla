-------------------------- MODULE FeedSession_proofs --------------------------
(***************************************************************************)
(* Proofs about the feed's sessions and the threads beside them, for any   *)
(* symbols, channel capacities, buffer limits and numbers of attempts,     *)
(* ticks and commands.                                                     *)
(***************************************************************************)
EXTENDS FeedSession, SequenceTheorems, FiniteSetTheorems, WellFoundedInduction, TLAPS

(* What a session counts: an attempt is left while one is under way.       *)
AttemptsLeft == feed \in {"dial", "auth", "live"} => attempts < MaxAttempts

(* The actor holds one command at most.                                    *)
OneInHand == Len(sender) <= 1

(* Ticks to come have not been delivered, those that wait to be replayed   *)
(* once at most.                                                           *)
TimesInv ==
  \A t \in Tick : /\ t >= next => times[t] = 0
                  /\ t >= next - Len(buffer) => times[t] <= 1

(* The inductive invariant: the three invariants of the model and what     *)
(* their proofs need of the sessions.                                      *)
FeedInv ==
  /\ TypeOK /\ AttemptsLeft /\ OneInHand
  /\ CommandsReachFeed /\ PeerKnowsActive /\ ReplayIsAccounted /\ TimesInv

-----------------------------------------------------------------------------
(* Every set of numbers between 0 and n has a greatest element.            *)
LEMMA HasMax ==
  ASSUME NEW n \in Nat, NEW D \in SUBSET (0..n), D # {}
  PROVE  Max(D) \in D /\ \A i \in D : i <= Max(D)
<1> DEFINE Above == {i..n : i \in D}
<1>1. IsFiniteSet(0..n)
  BY FS_Interval
<1>2. IsWellFoundedOn(StrictSubsetOrdering(0..n), FiniteSubsetsOf(0..n))
  BY <1>1, FS_StrictSubsetOrderingWellFounded
<1>3. Above \subseteq FiniteSubsetsOf(0..n) /\ Above # {}
  <2>1. ASSUME NEW i \in D PROVE i..n \in FiniteSubsetsOf(0..n)
    <3>1. i..n \subseteq 0..n
      OBVIOUS
    <3>2. QED
      BY <1>1, <3>1, FS_Subset DEF FiniteSubsetsOf
  <2>2. QED
    BY <2>1
<1> HIDE DEF Above
<1>4. PICK s \in Above : \A t \in Above : <<t, s>> \notin StrictSubsetOrdering(0..n)
  BY <1>2, <1>3, WFMin
<1>5. PICK m \in D : s = m..n
  BY DEF Above
<1>6. ASSUME NEW i \in D, i > m PROVE FALSE
  <2>1. i..n \in Above /\ i..n \subseteq 0..n /\ m..n \subseteq 0..n
    BY DEF Above
  <2>2. i..n \subseteq m..n /\ m \in m..n /\ m \notin i..n
    BY <1>6
  <2>3. QED
    BY <1>4, <1>5, <2>1, <2>2 DEF StrictSubsetOrdering
<1>7. \A i \in D : m >= i
  BY <1>6
<1>8. QED
  BY <1>7 DEF Max

\* What commands at the places D leave of a set: the last one on a symbol counts.
After(set, cmds, D) ==
  {x \in set \cup {cmds[i].symbol : i \in D} :
     \/ \E i \in D : /\ cmds[i].symbol = x /\ cmds[i].op = "subscribe"
                     /\ \A j \in D : j > i => cmds[j].symbol # x
     \/ x \in set /\ \A i \in D : cmds[i].symbol # x}

\* What FoldLeft of the commands is defined by.
IsFold(g, set, cmds) ==
  g = [D \in SUBSET DOMAIN cmds |->
         IF D = {} THEN set ELSE Apply(g[D \ {Max(D)}], cmds[Max(D)])]

(* One command more applies to what those before it leave.                 *)
LEMMA AfterLast ==
  ASSUME NEW set, NEW cmds, NEW n \in Nat, NEW D \in SUBSET (0..n), D # {}
  PROVE  After(set, cmds, D) = Apply(After(set, cmds, D \ {Max(D)}), cmds[Max(D)])
<1> DEFINE m == Max(D)
           E == D \ {m}
<1>1. m \in D /\ (\A i \in D : i <= m) /\ D \subseteq Int
  BY HasMax
<1> HIDE DEF m
<1>2. \A i \in E : i < m /\ i \in Int
  BY <1>1
<1>3. D = E \cup {m}
  BY <1>1
<1>4. ASSUME NEW x
      PROVE  x \in After(set, cmds, D) <=> x \in Apply(After(set, cmds, E), cmds[m])
  <2>1. CASE cmds[m].symbol = x
    BY <1>1, <1>2, <1>3, <2>1 DEF After, Apply
  <2>2. CASE cmds[m].symbol # x
    BY <1>1, <1>2, <1>3, <2>2 DEF After, Apply
  <2>3. QED
    BY <2>1, <2>2
<1>5. QED
  BY <1>4 DEF m

(* A sequence of commands leaves of a set what After says.                 *)
LEMMA ApplyAllIsAfter ==
  ASSUME NEW set, NEW cmds, NEW n \in Nat, DOMAIN cmds \subseteq 0..n
  PROVE  ApplyAll(set, cmds) = After(set, cmds, DOMAIN cmds)
<1> DEFINE S == SUBSET DOMAIN cmds
           g == [D \in S |-> After(set, cmds, D)]
           h == CHOOSE f : IsFold(f, set, cmds)
<1>1. ApplyAll(set, cmds) = h[DOMAIN cmds]
  BY DEF ApplyAll, FoldLeft, MapThenFoldSet, IsFold
<1>2. IsFold(g, set, cmds)
  <2>1. g[{}] = set
    BY DEF After
  <2>2. ASSUME NEW D \in S, D # {}
        PROVE  g[D] = Apply(g[D \ {Max(D)}], cmds[Max(D)])
    <3>1. D \in SUBSET (0..n) /\ D \ {Max(D)} \in S
      OBVIOUS
    <3>2. QED
      BY <2>2, <3>1, AfterLast
  <2>3. QED
    BY <2>1, <2>2 DEF IsFold
<1>3. IsFold(h, set, cmds)
  BY <1>2
<1> HIDE DEF h
<1>4. \A D \in S : h[D] = g[D]
  <2> DEFINE Bad == {D \in S : h[D] # g[D]}
  <2> SUFFICES ASSUME Bad # {} PROVE FALSE
    OBVIOUS
  <2>1. IsFiniteSet(DOMAIN cmds)
    <3>1. IsFiniteSet(0..n)
      BY FS_Interval
    <3>2. QED
      BY <3>1, FS_Subset
  <2>2. Bad \subseteq FiniteSubsetsOf(DOMAIN cmds)
    BY <2>1, FS_Subset DEF FiniteSubsetsOf
  <2>3. IsWellFoundedOn(StrictSubsetOrdering(DOMAIN cmds), FiniteSubsetsOf(DOMAIN cmds))
    BY FS_StrictSubsetOrderingWellFounded
  <2>4. PICK D \in Bad : \A E \in Bad : <<E, D>> \notin StrictSubsetOrdering(DOMAIN cmds)
    BY <2>2, <2>3, WFMin
  <2>5. D # {}
    BY <1>2, <1>3 DEF IsFold
  <2>6. Max(D) \in D
    BY <2>5, HasMax
  <2>7. D \ {Max(D)} \notin Bad
    <3> DEFINE E == D \ {Max(D)}
    <3>1. E \in SUBSET DOMAIN cmds /\ D \in SUBSET DOMAIN cmds /\ E \subseteq D /\ E # D
      BY <2>6
    <3> HIDE DEF E, Bad
    <3>2. <<E, D>> \in StrictSubsetOrdering(DOMAIN cmds)
      BY <3>1 DEF StrictSubsetOrdering
    <3>3. QED
      BY <2>4, <3>2 DEF E
  <2>8. h[D \ {Max(D)}] = g[D \ {Max(D)}]
    BY <2>7
  <2>9. QED
    BY <1>2, <1>3, <2>5, <2>8 DEF IsFold
<1>5. QED
  BY <1>1, <1>4

(* No command leaves a set as it was,                                      *)
LEMMA ApplyAllEmpty ==
  ASSUME NEW set
  PROVE  ApplyAll(set, <<>>) = set
<1>1. ApplyAll(set, <<>>) = After(set, <<>>, {})
  BY ApplyAllIsAfter
<1>2. QED
  BY <1>1 DEF After

(* and with one more at their end they leave what that one makes of what   *)
(* they leave without it.                                                  *)
LEMMA ApplyAllLast ==
  ASSUME NEW set, NEW s \in Seq(Ops), NEW c \in Ops
  PROVE  ApplyAll(set, s \o <<c>>) = Apply(ApplyAll(set, s), c)
<1> DEFINE n == Len(s)
           t == s \o <<c>>
<1>1. n \in Nat /\ DOMAIN s = 1..n /\ DOMAIN t = 1..(n + 1)
  OBVIOUS
<1>2. t[n + 1] = c /\ \A i \in 1..n : t[i] = s[i]
  OBVIOUS
<1> HIDE DEF n, t
<1>3. 1..n \subseteq 0..n /\ 1..(n + 1) \subseteq 0..(n + 1) /\ n + 1 \in Nat
  BY <1>1
<1>4. ApplyAll(set, s) = After(set, s, 1..n)
  BY <1>1, <1>3, ApplyAllIsAfter
<1>5. ApplyAll(set, t) = After(set, t, 1..(n + 1))
  BY <1>1, <1>3, ApplyAllIsAfter
<1> DEFINE D == 1..(n + 1)
<1>6. n + 1 \in D /\ \A i \in D : i \in Int /\ i <= n + 1
  BY <1>1, <1>3
<1> HIDE DEF D
<1>7. Max(D) \in D /\ \A i \in D : i <= Max(D)
  BY <1>3, <1>6, HasMax DEF D
<1>8. Max(D) = n + 1
  BY <1>1, <1>6, <1>7 DEF D
<1>9. After(set, t, D) = Apply(After(set, t, D \ {n + 1}), c)
  <2>1. D \in SUBSET (0..(n + 1)) /\ D # {}
    BY <1>3, <1>6 DEF D
  <2>2. After(set, t, D) = Apply(After(set, t, D \ {Max(D)}), t[Max(D)])
    BY <1>3, <2>1, AfterLast
  <2>3. QED
    BY <1>2, <1>8, <2>2
<1>10. D \ {n + 1} = 1..n
  BY <1>1 DEF D
<1>11. After(set, t, 1..n) = After(set, s, 1..n)
  BY <1>2 DEF After
<1>12. QED
  BY <1>4, <1>5, <1>9, <1>10, <1>11 DEF t, D

-----------------------------------------------------------------------------
(* What the proofs use of the constants.                                   *)
LEMMA Constants ==
  /\ StartSymbols \subseteq Symbols
  /\ MaxAttempts \in Nat \ {0} /\ SubCapacity \in Nat \ {0} /\ TickCapacity \in Nat \ {0}
  /\ MaxReplay \in Nat \ {0} /\ MaxBytes \in Nat \ {0}
  /\ MaxTicks \in Nat /\ MaxCommands \in Nat
BY FeedAssumption DEF FeedAssumption

(* Room leaves the newest ticks of a buffer that is within its limits, with *)
(* a place for one more, and counts them.                                  *)
LEMMA RoomLeft ==
  ASSUME NEW b \in Seq(Tick), Len(b) <= MaxReplay, Len(b) <= MaxBytes
  PROVE  LET room == Room(b, Len(b))
         IN  /\ room.ticks \in Seq(Tick) /\ room.bytes = Len(room.ticks)
             /\ Len(room.ticks) <= Len(b)
             /\ Len(room.ticks) < MaxReplay /\ Len(room.ticks) < MaxBytes
             /\ \A i \in 1..Len(room.ticks) : room.ticks[i] = b[i + Len(b) - Len(room.ticks)]
<1> DEFINE n      == Len(b)
           short  == IF n + 1 > MaxBytes THEN n + 1 - MaxBytes ELSE 0
           popped == IF short < n THEN short ELSE n
           rest   == SubSeq(b, popped + 1, n)
           over   == Len(rest) >= MaxReplay
           left   == IF n >= popped THEN n - popped ELSE 0
           room   == Room(b, n)
<1>1. /\ room.ticks = IF over THEN Tail(rest) ELSE rest
      /\ room.bytes = IF over /\ left > 0 THEN left - 1 ELSE left
  BY DEF Room
<1> HIDE DEF room
<1>2. n \in Nat /\ \A i \in 1..n : b[i] \in Tick
  BY ElementOfSeq, LenProperties
<1>3. popped \in 0..n /\ popped <= 1 /\ n - popped < MaxBytes
  BY <1>2, Constants
<1> HIDE DEF popped
<1>4. left = n - popped
  BY <1>2, <1>3
<1> HIDE DEF left
<1>5. /\ rest \in Seq(Tick) /\ Len(rest) = n - popped
      /\ \A i \in 1..(n - popped) : rest[i] = b[i + popped]
  BY <1>2, <1>3, SubSeqProperties
<1> HIDE DEF rest
<1> SUFFICES /\ room.ticks \in Seq(Tick) /\ room.bytes = Len(room.ticks)
             /\ Len(room.ticks) <= n
             /\ Len(room.ticks) < MaxReplay /\ Len(room.ticks) < MaxBytes
             /\ \A i \in 1..Len(room.ticks) : room.ticks[i] = b[i + n - Len(room.ticks)]
  BY DEF room
<1>6. CASE over
  <2>1. rest # <<>> /\ n - popped = MaxReplay
    BY <1>2, <1>3, <1>5, <1>6, Constants
  <2>2. /\ Tail(rest) \in Seq(Tick) /\ Len(Tail(rest)) = n - popped - 1
        /\ \A i \in 1..(n - popped - 1) : Tail(rest)[i] = b[i + 1 + popped]
    BY <1>2, <1>3, <1>5, <2>1, HeadTailProperties
  <2>3. room.ticks = Tail(rest) /\ room.bytes = n - popped - 1
    BY <1>1, <1>2, <1>3, <1>4, <1>6, <2>1, Constants
  <2>4. Len(room.ticks) = n - popped - 1 /\ n - popped - 1 < MaxReplay
    BY <1>2, <1>3, <2>1, <2>2, <2>3, Constants
  <2>5. ASSUME NEW i \in 1..(n - popped - 1)
        PROVE  room.ticks[i] = b[i + n - (n - popped - 1)]
    <3>1. i + n - (n - popped - 1) = i + 1 + popped
      BY <1>2, <1>3
    <3>2. QED
      BY <2>2, <2>3, <3>1
  <2>6. /\ Len(room.ticks) <= n /\ room.bytes = Len(room.ticks)
        /\ Len(room.ticks) < MaxReplay /\ Len(room.ticks) < MaxBytes
    BY <1>2, <1>3, <2>3, <2>4, Constants
  <2>7. room.ticks \in Seq(Tick)
    BY <2>2, <2>3
  <2>8. QED
    BY <2>4, <2>5, <2>6, <2>7
<1>7. CASE ~over
  <2>1. room.ticks = rest /\ room.bytes = n - popped
    BY <1>1, <1>7, <1>4
  <2>2. Len(room.ticks) = n - popped /\ n - popped < MaxReplay
    BY <1>2, <1>3, <1>5, <1>7, <2>1, Constants
  <2>3. ASSUME NEW i \in 1..(n - popped)
        PROVE  room.ticks[i] = b[i + n - (n - popped)]
    <3>1. i + n - (n - popped) = i + popped
      BY <1>2, <1>3
    <3>2. QED
      BY <1>5, <2>1, <3>1
  <2>4. QED
    BY <1>2, <1>3, <1>5, <2>1, <2>2, <2>3, Constants
<1>8. QED
  BY <1>6, <1>7

(* Trying to send ticks delivers each of them once at most, and no other.  *)
LEMMA TrySendDelivers ==
  ASSUME ticks \in Seq(Tick), Len(ticks) <= TickCapacity, times \in [Tick -> Nat],
         NEW seq \in Seq(Tick), TrySend(seq)
  PROVE  /\ ticks' \in Seq(Tick) /\ Len(ticks') <= TickCapacity
         /\ times' \in [Tick -> Nat]
         /\ \A t \in Tick : times'[t] <= times[t] + 1
         /\ \A t \in Tick : (\A i \in 1..Len(seq) : seq[i] # t) => times'[t] = times[t]
<1> DEFINE free == TickCapacity - Len(ticks)
           sent == IF Len(seq) <= free THEN seq ELSE SubSeq(seq, 1, free)
<1>1. free \in Nat /\ Len(seq) \in Nat
  BY Constants
<1>2. /\ sent \in Seq(Tick) /\ Len(sent) \in Nat /\ Len(sent) <= free /\ Len(sent) <= Len(seq)
      /\ \A i \in 1..Len(sent) : sent[i] = seq[i]
  BY <1>1, SubSeqProperties
<1>3. /\ ticks' = ticks \o sent
      /\ times' = [t \in Tick |-> times[t] + IF Contains(sent, t) THEN 1 ELSE 0]
  BY DEF TrySend
<1> HIDE DEF free, sent
<1>4. ASSUME NEW t \in Tick, \A i \in 1..Len(seq) : seq[i] # t
      PROVE  times'[t] = times[t]
  <2>1. ~ \E i \in 1..Len(sent) : sent[i] = t
    BY <1>1, <1>2, <1>4, SMTT(20)
  <2>2. ~Contains(sent, t)
    BY <2>1 DEF Contains
  <2>3. times[t] \in Nat
    BY DEF TypeOK
  <2>4. QED
    BY <1>3, <2>2, <2>3
<1>5. ticks' \in Seq(Tick) /\ Len(ticks') <= TickCapacity
  BY <1>1, <1>2, <1>3, ConcatProperties, Constants DEF free
<1>6. QED
  BY <1>3, <1>4, <1>5

(* Commands on symbols leave of a set of symbols a set of symbols.         *)
LEMMA ApplyAllType ==
  ASSUME NEW set \in SUBSET Symbols, NEW s \in Seq(Ops)
  PROVE  ApplyAll(set, s) \subseteq Symbols
<1>1. DOMAIN s = 1..Len(s) /\ Len(s) \in Nat /\ \A i \in 1..Len(s) : s[i] \in Ops
  BY ElementOfSeq, LenProperties
<1>2. DOMAIN s = 1..Len(s) /\ Len(s) \in Nat /\ \A i \in 1..Len(s) : s[i].symbol \in Symbols
  BY <1>1 DEF Ops
<1>3. ApplyAll(set, s) = After(set, s, 1..Len(s))
  <2>1. DOMAIN s \subseteq 0..Len(s)
    BY <1>2
  <2>2. QED
    BY <1>2, <2>1, ApplyAllIsAfter
<1>4. QED
  BY <1>2, <1>3 DEF After

-----------------------------------------------------------------------------
(* The feed starts in the invariant.                                       *)
LEMMA InitHolds == Init => FeedInv
<1> SUFFICES ASSUME Init PROVE FeedInv
  OBVIOUS
<1>1. TypeOK
  <2>1. next \in 1..MaxTicks + 1 /\ given \in 0..MaxCommands /\ attempts \in 0..MaxAttempts
    BY Constants DEF Init
  <2>2. times \in [Tick -> Nat] /\ buffer \in Seq(Tick) /\ ticks \in Seq(Tick)
    BY DEF Init
  <2>3. commands \in Seq(Ops) /\ sender \in Seq(Ops) /\ active \subseteq Symbols
    BY Constants DEF Init
  <2>4. Len(commands) <= SubCapacity /\ Len(ticks) <= TickCapacity /\ bytes \in Nat
    BY Constants DEF Init
  <2>5. feed = "down" /\ asked = {} /\ wanted = active /\ {connected, unsent, killed} = {FALSE}
    BY DEF Init
  <2>6. running \in BOOLEAN
    BY DEF Init
  <2>7. QED
    BY <2>1, <2>2, <2>3, <2>4, <2>5, <2>6 DEF TypeOK
<1>2. AttemptsLeft /\ OneInHand
  BY Constants DEF Init, AttemptsLeft, OneInHand
<1>3. CommandsReachFeed
  <2>1. commands \o sender = <<>> /\ active = wanted
    BY DEF Init
  <2>2. QED
    BY <2>1, ApplyAllEmpty DEF CommandsReachFeed
<1>4. PeerKnowsActive /\ TimesInv
  BY DEF Init, PeerKnowsActive, TimesInv
<1>5. ReplayIsAccounted
  BY Constants DEF Init, ReplayIsAccounted, BufferIsAccounted, DeliveredTwiceAtMost
<1>6. QED
  BY <1>1, <1>2, <1>3, <1>4, <1>5 DEF FeedInv

(* Every step keeps the types and what a session counts.                   *)
LEMMA TypeStep ==
  ASSUME FeedInv, [Next]_vars
  PROVE  TypeOK' /\ AttemptsLeft' /\ OneInHand'
<1> USE Constants DEF FeedInv, AttemptsLeft, OneInHand, TypeOK, session, engine, delivery
<1>1. ASSUME GiveUp \/ Dial \/ ConnectFails \/ Connect \/ AuthFails \/ Disconnected \/ Reconnect
      PROVE  TypeOK' /\ AttemptsLeft' /\ OneInHand'
  <2>1. CASE GiveUp \/ Dial
    BY <2>1 DEF GiveUp, Dial
  <2>2. CASE ConnectFails
    BY <2>2 DEF ConnectFails, EndSession
  <2>3. CASE Connect
    <3>1. CASE feed' = "auth" /\ UNCHANGED attempts
      BY <2>3, <3>1 DEF Connect
    <3>2. CASE EndSession
      <4>1. attempts' \in 0..MaxAttempts
        BY <2>3, <3>2 DEF Connect, EndSession
      <4>2. feed' \in {"wait", "down"}
        BY <3>2 DEF EndSession
      <4>3. /\ connected' = TRUE /\ asked' = {} /\ unsent' = FALSE
            /\ UNCHANGED <<running, active, engine, killed, delivery, next>>
        BY <2>3 DEF Connect
      <4>4. QED
        BY <4>1, <4>2, <4>3
    <3>3. QED
      BY <2>3, <3>1, <3>2 DEF Connect
  <2>4. CASE AuthFails
    BY <2>4 DEF AuthFails, EndSession
  <2>5. CASE Disconnected
    BY <2>5 DEF Disconnected, EndSession
  <2>6. CASE Reconnect
    BY <2>6 DEF Reconnect
  <2>7. QED
    BY <1>1, <2>1, <2>2, <2>3, <2>4, <2>5, <2>6
<1>2. ASSUME Authenticated
      PROVE  TypeOK' /\ AttemptsLeft' /\ OneInHand'
  <2>1. /\ ticks' \in Seq(Tick) /\ Len(ticks') <= TickCapacity /\ times' \in [Tick -> Nat]
    BY <1>2, TrySendDelivers DEF Authenticated, ReplayTicks
  <2>2. buffer' \in Seq(Tick) /\ bytes' \in Nat
    BY <1>2 DEF Authenticated, ReplayTicks
  <2>3. QED
    BY <1>2, <2>1, <2>2, SMTT(20) DEF Authenticated, Stream, EndSession
<1>3. ASSUME Receive
      PROVE  TypeOK' /\ AttemptsLeft' /\ OneInHand'
  <2>1. next \in Tick /\ <<next>> \in Seq(Tick)
    BY <1>3 DEF Receive
  <2>2. /\ ticks' \in Seq(Tick) /\ Len(ticks') <= TickCapacity /\ times' \in [Tick -> Nat]
    BY <1>3, <2>1, TrySendDelivers DEF Receive
  <2>3. buffer' \in Seq(Tick) /\ bytes' \in Nat
    <3>1. /\ Room(buffer, bytes).ticks \in Seq(Tick)
          /\ Room(buffer, bytes).bytes = Len(Room(buffer, bytes).ticks)
      BY RoomLeft DEF ReplayIsAccounted, BufferIsAccounted
    <3>2. QED
      BY <1>3, <2>1, <3>1 DEF Receive, BufferTick
  <2>4. next' \in 1..MaxTicks + 1
    BY <1>3 DEF Receive, Tick
  <2>5. /\ feed' \in {"live", "wait", "down"}
        /\ UNCHANGED <<running, connected, asked, unsent, active, engine, killed>>
    BY <1>3 DEF Receive, Stream, EndSession
  <2>6. attempts' \in 0..MaxAttempts /\ AttemptsLeft'
    <3>1. attempts \in 0..MaxAttempts /\ MaxAttempts \in Nat /\ attempts < MaxAttempts
      BY <1>3 DEF Receive
    <3>2. QED
      BY <1>3, <3>1 DEF Receive, Stream, EndSession
  <2>7. /\ running' \in BOOLEAN /\ connected' \in BOOLEAN /\ active' \subseteq Symbols
        /\ asked' \subseteq Symbols /\ unsent' \in BOOLEAN /\ killed' \in BOOLEAN
        /\ commands' \in Seq(Ops) /\ Len(commands') <= SubCapacity
        /\ sender' \in Seq(Ops) /\ wanted' \subseteq Symbols /\ given' \in 0..MaxCommands
        /\ OneInHand'
    BY <2>5
  <2>8. QED
    BY <2>2, <2>3, <2>4, <2>5, <2>6, <2>7
<1>4. ASSUME ServeCommands
      PROVE  TypeOK' /\ AttemptsLeft' /\ OneInHand'
  <2>1. PICK k \in 0..Len(commands) :
          /\ asked' = ApplyAll(asked, SubSeq(commands, 1, k))
          /\ unsent' = (unsent \/ k < Len(commands))
    BY <1>4 DEF ServeCommands
  <2>2. SubSeq(commands, 1, k) \in Seq(Ops)
    BY SubSeqProperties
  <2>3. active' \subseteq Symbols /\ asked' \subseteq Symbols
    BY <1>4, <2>1, <2>2, ApplyAllType DEF ServeCommands
  <2>4. commands' \in Seq(Ops) /\ Len(commands') <= SubCapacity /\ unsent' \in BOOLEAN
    BY <1>4, <2>1 DEF ServeCommands
  <2>5. QED
    BY <1>4, <2>3, <2>4 DEF ServeCommands, Stream, EndSession
<1>5. ASSUME NEW cmd \in Ops, Command(cmd)
      PROVE  TypeOK' /\ AttemptsLeft' /\ OneInHand'
  <2>1. wanted' \subseteq Symbols
    BY <1>5 DEF Command, Apply, Ops
  <2>2. sender' \in Seq(Ops) /\ Len(sender') = 1
    BY <1>5 DEF Command
  <2>3. QED
    BY <1>5, <2>1, <2>2 DEF Command
<1>6. ASSUME Send
      PROVE  TypeOK' /\ AttemptsLeft' /\ OneInHand'
  <2>1. commands \o sender \in Seq(Ops) /\ Len(commands \o sender) = Len(commands) + Len(sender)
    BY ConcatProperties
  <2>2. QED
    BY <1>6, <2>1 DEF Send
<1>7. ASSUME Kill \/ Stop \/ Take \/ UNCHANGED vars
      PROVE  TypeOK' /\ AttemptsLeft' /\ OneInHand'
  <2>1. CASE Take
    <3>1. Tail(ticks) \in Seq(Tick) /\ Len(Tail(ticks)) <= Len(ticks)
      BY <2>1, HeadTailProperties DEF Take
    <3>2. QED
      BY <2>1, <3>1 DEF Take
  <2>2. QED
    BY <1>7, <2>1 DEF Kill, Stop, vars
<1>8. QED
  BY <1>1, <1>2, <1>3, <1>4, <1>5, <1>6, <1>7 DEF Next

(* A sequence of one element at most that is not empty is that element.    *)
LEMMA OneElement ==
  ASSUME NEW S, NEW s \in Seq(S), Len(s) <= 1, s # <<>>
  PROVE  \E c \in S : s = <<c>>
<1>1. Len(s) \in Nat /\ Len(s) # 0
  BY EmptySeq
<1>2. Len(s) = 1
  BY <1>1, SMTT(20)
<1>3. s[1] \in S
  BY <1>2, ElementOfSeq
<1>4. s = <<s[1]>>
  BY <1>2
<1>5. QED
  BY <1>3, <1>4

(* What is still in the channel and in the actor's hands leads from the    *)
(* active symbols to the wanted ones: a command joins at the end, and the  *)
(* feed applies from the front.                                            *)
LEMMA CommandStep ==
  ASSUME FeedInv, [Next]_vars
  PROVE  CommandsReachFeed'
<1> USE DEF CommandsReachFeed
<1>1. /\ commands \in Seq(Ops) /\ sender \in Seq(Ops) /\ Len(sender) <= 1
      /\ feed # "ended" => ApplyAll(active, commands \o sender) = wanted
  BY DEF FeedInv, TypeOK, OneInHand
<1>2. ASSUME feed' # "ended" => feed # "ended", UNCHANGED <<active, commands, sender, wanted>>
      PROVE  CommandsReachFeed'
  BY <1>1, <1>2
<1>3. ASSUME GiveUp \/ Dial \/ ConnectFails \/ Connect \/ AuthFails \/ Disconnected \/ Reconnect
      PROVE  CommandsReachFeed'
  BY <1>2, <1>3 DEF GiveUp, Dial, ConnectFails, Connect, AuthFails, Disconnected, Reconnect,
                    EndSession, engine
<1>4. ASSUME Authenticated \/ Receive \/ Kill \/ Stop \/ Take \/ UNCHANGED vars
      PROVE  CommandsReachFeed'
  BY <1>2, <1>4 DEF Authenticated, Receive, Kill, Stop, Take, vars, session, engine
<1>5. ASSUME ServeCommands
      PROVE  CommandsReachFeed'
  <2>1. /\ feed = "live" /\ active' = ApplyAll(active, commands) /\ commands' = <<>>
        /\ UNCHANGED <<sender, wanted>>
    BY <1>5 DEF ServeCommands
  <2>2. CASE sender = <<>>
    <3>1. commands \o sender = commands /\ commands' \o sender' = <<>>
      BY <1>1, <2>1, <2>2
    <3>2. QED
      BY <1>1, <2>1, <3>1, ApplyAllEmpty
  <2>3. CASE sender # <<>>
    <3>1. PICK c \in Ops : sender = <<c>>
      BY <1>1, <2>3, OneElement
    <3>2. ApplyAll(active, commands \o sender) = Apply(ApplyAll(active, commands), c)
      BY <1>1, <3>1, ApplyAllLast
    <3>3. ApplyAll(active', <<>> \o <<c>>) = Apply(ApplyAll(active', <<>>), c)
      <4>1. <<>> \in Seq(Ops)
        OBVIOUS
      <4>2. QED
        BY <4>1, ApplyAllLast
    <3>4. ApplyAll(active', <<>>) = active'
      BY ApplyAllEmpty
    <3>5. QED
      BY <1>1, <2>1, <3>1, <3>2, <3>3, <3>4
  <2>4. QED
    BY <2>2, <2>3
<1>6. ASSUME NEW cmd \in Ops, Command(cmd)
      PROVE  CommandsReachFeed'
  <2>1. /\ sender = <<>> /\ sender' = <<cmd>> /\ wanted' = Apply(wanted, cmd)
        /\ UNCHANGED <<feed, active, commands>>
    BY <1>6 DEF Command, session
  <2>2. ApplyAll(active, commands \o <<cmd>>) = Apply(ApplyAll(active, commands), cmd)
    BY <1>1, ApplyAllLast
  <2>3. commands \o sender = commands
    BY <1>1, <2>1
  <2>4. QED
    BY <1>1, <2>1, <2>2, <2>3
<1>7. ASSUME Send
      PROVE  CommandsReachFeed'
  <2>1. sender' = <<>> /\ UNCHANGED <<feed, active, wanted>>
        /\ commands' = IF feed = "ended" THEN commands ELSE commands \o sender
    BY <1>7 DEF Send, session
  <2>2. (commands \o sender) \o <<>> = commands \o sender
    BY <1>1
  <2>3. QED
    BY <1>1, <2>1, <2>2
<1>8. QED
  BY <1>3, <1>4, <1>5, <1>6, <1>7 DEF Next

(* The peer is asked for the active symbols at the start of a session and  *)
(* then hears every change of them that the feed makes, or the session has *)
(* one it could not be sent.                                               *)
LEMMA PeerStep ==
  ASSUME FeedInv, [Next]_vars
  PROVE  PeerKnowsActive'
<1> USE DEF FeedInv, PeerKnowsActive
<1>1. ASSUME GiveUp \/ Dial \/ ConnectFails \/ Connect \/ AuthFails \/ Disconnected \/ Reconnect
      PROVE  PeerKnowsActive'
  BY <1>1 DEF GiveUp, Dial, ConnectFails, Connect, AuthFails, Disconnected, Reconnect, EndSession
<1>2. ASSUME Authenticated \/ Receive
      PROVE  PeerKnowsActive'
  BY <1>2 DEF Authenticated, Receive
<1>3. ASSUME ServeCommands
      PROVE  PeerKnowsActive'
  <2>1. PICK k \in 0..Len(commands) :
          /\ asked' = ApplyAll(asked, SubSeq(commands, 1, k))
          /\ unsent' = (unsent \/ k < Len(commands))
    BY <1>3 DEF ServeCommands
  <2>2. CASE k = Len(commands)
    <3>1. commands \in Seq(Ops)
      BY DEF TypeOK
    <3>2. SubSeq(commands, 1, Len(commands)) = commands
      BY <3>1
    <3>3. QED
      BY <1>3, <2>1, <2>2, <3>2 DEF ServeCommands
  <2>3. CASE k # Len(commands)
    <3>1. commands \in Seq(Ops)
      BY DEF TypeOK
    <3>2. k < Len(commands)
      BY <2>3, <3>1
    <3>3. QED
      BY <2>1, <3>2
  <2>4. QED
    BY <2>2, <2>3
<1>4. ASSUME \/ \E cmd \in Ops : Command(cmd)
             \/ Send \/ Kill \/ Stop \/ Take \/ UNCHANGED vars
      PROVE  PeerKnowsActive'
  BY <1>4 DEF Command, Send, Kill, Stop, Take, vars, session
<1>5. QED
  BY <1>1, <1>2, <1>3, <1>4 DEF Next

(* Ticks enter the buffer in the order they come and leave it at its old   *)
(* end or all at once; each is delivered as it comes, if there is room, and *)
(* once more, if it is still in the buffer, by the replay that empties it. *)
LEMMA ReplayStep ==
  ASSUME FeedInv, [Next]_vars
  PROVE  ReplayIsAccounted' /\ TimesInv'
<1> USE DEF ReplayIsAccounted, BufferIsAccounted, DeliveredTwiceAtMost, TimesInv
<1>1. /\ ReplayIsAccounted /\ TimesInv
      /\ ticks \in Seq(Tick) /\ Len(ticks) <= TickCapacity /\ times \in [Tick -> Nat]
      /\ buffer \in Seq(Tick) /\ next \in 1..MaxTicks + 1
  BY DEF FeedInv, TypeOK
<1>2. ASSUME UNCHANGED <<buffer, bytes, times, next>>
      PROVE  ReplayIsAccounted' /\ TimesInv'
  BY <1>1, <1>2
<1>3. ASSUME GiveUp \/ Dial \/ ConnectFails \/ Connect \/ AuthFails \/ Disconnected \/ Reconnect
               \/ ServeCommands
      PROVE  ReplayIsAccounted' /\ TimesInv'
  BY <1>2, <1>3 DEF GiveUp, Dial, ConnectFails, Connect, AuthFails, Disconnected, Reconnect,
                    ServeCommands, delivery
<1>4. ASSUME \/ \E cmd \in Ops : Command(cmd)
             \/ Send \/ Kill \/ Stop \/ Take \/ UNCHANGED vars
      PROVE  ReplayIsAccounted' /\ TimesInv'
  BY <1>2, <1>4 DEF Command, Send, Kill, Stop, Take, vars, delivery
<1>5. ASSUME Authenticated
      PROVE  ReplayIsAccounted' /\ TimesInv'
  <2>1. TrySend(buffer) /\ buffer' = <<>> /\ bytes' = 0 /\ next' = next
    BY <1>5 DEF Authenticated, ReplayTicks
  <2>2. /\ times' \in [Tick -> Nat]
        /\ \A t \in Tick : times'[t] <= times[t] + 1
        /\ \A t \in Tick : (\A i \in 1..Len(buffer) : buffer[i] # t) => times'[t] = times[t]
    BY <1>1, <2>1, TrySendDelivers
  <2>3. BufferIsAccounted'
    BY <2>1, Constants
  <2>4. ASSUME NEW t \in Tick
        PROVE  times'[t] <= 2 /\ (t >= next => times'[t] = 0)
    <3>1. CASE \E i \in 1..Len(buffer) : buffer[i] = t
      <4>1. t >= next - Len(buffer) /\ t < next
        BY <1>1, <3>1 DEF Tick
      <4>2. QED
        BY <1>1, <2>2, <4>1, SMTT(20) DEF Tick
    <3>2. CASE \A i \in 1..Len(buffer) : buffer[i] # t
      BY <1>1, <2>2, <3>2
    <3>3. QED
      BY <3>1, <3>2
  <2>5. QED
    BY <1>1, <2>1, <2>3, <2>4 DEF Tick
<1>6. ASSUME Receive
      PROVE  ReplayIsAccounted' /\ TimesInv'
  <2> DEFINE room == Room(buffer, bytes)
  <2>1. /\ next \in Tick /\ TrySend(<<next>>) /\ next' = next + 1
        /\ buffer' = Append(room.ticks, next) /\ bytes' = room.bytes + 1
    BY <1>6 DEF Receive, BufferTick
  <2>2. /\ times' \in [Tick -> Nat]
        /\ \A t \in Tick : times'[t] <= times[t] + 1
        /\ \A t \in Tick : t # next => times'[t] = times[t]
    <3> DEFINE one == <<next>>
    <3>1. one \in Seq(Tick) /\ Len(one) = 1 /\ one[1] = next /\ TrySend(one)
      BY <2>1
    <3> HIDE DEF one
    <3>2. \A t \in Tick : t # next => \A i \in 1..Len(one) : one[i] # t
      BY <3>1
    <3>3. QED
      BY <1>1, <3>1, <3>2, TrySendDelivers
  <2>3. /\ room.ticks \in Seq(Tick) /\ room.bytes = Len(room.ticks)
        /\ Len(room.ticks) <= Len(buffer)
        /\ Len(room.ticks) < MaxReplay /\ Len(room.ticks) < MaxBytes
        /\ \A i \in 1..Len(room.ticks) :
             room.ticks[i] = buffer[i + Len(buffer) - Len(room.ticks)]
    BY <1>1, RoomLeft
  <2> HIDE DEF room
  <2> DEFINE m == Len(room.ticks)
  <2>4. m \in Nat /\ Len(buffer) \in Nat /\ Len(buffer') = m + 1
    BY <1>1, <2>1, <2>3
  <2>5. /\ bytes' = Len(buffer') /\ Len(buffer') <= MaxReplay /\ bytes' <= MaxBytes
    BY <2>1, <2>3, <2>4, Constants
  <2>6. ASSUME NEW i \in 1..Len(buffer')
        PROVE  buffer'[i] = next' - 1 - Len(buffer') + i
    <3>1. CASE i = m + 1
      BY <1>1, <2>1, <2>3, <2>4, <3>1
    <3>2. CASE i \in 1..m
      <4>1. i + Len(buffer) - m \in 1..Len(buffer)
        BY <2>3, <2>4, <3>2
      <4>2. buffer[i + Len(buffer) - m] = next - 1 - Len(buffer) + (i + Len(buffer) - m)
        BY <1>1, <4>1
      <4>3. buffer'[i] = room.ticks[i]
        BY <2>1, <2>3, <2>4, <3>2
      <4>4. buffer'[i] = next - 1 - Len(buffer) + (i + Len(buffer) - m)
        BY <2>3, <3>2, <4>2, <4>3
      <4>5. QED
        BY <1>1, <2>1, <2>4, <3>2, <4>4
    <3>3. QED
      BY <2>4, <3>1, <3>2
  <2>7. ASSUME NEW t \in Tick
        PROVE  /\ times'[t] <= 2
               /\ t >= next' => times'[t] = 0
               /\ t >= next' - Len(buffer') => times'[t] <= 1
    <3>1. t \in Int /\ next \in Int /\ times[t] \in Nat /\ times'[t] \in Nat
      BY <1>1, <2>2 DEF Tick
    <3>2. next' - Len(buffer') = next - m /\ next - m >= next - Len(buffer)
      BY <2>1, <2>3, <2>4, <3>1
    <3>3. CASE t = next
      BY <1>1, <2>1, <2>2, <3>1, <3>3
    <3>4. CASE t # next
      <4>1. Len(buffer') \in Nat /\ next' = next + 1 /\ m \in Nat
        BY <2>1, <2>4
      <4>2. times'[t] = times[t]
        BY <2>2, <3>4
      <4>3. times[t] <= 2 /\ (t >= next => times[t] = 0)
        BY <1>1
      <4>4. t >= next - Len(buffer) => times[t] <= 1
        BY <1>1
      <4>5. times'[t] <= 2
        BY <4>2, <4>3
      <4>6. t >= next' => times'[t] = 0
        BY <3>1, <4>1, <4>2, <4>3
      <4>7. t >= next' - Len(buffer') => times'[t] <= 1
        <5>1. ASSUME t >= next' - Len(buffer')
              PROVE  t >= next - Len(buffer)
          <6>1. Len(buffer) \in Nat /\ next \in Int /\ t \in Int /\ m \in Nat
            BY <2>4, <3>1
          <6>2. t >= next - m
            BY <3>2, <5>1
          <6>3. QED
            BY <3>2, <6>1, <6>2
        <5>2. QED
          BY <4>2, <4>4, <5>1
      <4>8. QED
        BY <4>5, <4>6, <4>7
    <3>5. QED
      BY <3>3, <3>4
  <2>8. QED
    BY <2>5, <2>6, <2>7
<1>7. QED
  BY <1>3, <1>4, <1>5, <1>6 DEF Next

-----------------------------------------------------------------------------
(* The inductive invariant.                                                *)
THEOREM FeedInvHolds == Spec => []FeedInv
<1>1. FeedInv /\ [Next]_vars => FeedInv'
  BY TypeStep, CommandStep, PeerStep, ReplayStep DEF FeedInv
<1>2. QED
  BY <1>1, InitHolds, PTL DEF Spec

(* Through any number of reconnections no command is lost or overtaken:    *)
(* the active symbols, with the commands on their way, are the engine's.   *)
THEOREM CommandsArrive == Spec => []CommandsReachFeed
<1>1. FeedInv => CommandsReachFeed
  BY DEF FeedInv
<1>2. QED
  BY <1>1, FeedInvHolds, PTL

(* A streaming session's peer sends exactly the active symbols, unless the *)
(* session could not send it a command.                                    *)
THEOREM PeerIsTold == Spec => []PeerKnowsActive
<1>1. FeedInv => PeerKnowsActive
  BY DEF FeedInv
<1>2. QED
  BY <1>1, FeedInvHolds, PTL

(* The replay buffer holds the newest ticks in order within both limits,   *)
(* and no tick is delivered a third time, however often the feed           *)
(* reconnects and whatever did not fit in the channel.                     *)
THEOREM ReplayHolds == Spec => []ReplayIsAccounted
<1>1. FeedInv => ReplayIsAccounted
  BY DEF FeedInv
<1>2. QED
  BY <1>1, FeedInvHolds, PTL
================================================================================
