------------------------------ MODULE Recovery ------------------------------
(***************************************************************************)
(* One asset's orders across crashes and restarts: what execute_decision   *)
(* writes before and after a submission, what of it is on disk when the    *)
(* process dies, and what Engine::reconcile_and_rehydrate makes of it      *)
(* before trading starts again.                                            *)
(*                                                                         *)
(* Journal entries reach the disk late (channel and buffer), may never     *)
(* reach it, and may be read as part of another's line (module Journal).   *)
(* mark_processed appends a line to the asset's file of keys and only      *)
(* warns when it cannot: the line is four writes, of which the first few   *)
(* may be all that is made, because of the disk or of a death.  An intent  *)
(* is a <<process, nonce, trace>>; its id is derived from nonce and trace, *)
(* counters that start again with every process, so ids may repeat.  The   *)
(* journal names the asset by its numeric id, the replay looks it up by    *)
(* its symbol: named says whether the two are equal.                       *)
(***************************************************************************)
EXTENDS Integers, Sequences, FiniteSets

CONSTANTS
  MaxIntents,   \* bound: intents of one process
  MaxTrace,     \* bound: ticks of one process that lead to intents
  MaxTries,     \* max_retries, or 1 when that is 0
  MaxCrashes,   \* bound: crashes in a behaviour
  MaxJournal    \* bound: journal entries in a behaviour

ASSUME RecoveryAssumption ==
  /\ MaxIntents \in Nat /\ MaxTrace \in Nat \ {0}
  /\ MaxTries \in Nat \ {0} /\ MaxCrashes \in Nat /\ MaxJournal \in Nat

VARIABLES
  named,     \* the asset's symbol is spelled like its numeric id: configuration
  pc,        \* the executing thread: where it stands with its intent
  cur,       \* its intent; what the next one's nonce and trace follow
  unsaved,   \* journal entries accepted but not yet on disk
  disk,      \* journal entries on disk, in order
  stored,    \* idempotency keys in memory
  file,      \* idempotency keys that a reader finds in their file
  tail,      \* how that file ends: the key, and how much, of its last line
  replay,    \* entries of disk the recovery has yet to handle
  orders,    \* history: orders at the broker, as <<intent, how many>>
  acked,     \* history: intents with an acknowledged order
  refused,   \* history: intents taken for duplicates
  lost,      \* history: ids whose line was cut short or stands on such a line
  glued      \* history: intents on whose journal line another's text stands

keys == <<stored, file, tail, lost>>
records == <<unsaved, disk, glued>>
vars == <<named, pc, cur, records, keys, replay, orders, acked, refused>>

Processes == 1..(MaxCrashes + 1)
AllIntents == Processes \X (1..MaxIntents) \X (1..MaxTrace)

\* derive_intent_id, but for collisions of its hash.
Id(i) == <<i[2], i[3]>>

\* The broker holds n more orders for i.
Order(i, n) == orders' = [orders EXCEPT ![i] = @ + n]

\* JournalHandle::try_write may find its channel full, and the journal's disk may
\* refuse the entry later.
TryWrite(i, status) ==
  \/ UNCHANGED unsaved
  \/ /\ Len(unsaved) + Len(disk) < MaxJournal
     /\ unsaved' = Append(unsaved, [intent |-> i, status |-> status])

-----------------------------------------------------------------------------
(* Trading: execute_decision.                                              *)

\* Mutant: the nonce counter is only read.
DecideSameNonce == /\ pc = "idle" /\ cur[2] < MaxIntents
                   /\ \E t \in cur[3]..MaxTrace : cur' = <<cur[1], 1, t>>
                   /\ pc' = "dedup"
                   /\ UNCHANGED <<records, keys, replay, orders, acked, refused>>

\* Each intent has a new nonce; one tick (trace) may lead to several.
Decide == /\ pc = "idle" /\ cur[2] < MaxIntents
          /\ \E t \in cur[3]..MaxTrace : cur' = <<cur[1], cur[2] + 1, t>>
          /\ pc' = "dedup"
          /\ UNCHANGED <<records, keys, replay, orders, acked, refused>>

\* IdempotencyStore, below its capacity: nothing is evicted.
IsProcessed(id) == id \in stored

Dedup == /\ pc = "dedup"
         /\ \/ IsProcessed(Id(cur)) /\ pc' = "idle" /\ refused' = refused \cup {cur}
            \/ ~IsProcessed(Id(cur)) /\ pc' = "pending" /\ UNCHANGED refused
         /\ UNCHANGED <<cur, records, keys, replay, orders, acked>>

WritePending == /\ pc = "pending" /\ pc' = "submit"
                /\ TryWrite(cur, "Pending")
                /\ UNCHANGED <<cur, disk, glued, keys, replay, orders, acked, refused>>

\* submit_with_retry: earlier tries may have left orders that went unheard.
SubmitOk == /\ pc = "submit" /\ pc' = "mark"
            /\ \E n \in 1..MaxTries : Order(cur, n)
            /\ acked' = acked \cup {cur}
            /\ UNCHANGED <<cur, records, keys, replay, refused>>

\* Out of tries; each may have left an order at the broker all the same.
SubmitFailed == /\ pc = "submit" /\ pc' = "idle"
                /\ \E n \in 0..MaxTries : Order(cur, n)
                /\ UNCHANGED <<cur, records, keys, replay, acked, refused>>

(* A line is written as key, space, result and newline: its parts 1 to 4.  *)
(* A reader finds the key of a line that has at least a part of a result;  *)
(* on a line that was cut after its key the next key makes one with it     *)
(* that is nobody's, and on one cut later it is taken for a result.        *)
Garbled == <<0, 0>>

\* Appending the first n parts of id's line.  A file that cannot be opened gets none.
AppendParts(id, n) ==
  LET key  == IF tail.parts = 0 THEN id ELSE IF tail.parts = 1 THEN Garbled ELSE tail.key
      have == IF tail.parts <= 1 \/ n = 4 THEN n ELSE 3
  IN  /\ tail' = IF n = 0 THEN tail
                 ELSE IF n = 4 THEN [key |-> Garbled, parts |-> 0]
                 ELSE [key |-> key, parts |-> have]
      /\ file' = IF n > 0 /\ have >= 3 THEN file \cup ({key} \ {Garbled}) ELSE file
      /\ lost' = IF tail.parts = 0 /\ n >= 3 THEN lost ELSE lost \cup {id}

AppendToDisk(id) == \E n \in 0..4 : AppendParts(id, n)

\* IdempotencyStore::mark_processed: memory first, then the file.
Mark(id) == stored' = stored \cup {id} /\ AppendToDisk(id)

MarkProcessed == /\ pc = "mark" /\ pc' = "submitted"
                 /\ Mark(Id(cur))
                 /\ UNCHANGED <<cur, records, replay, orders, acked, refused>>

WriteSubmitted == /\ pc = "submitted" /\ pc' = "idle"
                  /\ TryWrite(cur, "Submitted")
                  /\ UNCHANGED <<cur, disk, glued, keys, replay, orders, acked, refused>>

\* The journal thread writes what it has: the disk holds a prefix.
Save == /\ unsaved # <<>>
        /\ \E n \in 1..Len(unsaved) :
             /\ disk' = disk \o SubSeq(unsaved, 1, n)
             /\ unsaved' = SubSeq(unsaved, n + 1, Len(unsaved))
        /\ UNCHANGED <<pc, cur, glued, keys, replay, orders, acked, refused>>

\* Where the file of a process may end.
LastOnes == {k \in DOMAIN disk :
  \A l \in DOMAIN disk : l > k => disk[l].intent[1] # disk[k].intent[1]}

\* The newline of a file's last entry failed, or its process died before it: the
\* next entry stands on its line, which is read as its intent with the next
\* one's status, the last on the line.
SaveGlued == /\ unsaved # <<>> /\ unsaved' = Tail(unsaved)
             /\ \E k \in LastOnes :
                  /\ disk' = [disk EXCEPT ![k].status = Head(unsaved).status]
                  /\ glued' = glued \cup {disk[k].intent}
             /\ UNCHANGED <<pc, cur, keys, replay, orders, acked, refused>>

-----------------------------------------------------------------------------
(* Crash, restart and recovery.                                            *)

Known == pc = "recover" /\ replay # <<>>
Entry == Head(replay)

\* Mutant: entries are matched whatever their symbol is called.
MatchesAny == TRUE

Matches == named

\* Intents whose submission a crash may interrupt.
InFlight == IF pc = "submit" THEN {cur}
            ELSE IF Known /\ Matches /\ Entry.status = "Pending" THEN {Entry.intent} ELSE {}

\* A file that cannot be read is taken for an empty one.
LoadFromDisk == stored' \in {file, {}}

\* The files of the processes are read one after the other, in the order of their
\* names, which is that of the processes unless a clock was set back.
Reread == {[n \in DOMAIN disk |-> disk[at[n]]] : at \in
  {p \in [DOMAIN disk -> DOMAIN disk] : \A m, n \in DOMAIN disk :
     /\ p[m] = p[n] => m = n
     /\ m < n /\ disk[p[m]].intent[1] = disk[p[n]].intent[1] => p[m] < p[n]}}

\* The next process loads the keys' file and reads the journal's files.
Crash == /\ cur[1] <= MaxCrashes
         /\ cur' = <<cur[1] + 1, 0, 1>> /\ pc' = "recover"
         /\ unsaved' = <<>> /\ LoadFromDisk /\ replay' \in Reread
         /\ UNCHANGED orders \/ \E i \in InFlight, n \in 1..MaxTries : Order(i, n)
         /\ UNCHANGED <<disk, glued, file, tail, lost, acked, refused>>

RetryOk == /\ Known /\ Matches /\ Entry.status = "Pending"
           /\ replay' = Tail(replay)
           /\ Order(Entry.intent, 1) /\ acked' = acked \cup {Entry.intent}
           /\ Mark(Id(Entry.intent))
           /\ UNCHANGED <<pc, cur, records, refused>>

RetryFailed == /\ Known /\ Matches /\ Entry.status = "Pending"
               /\ replay' = Tail(replay)
               /\ \E n \in {0, 1} : Order(Entry.intent, n)
                   /\ UNCHANGED <<pc, cur, records, keys, acked, refused>>

RecoverSubmitted == /\ Known /\ Matches /\ Entry.status = "Submitted"
                    /\ replay' = Tail(replay)
                    /\ Mark(Id(Entry.intent))
                    /\ UNCHANGED <<pc, cur, records, orders, acked, refused>>

\* No state is registered under the entry's symbol.
SkipEntry == /\ Known /\ ~Matches
             /\ replay' = Tail(replay)
             /\ UNCHANGED <<pc, cur, records, keys, orders, acked, refused>>

\* After the last entry, or after a file that cannot be read.
StartTrading == /\ pc = "recover" /\ replay' = <<>> /\ pc' = "idle"
                /\ UNCHANGED <<cur, records, keys, orders, acked, refused>>

Init == /\ named \in BOOLEAN
        /\ pc = "idle" /\ cur = <<1, 0, 1>>
        /\ unsaved = <<>> /\ disk = <<>> /\ replay = <<>>
        /\ stored = {} /\ file = {} /\ tail = [key |-> Garbled, parts |-> 0]
        /\ lost = {} /\ glued = {}
        /\ orders = [i \in AllIntents |-> 0] /\ acked = {}
        /\ refused = {}

Trade == \/ Decide \/ Dedup \/ WritePending \/ SubmitOk \/ SubmitFailed
         \/ MarkProcessed \/ WriteSubmitted

Recover == RetryOk \/ RetryFailed \/ RecoverSubmitted \/ SkipEntry \/ StartTrading

Next == (Trade \/ Recover \/ Save \/ SaveGlued \/ Crash) /\ UNCHANGED named

Spec == Init /\ [][Next]_vars

-----------------------------------------------------------------------------
Statuses == {"Pending", "Submitted"}
Ids == (1..MaxIntents) \X (1..MaxTrace)
JournalEntries == [intent : AllIntents, status : Statuses]

TypeOK ==
  /\ named \in BOOLEAN
  /\ pc \in {"idle", "dedup", "pending", "submit", "mark", "submitted", "recover"}
  /\ cur \in Processes \X (0..MaxIntents) \X (1..MaxTrace)
  /\ pc \notin {"idle", "recover"} => cur \in AllIntents
  /\ unsaved \in Seq(JournalEntries) /\ disk \in Seq(JournalEntries)
  /\ replay \in Seq(JournalEntries)
  /\ stored \subseteq Ids /\ file \subseteq Ids /\ lost \subseteq Ids
  /\ tail \in [key : Ids \cup {Garbled}, parts : 0..3]
  /\ orders \in [AllIntents -> Nat] /\ acked \subseteq AllIntents
  /\ refused \subseteq AllIntents /\ glued \subseteq AllIntents

(* No crash or lost record leads to an order too many: once an order has   *)
(* been acknowledged no process submits its intent again, except by the    *)
(* replay, and that only for an asset whose entries it can find.           *)
PlacedIsFinal ==
  [][\A i \in acked : orders'[i] = orders[i] \/ (named /\ pc = "recover")]_vars

(* What a process knew to be placed is known to the next one: an intent    *)
(* with a Submitted record, on disk or not, has an acknowledged order, and *)
(* its key is found in the file, unless its line was cut short or stands   *)
(* on one that was.  Only a record that took another's text says Submitted *)
(* of an order that was never placed.                                      *)
SubmittedIsStored ==
  \A e \in {disk[n] : n \in DOMAIN disk} \cup {unsaved[n] : n \in DOMAIN unsaved} :
    e.status = "Submitted" /\ e.intent \notin glued =>
      e.intent \in acked /\ Id(e.intent) \in file \cup lost

(* No process reads a key as placed that no order was placed under and no  *)
(* such record spoke of.                                                   *)
StoredIsPlaced == \A id \in stored : \E i \in acked \cup glued : Id(i) = id

(* "Multiple intents from the same trace get different IDs": an intent is  *)
(* refused as a duplicate only of one that an earlier process placed, or   *)
(* recorded on such a line, whose counters had the same values.            *)
RefusedAcrossProcesses ==
  \A i \in refused : \E j \in acked \cup glued : Id(j) = Id(i) /\ j[1] < i[1]

\* The three together: what the records of a process say of orders is so, for
\* that process and for those that read them after a crash.
RecordsHold == SubmittedIsStored /\ StoredIsPlaced /\ RefusedAcrossProcesses
=============================================================================
