------------------------------- MODULE Journal -------------------------------
(***************************************************************************)
(* The journal writer (core/src/journal.rs): producers send entries into a *)
(* bounded channel without waiting, dropping what does not fit; one thread *)
(* takes commands from it, appends entries to a buffered file and flushes  *)
(* when asked, when the interval is over, or before a compaction.          *)
(*                                                                         *)
(* The disk may refuse any write.  A flush that fails leaves in the buffer *)
(* what the file did not take, and is acknowledged all the same; writeln!  *)
(* hands the buffer an entry's text and then its newline, and either fails *)
(* when the buffer is full and cannot be emptied: the entry is skipped, or *)
(* the next one stands on its line.  A death during a flush is a flush     *)
(* that fails, and a Restart.                                              *)
(*                                                                         *)
(* A flush requester waits for its acknowledgement for five seconds at     *)
(* most.  Compaction may remove the file the writer has open, which then   *)
(* keeps writing to a file without a name.  A crash loses the channel and  *)
(* the buffer; the next process opens the file named after the wall clock, *)
(* which may have been set back: an older name than those there, or the    *)
(* name of a file that it then appends to.                                 *)
(***************************************************************************)
EXTENDS Integers, Sequences, FiniteSets

CONSTANTS
  Flushers,      \* callers of flush_sync and the control command FlushJournal
  Capacity,      \* capacity of the channel
  Clock,         \* seconds the wall clock may show when a process starts
  FirstSecond,   \* what it shows at first
  MaxEntries,    \* bound: entries accepted in a behaviour
  MaxRestarts    \* bound: crashes in a behaviour

ASSUME JournalAssumption ==
  /\ Capacity \in Nat \ {0} /\ Clock \subseteq Nat /\ FirstSecond \in Clock
  /\ MaxEntries \in Nat /\ MaxRestarts \in Nat

VARIABLES
  chan,       \* the channel: entries, flush requests, compaction requests
  buf,        \* BufWriter: pieces of lines not yet given to the file
  files,      \* files[s], if it is there: the pieces in the file named after s
  name,       \* the second that names the running process's file
  due,        \* last_flush is at least flush_interval_ms ago
  flush,      \* flush[f]: where flusher f stands
  accepted,   \* entries accepted so far, numbered from 1
  base,       \* history: accepted when this process started
  mark,       \* history: mark[f] is accepted when f's request was queued
  failed,     \* history: the process's entries whose writeln! failed
  torn,       \* history: its file ended within a line when it was opened
  stuck,      \* history: its last flush failed
  steady,     \* history: no process's clock was behind an earlier process's
  crashes     \* crashes so far

journalVars == <<chan, buf, files, name, due, flush, accepted, base,
                 mark, failed, torn, stuck, steady, crashes>>

history == <<base, mark, failed, torn, steady>>

\* The running process's file is open whether or not it has a name still.
Linked == name \in DOMAIN files

Write(n)    == [cmd |-> "Write", n |-> n]
Flush(f)    == [cmd |-> "Flush", by |-> f]
Compaction  == [cmd |-> "Compaction"]

IsWrite(c) == c.cmd = "Write"

(* An entry's text, type|name|stamp|data, is two pieces: what a reader     *)
(* needs to know the entry, up to the bar after the time stamp, and the    *)
(* data.  (Nothing writes a SNAPSHOT, which has no name.)                  *)
Piece(part, n) == [part |-> part, n |-> n]
Format(n) == <<Piece("head", n), Piece("data", n)>>
Newline == Piece("newline", 0)

(* A line is an entry when its first fields are a whole head; whatever     *)
(* follows up to the newline is its data, another entry's text included.   *)
Understood(text, i) ==
  /\ text[i].part = "head"
  /\ i = 1 \/ text[i - 1] = Newline
  /\ i + 1 \in DOMAIN text /\ text[i + 1] = Piece("data", text[i].n)

\* Where a reader finds entries; it passes over the other lines.
Found(text) == {i \in DOMAIN text : Understood(text, i)}
Entries(text) == {text[i].n : i \in Found(text)}

-----------------------------------------------------------------------------
(* Producers.                                                              *)

\* Mutant: a full channel drops its oldest command instead.
TrySendDropsOldest ==
  /\ accepted < MaxEntries /\ accepted' = accepted + 1
  /\ chan' = Append(IF Len(chan) < Capacity THEN chan ELSE Tail(chan), Write(accepted + 1))
  /\ UNCHANGED <<buf, files, name, due, flush, stuck, crashes, history>>

\* JournalHandle::try_write by any thread; an entry that finds the channel full
\* is gone.
TrySend ==
  /\ accepted < MaxEntries /\ Len(chan) < Capacity
  /\ accepted' = accepted + 1
  /\ chan' = Append(chan, Write(accepted + 1))
  /\ UNCHANGED <<buf, files, name, due, flush, stuck, crashes, history>>

-----------------------------------------------------------------------------
(* Flush requests: a blocking send and five seconds of patience.           *)

RequestFlush(f) ==
  /\ flush[f] \notin {"sending", "waiting"}
  /\ flush' = [flush EXCEPT ![f] = "sending"]
  /\ UNCHANGED <<chan, buf, files, name, due, accepted, stuck, crashes,
                 history>>

SendFlush(f) ==
  /\ flush[f] = "sending" /\ Len(chan) < Capacity
  /\ chan' = Append(chan, Flush(f))
  /\ flush' = [flush EXCEPT ![f] = "waiting"]
  /\ mark' = [mark EXCEPT ![f] = accepted]
  /\ UNCHANGED <<buf, files, name, due, accepted, base, failed, torn,
                 stuck, steady, crashes>>

\* Five seconds have passed; the request stays in the channel.
FlushTimeout(f) ==
  /\ flush[f] = "waiting"
  /\ flush' = [flush EXCEPT ![f] = "timeout"]
  /\ UNCHANGED <<chan, buf, files, name, due, accepted, stuck, crashes,
                 history>>

\* trigger_compaction.
RequestCompaction ==
  /\ Len(chan) < Capacity
  /\ chan' = Append(chan, Compaction)
  /\ UNCHANGED <<buf, files, name, due, flush, accepted, stuck, crashes,
                 history>>

-----------------------------------------------------------------------------
(* The writer thread.                                                      *)

\* The files once the pieces p have been written to the open file.
Flushed(p) == IF Linked THEN [files EXCEPT ![name] = @ \o p] ELSE files

\* The first p pieces of all reach the file, the others are in the buffer.
Put(all, p) == /\ buf' = SubSeq(all, p + 1, Len(all))
               /\ files' = Flushed(SubSeq(all, 1, p))

\* A flush that meets an error leaves the rest in the buffer, for the next one.
FlushNow(all) == \E p \in 0..Len(all) : Put(all, p) /\ stuck' = (p < Len(all))

(* A full BufWriter first gives what it holds to the file: before it takes *)
(* the text, or between text and newline.  If it cannot, writeln! returns  *)
(* the error without what was to follow, and the loop goes on.             *)
HandleWrite ==
  /\ chan # <<>> /\ IsWrite(Head(chan))
  /\ chan' = Tail(chan)
  /\ LET n    == Head(chan).n
         text == buf \o Format(n)
         line == Append(text, Newline)
     IN \/ /\ failed' = failed
           /\ \/ due /\ FlushNow(line)
              \/ ~due /\ Put(line, 0) /\ UNCHANGED stuck
              \/ ~due /\ (\E p \in {Len(buf), Len(text)} : Put(line, p)) /\ stuck' = FALSE
        \/ /\ failed' = failed \cup {n}
           /\ \E all \in {buf, text} \ {<<>>} :
                \/ due /\ FlushNow(all)
                \/ ~due /\ (\E p \in 0..(Len(all) - 1) : Put(all, p)) /\ stuck' = TRUE
  /\ due' = FALSE
  /\ UNCHANGED <<name, flush, accepted, base, mark, torn, steady, crashes>>

\* The acknowledgement of a request that timed out, or of one whose flusher
\* has asked again since, goes to a receiver that is gone.
Acknowledge(f) ==
  flush' = IF flush[f] = "waiting" /\ \A i \in 2..Len(chan) : chan[i] # Flush(f)
             THEN [flush EXCEPT ![f] = "ok"] ELSE flush

\* Mutant: the acknowledgement comes before the flush.
HandleFlushAckOnly ==
  /\ chan # <<>> /\ Head(chan).cmd = "Flush"
  /\ chan' = Tail(chan)
  /\ Acknowledge(Head(chan).by)
  /\ UNCHANGED <<buf, files, name, due, accepted, stuck, crashes, history>>

\* It acknowledges a flush that failed as well.
HandleFlush ==
  /\ chan # <<>> /\ Head(chan).cmd = "Flush"
  /\ chan' = Tail(chan)
  /\ FlushNow(buf) /\ due' = FALSE
  /\ Acknowledge(Head(chan).by)
  /\ UNCHANGED <<name, accepted, crashes, history>>

(* run_compaction: files go whose modification time is too old for the     *)
(* clock of now, and all of them when they are together too large.  Both   *)
(* clocks may have been set and a removal may fail, so that any may stay.  *)
FlushAndCompact ==
  \E p \in 0..Len(buf) : \E kept \in SUBSET DOMAIN files :
    LET all == Flushed(SubSeq(buf, 1, p))
    IN  /\ buf' = SubSeq(buf, p + 1, Len(buf)) /\ stuck' = (p < Len(buf))
        /\ files' = [s \in kept |-> all[s]]

\* This flush does not reset last_flush.
HandleCompaction ==
  /\ chan # <<>> /\ Head(chan).cmd = "Compaction"
  /\ chan' = Tail(chan)
  /\ FlushAndCompact
  /\ UNCHANGED <<name, due, flush, accepted, crashes, history>>

\* recv_timeout ran out: flush if it is time, and flush and compact if an hour
\* has passed since it last did, which may be so at any time.
Idle ==
  /\ chan = <<>> /\ due' = FALSE
  /\ \/ due /\ FlushNow(buf)
     \/ FlushAndCompact
  /\ UNCHANGED <<chan, name, flush, accepted, crashes, history>>

-----------------------------------------------------------------------------
(* Time and crashes.                                                       *)

FlushInterval == /\ ~due /\ due' = TRUE
                 /\ UNCHANGED <<chan, buf, files, name, flush, accepted,
                                stuck, crashes, history>>

\* The file as it is found, or a new one.
Opened(s) == IF s \in DOMAIN files THEN files[s] ELSE <<>>

\* The process dies and a new one opens, to append, the file of its second.
Restart ==
  /\ crashes < MaxRestarts /\ crashes' = crashes + 1
  /\ chan' = <<>> /\ buf' = <<>>
  /\ \E s \in Clock :
       LET text == Opened(s)
       IN  /\ name' = s /\ steady' = (steady /\ name <= s)
           /\ files' = [i \in DOMAIN files \cup {s} |-> IF i = s THEN text ELSE files[i]]
           /\ torn' = (text # <<>> /\ text[Len(text)] # Newline)
  /\ due' = FALSE
  /\ flush' = [f \in Flushers |-> "idle"]
  /\ base' = accepted /\ failed' = {} /\ stuck' = FALSE
  /\ mark' = [f \in Flushers |-> accepted]
  /\ UNCHANGED accepted

JournalInit ==
  /\ chan = <<>> /\ buf = <<>>
  /\ name = FirstSecond /\ files = [s \in {name} |-> <<>>]
  /\ due = FALSE
  /\ flush = [f \in Flushers |-> "idle"]
  /\ accepted = 0 /\ base = 0 /\ failed = {}
  /\ torn = FALSE /\ stuck = FALSE /\ steady = TRUE
  /\ mark = [f \in Flushers |-> 0] /\ crashes = 0

Writer == HandleWrite \/ HandleFlush \/ HandleCompaction \/ Idle

Request == \E f \in Flushers : RequestFlush(f) \/ SendFlush(f) \/ FlushTimeout(f)

JournalNext == \/ Writer \/ TrySend \/ Request \/ RequestCompaction
               \/ FlushInterval \/ Restart

JournalSpec == JournalInit /\ [][JournalNext]_journalVars

-----------------------------------------------------------------------------
(* JournalWriter::replay reads the files in the order of their names, each *)
(* from its first line.                                                    *)

Ascending(text) ==
  \A i, j \in Found(text) : i < j => text[i].n < text[j].n

\* Every file in the order of acceptance, and one file after the other unless a
\* clock was set back between two processes.
ReplayInOrder ==
  /\ \A s \in DOMAIN files : Ascending(files[s])
  /\ steady => \A s, t \in DOMAIN files : s < t =>
                 \A m \in Entries(files[s]), n \in Entries(files[t]) : m < n

Writes == {i \in DOMAIN chan : IsWrite(chan[i])}

\* The channel holds those after first that were accepted.
Queued(first) == /\ {chan[i].n : i \in Writes} = (first + 1)..accepted
                 /\ \A i, j \in Writes : i < j => chan[i].n < chan[j].n

\* Entries a reader may miss: the write of this one failed or that of the one
\* before it, on whose line it may stand; or it follows a line that an earlier
\* process left without an end.
Excused(n) == n \in failed \/ n - 1 \in failed \/ (n = base + 1 /\ torn)

Holds(text, last) == \A n \in (base + 1)..last : n \in Entries(text) \/ Excused(n)

States == {"idle", "sending", "waiting", "ok", "timeout"}
Commands == {Write(n) : n \in 1..MaxEntries} \cup {Flush(f) : f \in Flushers}
              \cup {Compaction}
Pieces == [part : {"head", "data"}, n : 1..MaxEntries] \cup {Newline}

JournalTypeOK ==
  /\ chan \in Seq(Commands) /\ Len(chan) <= Capacity /\ buf \in Seq(Pieces)
  /\ DOMAIN files \subseteq Clock /\ \A s \in DOMAIN files : files[s] \in Seq(Pieces)
  /\ name \in Clock /\ due \in BOOLEAN
  /\ flush \in [Flushers -> States]
  /\ accepted \in 0..MaxEntries /\ base \in 0..accepted
  /\ mark \in [Flushers -> 0..accepted] /\ failed \subseteq (base + 1)..accepted
  /\ torn \in BOOLEAN /\ stuck \in BOOLEAN /\ steady \in BOOLEAN
  /\ crashes \in 0..MaxRestarts

(* While the writer's file has a name, every entry the channel accepted    *)
(* since the process started is in the channel, or is found in what the    *)
(* file and the buffer hold together, once and in the order of acceptance, *)
(* but for an entry whose own write failed or that stands on another's     *)
(* line: a flush, a compaction, a time-out or a flush that failed skips    *)
(* nothing, and a crash loses a suffix of what was accepted.  What was     *)
(* accepted sooner is replayed sooner, across processes too as long as no  *)
(* clock was set back between them.                                        *)
NothingSkipped ==
  /\ Linked => \E handled \in base..accepted :
                 LET text == files[name] \o buf
                 IN  /\ Queued(handled) /\ Holds(text, handled)
                     /\ Ascending(text) /\ \A n \in Entries(text) : n <= handled
  /\ ReplayInOrder

(* After a flush_sync or FlushJournal was acknowledged, what was accepted  *)
(* before it is found in the file, with the same exceptions, unless        *)
(* compaction removed the file or the last flush failed: the               *)
(* acknowledgement of a flush that failed is made good by the next one     *)
(* that does not.                                                          *)
FlushIsDurable ==
  \A f \in Flushers : flush[f] = "ok" /\ Linked /\ ~stuck => Holds(files[name], mark[f])
=============================================================================
