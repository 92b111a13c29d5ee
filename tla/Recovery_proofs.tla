-------------------------- MODULE Recovery_proofs ---------------------------
(***************************************************************************)
(* Proofs about the journal writer, for any number of processes, entries   *)
(* and flushers and any clock, and about one asset's orders across         *)
(* crashes, for any number of processes, intents, ticks, tries and journal *)
(* entries; on disks that may refuse any write.                            *)
(***************************************************************************)
EXTENDS Recovery, Journal, SequenceTheorems, TLAPS

-----------------------------------------------------------------------------
(* The channel.                                                            *)

WritesOf(c) == {i \in DOMAIN c : IsWrite(c[i])}

\* A channel that holds the entries after first, up to last.
QueueOK(c, first, last) ==
  /\ {c[i].n : i \in WritesOf(c)} = (first + 1)..last
  /\ \A i, j \in WritesOf(c) : i < j => c[i].n < c[j].n

\* All that is behind f's last request in it was accepted after m.
BehindRequest(c, f, m) ==
  \A i \in DOMAIN c :
    c[i] = Flush(f) /\ (\A k \in DOMAIN c : k > i => c[k] # Flush(f)) =>
      \A k \in WritesOf(c) : k > i => c[k].n > m

LEMMA QueueAppend ==
  ASSUME NEW top \in Nat, NEW c \in Seq(Commands), NEW first \in Nat,
         QueueOK(c, first, top), NEW e, first <= top,
         IsWrite(e) => e.n = top + 1
  PROVE  QueueOK(Append(c, e), first, IF IsWrite(e) THEN top + 1 ELSE top)
<1> DEFINE d == Append(c, e)
           m == Len(c) + 1
<1>1. /\ DOMAIN c = 1..Len(c) /\ Len(c) \in Nat /\ DOMAIN d = 1..m /\ d[m] = e
      /\ \A i \in 1..Len(c) : d[i] = c[i]
  OBVIOUS
<1> HIDE DEF d
<1>2. \A i \in WritesOf(c) : i \in 1..Len(c) /\ d[i] = c[i] /\ c[i].n \in (first + 1)..top
  BY <1>1 DEF WritesOf, QueueOK
<1>3. CASE IsWrite(e)
  <2>1. WritesOf(d) = WritesOf(c) \cup {m} /\ m \notin WritesOf(c)
    BY <1>1, <1>3 DEF WritesOf
  <2>2. {d[i].n : i \in WritesOf(d)} = {c[i].n : i \in WritesOf(c)} \cup {top + 1}
    BY <1>1, <1>2, <1>3, <2>1
  <2>3. {d[i].n : i \in WritesOf(d)} = (first + 1)..(top + 1)
    <3>1. ((first + 1)..top) \cup {top + 1} = (first + 1)..(top + 1)
      OBVIOUS
    <3>2. {c[i].n : i \in WritesOf(c)} = (first + 1)..top
      BY DEF QueueOK
    <3>3. QED
      BY <2>2, <3>1, <3>2
  <2>4. ASSUME NEW i \in WritesOf(d), NEW j \in WritesOf(d), i < j PROVE d[i].n < d[j].n
    <3>1. i \in WritesOf(c)
      BY <1>1, <1>2, <2>1, <2>4
    <3>2. CASE j = m
      <4>1. d[i] = c[i] /\ c[i].n \in (first + 1)..top
        BY <1>2, <3>1
      <4>2. d[j].n = top + 1
        BY <1>1, <1>3, <3>2
      <4>3. d[i].n < top + 1
        BY <4>1
      <4>4. QED
        BY <4>2, <4>3
    <3>3. CASE j # m
      BY <1>2, <2>1, <2>4, <3>1, <3>3 DEF QueueOK
    <3>4. QED
      BY <3>2, <3>3
  <2>5. QED
    BY <1>3, <2>3, <2>4 DEF QueueOK, d
<1>4. CASE ~IsWrite(e)
  <2>1. WritesOf(d) = WritesOf(c)
    BY <1>1, <1>4 DEF WritesOf
  <2>2. QED
    BY <1>2, <1>4, <2>1 DEF QueueOK, d
<1>5. QED
  BY <1>3, <1>4

LEMMA QueueTail ==
  ASSUME NEW top \in Nat, NEW c \in Seq(Commands), NEW first \in Nat,
         QueueOK(c, first, top), c # <<>>
  PROVE  IF IsWrite(Head(c))
         THEN Head(c).n = first + 1 /\ first + 1 <= top /\ QueueOK(Tail(c), first + 1, top)
         ELSE QueueOK(Tail(c), first, top)
<1> DEFINE d == Tail(c)
<1>1. /\ DOMAIN c = 1..Len(c) /\ Len(c) \in Nat /\ Len(c) >= 1 /\ Head(c) = c[1]
      /\ DOMAIN d = 1..(Len(c) - 1) /\ \A i \in 1..(Len(c) - 1) : d[i] = c[i + 1]
  OBVIOUS
<1> HIDE DEF d
<1>2. \A i \in WritesOf(c) : i \in 1..Len(c) /\ IsWrite(c[i]) /\ c[i].n \in (first + 1)..top
  BY <1>1 DEF WritesOf, QueueOK
<1>3. \A i \in WritesOf(d) : i \in Int /\ i + 1 \in WritesOf(c) /\ d[i] = c[i + 1]
  BY <1>1 DEF WritesOf
<1>4. \A i \in WritesOf(c) : i # 1 => i - 1 \in WritesOf(d) /\ d[i - 1] = c[i]
  <2>1. ASSUME NEW i \in WritesOf(c), i # 1 PROVE i - 1 \in WritesOf(d) /\ d[i - 1] = c[i]
    <3>1. i - 1 \in 1..(Len(c) - 1) /\ i - 1 + 1 = i /\ IsWrite(c[i])
      BY <1>1, <1>2, <2>1
    <3>2. QED
      BY <1>1, <3>1 DEF WritesOf
  <2>2. QED
    BY <2>1
<1>5. {d[i].n : i \in WritesOf(d)} = {c[i].n : i \in WritesOf(c) \ {1}}
  <2>1. \A i \in WritesOf(d) : i + 1 \in WritesOf(c) \ {1}
    BY <1>1, <1>3 DEF WritesOf
  <2>2. QED
    BY <1>3, <1>4, <2>1
<1>6. \A i, j \in WritesOf(d) : i < j => d[i].n < d[j].n
  <2>1. ASSUME NEW i \in WritesOf(d), NEW j \in WritesOf(d), i < j PROVE d[i].n < d[j].n
    <3>1. i + 1 < j + 1
      BY <1>3, <2>1
    <3>2. QED
      BY <1>3, <3>1 DEF QueueOK
  <2>2. QED
    BY <2>1
<1>7. CASE IsWrite(Head(c))
  <2>1. 1 \in WritesOf(c)
    BY <1>1, <1>7 DEF WritesOf
  <2>2. \A i \in WritesOf(c) : i # 1 => c[1].n < c[i].n
    BY <1>2, <2>1 DEF QueueOK
  <2>3. c[1].n \in (first + 1)..top
    BY <1>2, <2>1
  <2>4. PICK p \in WritesOf(c) : c[p].n = first + 1
    <3>1. first + 1 \in (first + 1)..top
      BY <2>3
    <3>2. first + 1 \in {c[i].n : i \in WritesOf(c)}
      BY <3>1 DEF QueueOK
    <3>3. QED
      BY <3>2
  <2>5. c[1].n = first + 1
    <3>1. p = 1 \/ c[1].n < c[p].n
      BY <2>2, <2>4
    <3>2. QED
      BY <2>3, <2>4, <3>1
  <2>6. {c[i].n : i \in WritesOf(c) \ {1}} = ((first + 1)..top) \ {first + 1}
    <3>1. ASSUME NEW k \in WritesOf(c) \ {1} PROVE c[k].n # first + 1
      <4>1. c[1].n < c[k].n /\ c[k].n \in (first + 1)..top
        BY <1>2, <2>2
      <4>2. QED
        BY <2>5, <4>1
    <3>2. {c[k].n : k \in WritesOf(c) \ {1}} = {c[k].n : k \in WritesOf(c)} \ {first + 1}
      BY <2>5, <3>1
    <3>3. QED
      BY <3>2 DEF QueueOK
  <2>7. ((first + 1)..top) \ {first + 1} = (first + 1 + 1)..top
    OBVIOUS
  <2>8. {d[i].n : i \in WritesOf(d)} = (first + 1 + 1)..top
    BY <1>5, <2>6, <2>7
  <2>9. QueueOK(d, first + 1, top)
    BY <1>6, <2>8 DEF QueueOK
  <2>10. Head(c).n = first + 1 /\ first + 1 <= top
    BY <1>1, <2>3, <2>5
  <2>11. QED
    BY <1>7, <2>9, <2>10 DEF d
<1>8. CASE ~IsWrite(Head(c))
  <2>1. WritesOf(c) \ {1} = WritesOf(c)
    BY <1>1, <1>8 DEF WritesOf
  <2>2. QED
    BY <1>5, <1>6, <1>8, <2>1 DEF QueueOK, d
<1>9. QED
  BY <1>7, <1>8

LEMMA BehindTail ==
  ASSUME NEW S, NEW c \in Seq(S), c # <<>>, NEW f, NEW m, BehindRequest(c, f, m)
  PROVE  BehindRequest(Tail(c), f, m)
<1> DEFINE d == Tail(c)
<1>1. /\ DOMAIN c = 1..Len(c) /\ Len(c) \in Nat /\ Len(c) >= 1
      /\ DOMAIN d = 1..(Len(c) - 1) /\ \A i \in 1..(Len(c) - 1) : d[i] = c[i + 1]
  OBVIOUS
<1> HIDE DEF d
<1>2. ASSUME NEW i \in DOMAIN d, d[i] = Flush(f),
             \A k \in DOMAIN d : k > i => d[k] # Flush(f),
             NEW k \in WritesOf(d), k > i
      PROVE  d[k].n > m
  <2>1. i + 1 \in DOMAIN c /\ c[i + 1] = Flush(f)
    BY <1>1, <1>2
  <2>2. ASSUME NEW j \in DOMAIN c, j > i + 1 PROVE c[j] # Flush(f)
    <3>1. j - 1 \in DOMAIN d /\ j - 1 > i /\ d[j - 1] = c[j - 1 + 1] /\ j - 1 + 1 = j
      BY <1>1, <1>2, <2>2
    <3>2. QED
      BY <1>2, <3>1
  <2>3. k + 1 \in WritesOf(c) /\ k + 1 > i + 1 /\ c[k + 1] = d[k]
    BY <1>1, <1>2 DEF WritesOf
  <2>4. QED
    BY <2>1, <2>2, <2>3 DEF BehindRequest
<1>3. QED
  BY <1>2 DEF BehindRequest, d

LEMMA BehindAppend ==
  ASSUME NEW S, NEW c \in Seq(S), NEW f, NEW m, NEW e,
         e = Flush(f) \/ (BehindRequest(c, f, m) /\ (IsWrite(e) => e.n > m))
  PROVE  BehindRequest(Append(c, e), f, m)
<1> DEFINE d == Append(c, e)
           q == Len(c) + 1
<1>1. /\ DOMAIN c = 1..Len(c) /\ Len(c) \in Nat /\ DOMAIN d = 1..q /\ d[q] = e
      /\ \A i \in 1..Len(c) : d[i] = c[i]
  OBVIOUS
<1> HIDE DEF d
<1>2. ASSUME NEW i \in DOMAIN d, d[i] = Flush(f),
             \A k \in DOMAIN d : k > i => d[k] # Flush(f),
             NEW k \in WritesOf(d), k > i
      PROVE  d[k].n > m
  <2>1. k \in 1..q /\ i \in 1..q /\ i # q /\ IsWrite(d[k])
    BY <1>1, <1>2 DEF WritesOf
  <2>2. e # Flush(f)
    BY <1>1, <1>2, <2>1
  <2>3. BehindRequest(c, f, m) /\ (IsWrite(e) => e.n > m)
    BY <2>2
  <2>4. CASE k = q
    BY <1>1, <2>1, <2>3, <2>4
  <2>5. CASE k # q
    <3>1. /\ i \in DOMAIN c /\ c[i] = Flush(f) /\ k \in WritesOf(c) /\ d[k] = c[k]
      BY <1>1, <1>2, <2>1, <2>5 DEF WritesOf
    <3>2. \A j \in DOMAIN c : j > i => c[j] # Flush(f)
      BY <1>1, <1>2
    <3>3. QED
      BY <1>2, <2>3, <3>1, <3>2 DEF BehindRequest
  <2>6. QED
    BY <2>4, <2>5
<1>3. QED
  BY <1>2 DEF BehindRequest, d

-----------------------------------------------------------------------------
(* What a reader finds in the pieces of a file, by value.                  *)

Heads(text) == {i \in DOMAIN text : text[i].part = "head"}

\* The heads in it are of entries up to top, in order.
OrderedTo(text, top) ==
  /\ \A i \in Heads(text) : text[i].n <= top
  /\ \A i, j \in Heads(text) : i < j => text[i].n < text[j].n

\* The heads in it are of entries after first.
LaterThan(text, first) == \A i \in Heads(text) : text[i].n > first

\* Excused and Holds, by value.
ExcusedBy(n, first, bad, part) ==
  n \in bad \/ n - 1 \in bad \/ (n = first + 1 /\ part)

HoldsTo(text, last, first, bad, part) ==
  \A n \in (first + 1)..last : n \in Entries(text) \/ ExcusedBy(n, first, bad, part)

Ended(text) == text = <<>> \/ text[Len(text)] = Newline

LEMMA NotAbove ==
  \A k, l, m \in Int : k <= l => (l <= m => k <= m) /\ (l < m => k < m)
OBVIOUS

LEMMA PieceTypes ==
  ASSUME NEW x \in Pieces
  PROVE  /\ x # Newline => x.n \in 1..MaxEntries
         /\ x.part = "head" => x # Newline
BY DEF Pieces, Newline, Piece

LEMMA FormatPieces ==
  ASSUME NEW n \in 1..MaxEntries
  PROVE  /\ Format(n) \in Seq(Pieces) /\ Len(Format(n)) = 2
         /\ Format(n)[1] = Piece("head", n) /\ Format(n)[2] = Piece("data", n)
         /\ <<Newline>> \in Seq(Pieces)
<1>1. Piece("head", n) \in Pieces /\ Piece("data", n) \in Pieces /\ Newline \in Pieces
  BY DEF Pieces, Piece
<1>2. QED
  BY <1>1 DEF Format

\* What is found in a text is found in all that continues it.
LEMMA FoundStays ==
  ASSUME NEW text \in Seq(Pieces), NEW more \in Seq(Pieces)
  PROVE  Entries(text) \subseteq Entries(text \o more)
<1> PICK all : all = text \o more
  OBVIOUS
<1>1. /\ all \in Seq(Pieces) /\ Len(all) = Len(text) + Len(more)
      /\ Len(text) \in Nat /\ Len(more) \in Nat
      /\ \A i \in 1..Len(text) : all[i] = text[i]
      /\ DOMAIN all = 1..Len(all) /\ DOMAIN text = 1..Len(text)
  BY ConcatProperties, LenProperties
<1>2. ASSUME NEW i \in Found(text) PROVE i \in Found(all) /\ all[i] = text[i]
  <2>1. i \in 1..Len(text) /\ i + 1 \in 1..Len(text) /\ Understood(text, i)
    BY <1>1 DEF Found, Understood
  <2>2. i \in DOMAIN all /\ i + 1 \in DOMAIN all /\ all[i] = text[i] /\ all[i + 1] = text[i + 1]
    BY <1>1, <2>1
  <2>3. i # 1 => i - 1 \in 1..Len(text) /\ all[i - 1] = text[i - 1]
    BY <1>1, <2>1
  <2>4. Understood(all, i)
    BY <2>1, <2>2, <2>3 DEF Understood
  <2>5. QED
    BY <2>2, <2>4 DEF Found
<1>3. QED
  BY <1>2 DEF Entries

\* An entry's text that starts a line is found.
LEMMA LineFound ==
  ASSUME NEW text \in Seq(Pieces), Ended(text), NEW n \in 1..MaxEntries
  PROVE  n \in Entries(text \o Format(n))
<1> PICK all, m, f : f = Format(n) /\ all = text \o f /\ m = Len(text)
  OBVIOUS
<1>1. /\ m \in Nat /\ DOMAIN all = 1..(m + 2)
      /\ \A i \in 1..(m + 2) : all[i] = IF i <= m THEN text[i] ELSE f[i - m]
  <2>1. all \in Seq(Pieces) /\ Len(all) = m + 2
        /\ \A i \in 1..(m + 2) : all[i] = IF i <= m THEN text[i] ELSE f[i - m]
    <3>1. f \in Seq(Pieces) /\ Len(f) = 2
      BY FormatPieces
    <3>2. /\ all \in Seq(Pieces) /\ Len(all) = Len(text) + Len(f)
          /\ \A i \in 1..(Len(text) + Len(f)) :
               all[i] = IF i <= Len(text) THEN text[i] ELSE f[i - Len(text)]
      BY <3>1, ConcatProperties
    <3>3. QED
      BY <3>1, <3>2
  <2>2. QED
    BY <2>1, LenProperties
<1>2. all[m + 1] = Piece("head", n) /\ all[m + 2] = Piece("data", n)
  <2>1. all[m + 1] = f[1] /\ all[m + 2] = f[2]
    <3>1. /\ m + 1 \in 1..(m + 2) /\ m + 2 \in 1..(m + 2) /\ ~(m + 1 <= m) /\ ~(m + 2 <= m)
          /\ m + 1 - m = 1 /\ m + 2 - m = 2
      BY <1>1
    <3>2. QED
      BY <1>1, <3>1
  <2>2. QED
    BY <2>1, FormatPieces
<1>3. m + 1 = 1 \/ all[m + 1 - 1] = Newline
  <2>1. m = 0 \/ text[m] = Newline
    BY EmptySeq DEF Ended
  <2>2. m # 0 => m \in 1..(m + 2) /\ m + 1 - 1 = m /\ m <= m
    BY <1>1
  <2>3. QED
    BY <1>1, <2>1, <2>2
<1>4. m + 1 \in Found(all) /\ all[m + 1].n = n
  <2>1. m + 1 \in DOMAIN all /\ m + 1 + 1 \in DOMAIN all /\ m + 1 + 1 = m + 2
    BY <1>1
  <2>2. all[m + 1].part = "head" /\ all[m + 1].n = n
    BY <1>2 DEF Piece
  <2>3. Understood(all, m + 1)
    BY <1>2, <1>3, <2>1, <2>2 DEF Understood
  <2>4. QED
    BY <2>1, <2>2, <2>3 DEF Found
<1>5. QED
  BY <1>4 DEF Entries

LEMMA OrderedPrefix ==
  ASSUME NEW text \in Seq(Pieces), NEW more \in Seq(Pieces), NEW top,
         OrderedTo(text \o more, top)
  PROVE  OrderedTo(text, top)
<1> PICK all : all = text \o more
  OBVIOUS
<1>1. \A i \in Heads(text) : i \in Heads(all) /\ all[i] = text[i]
  <2>1. /\ \A i \in 1..Len(text) : i \in DOMAIN all /\ all[i] = text[i]
        /\ DOMAIN text = 1..Len(text)
    BY ConcatProperties, LenProperties
  <2>2. QED
    BY <2>1 DEF Heads
<1>2. QED
  BY <1>1 DEF OrderedTo

IsNext(x, top, n) == x.part = "head" => x.n = n /\ top < n

\* A later head, or none, keeps the order.
LEMMA OrderedMore ==
  ASSUME NEW text \in Seq(Pieces), NEW top \in Nat, OrderedTo(text, top),
         NEW next \in Nat, top <= next,
         NEW x \in Pieces, IsNext(x, top, next)
  PROVE  OrderedTo(text \o <<x>>, next)
<1> PICK all, m : all = text \o <<x>> /\ m = Len(text)
  OBVIOUS
<1>1. /\ m \in Nat /\ DOMAIN all = 1..(m + 1) /\ all[m + 1] = x
      /\ \A i \in 1..m : all[i] = text[i]
      /\ DOMAIN text = 1..m
  BY LenProperties
<1>2. /\ \A i \in Heads(all) : i \in Int /\ (i \in Heads(text) \/ (i = m + 1 /\ x.part = "head"))
      /\ \A i \in Heads(text) : /\ i \in 1..m /\ all[i] = text[i]
                                /\ text[i].n \in Nat /\ text[i].n <= top
  <2>1. ASSUME NEW i \in Heads(text)
        PROVE  i \in 1..m /\ all[i] = text[i] /\ text[i].n \in Nat /\ text[i].n <= top
    <3>1. i \in 1..m /\ text[i].part = "head" /\ text[i] \in Pieces
      BY <1>1, <2>1, ElementOfSeq DEF Heads
    <3>2. text[i].n \in 1..MaxEntries
      BY <3>1, PieceTypes
    <3>3. QED
      BY <1>1, <2>1, <3>1, <3>2 DEF OrderedTo
  <2>2. ASSUME NEW i \in Heads(all)
        PROVE  i \in Int /\ (i \in Heads(text) \/ (i = m + 1 /\ x.part = "head"))
    <3>1. i \in 1..(m + 1) /\ all[i].part = "head"
      BY <1>1, <2>2 DEF Heads
    <3>2. CASE i \in 1..m
      BY <1>1, <3>1, <3>2 DEF Heads
    <3>3. CASE i = m + 1
      BY <1>1, <3>1, <3>3
    <3>4. QED
      BY <1>1, <3>1, <3>2, <3>3
  <2>3. QED
    BY <2>1, <2>2
<1>3. ASSUME NEW i \in Heads(all) PROVE all[i].n <= next
  <2>1. CASE i \in Heads(text)
    <3>1. PICK a \in Nat : a = all[i].n /\ a <= top
      BY <1>2, <2>1
    <3>2. a <= top
      BY <3>1
    <3>3. a <= next
      BY <3>2, NotAbove
    <3>4. QED
      BY <3>1, <3>3
  <2>2. CASE i = m + 1 /\ x.part = "head"
    BY <1>1, <2>2 DEF IsNext
  <2>3. QED
    BY <1>2, <1>3, <2>1, <2>2
<1>4. ASSUME NEW i \in Heads(all), NEW j \in Heads(all), i < j PROVE all[i].n < all[j].n
  <2>1. i \in Heads(text)
    <3>1. SUFFICES ASSUME i = m + 1 PROVE FALSE
      BY <1>2, <1>4
    <3>2. j \in 1..m \/ j = m + 1
      BY <1>2, <1>4
    <3>3. QED
      BY <1>1, <1>4, <3>1, <3>2
  <2>2. CASE j \in Heads(text)
    BY <1>2, <1>4, <2>1, <2>2 DEF OrderedTo
  <2>3. CASE j = m + 1 /\ x.part = "head"
    <3>1. PICK a \in Nat : a = all[i].n /\ a <= top
      BY <1>2, <2>1
    <3>2. all[j].n = next /\ top < next
      BY <1>1, <2>3 DEF IsNext
    <3>3. a <= top /\ top < next
      BY <3>1, <3>2
    <3>4. a < next
      BY <3>3, NotAbove
    <3>5. QED
      BY <3>1, <3>2, <3>4
  <2>4. QED
    BY <1>2, <1>4, <2>2, <2>3
<1>5. QED
  BY <1>3, <1>4 DEF OrderedTo

LEMMA OrderedUpTo ==
  ASSUME NEW text \in Seq(Pieces), NEW top \in Nat, OrderedTo(text, top), NEW more \in Nat,
         top <= more
  PROVE  OrderedTo(text, more)
<1>1. ASSUME NEW i \in Heads(text) PROVE text[i].n <= more
  <2>1. i \in 1..Len(text) /\ text[i].part = "head" /\ text[i] \in Pieces
    BY LenProperties, ElementOfSeq DEF Heads
  <2>2. PICK a \in Int : a = text[i].n
    BY <2>1, PieceTypes
  <2>3. a <= top
    BY <2>2 DEF OrderedTo
  <2>4. a <= more
    BY <2>3, NotAbove
  <2>5. QED
    BY <2>2, <2>4
<1>2. QED
  BY <1>1 DEF OrderedTo

LEMMA TwoPieces == ASSUME NEW h, NEW d PROVE <<h>> \o <<d>> = <<h, d>>
<1> PICK s, t, u, S : s = <<h>> /\ t = <<d>> /\ u = <<h, d>> /\ S = {h, d}
  OBVIOUS
<1>1. /\ s \in Seq(S) /\ t \in Seq(S) /\ u \in Seq(S) /\ Len(s) = 1 /\ Len(t) = 1 /\ Len(u) = 2
      /\ s[1] = h /\ t[1] = d /\ u[1] = h /\ u[2] = d
  OBVIOUS
<1>2. /\ s \o t \in Seq(S) /\ Len(s \o t) = 2
      /\ (s \o t)[1] = h /\ (s \o t)[2] = d
  <2>1. /\ s \o t \in Seq(S) /\ Len(s \o t) = 1 + 1
        /\ \A i \in 1..(1 + 1) : (s \o t)[i] = IF i <= 1 THEN s[i] ELSE t[i - 1]
    BY <1>1, ConcatProperties
  <2>2. QED
    BY <1>1, <2>1
<1>3. \A i \in 1..2 : i = 1 \/ i = 2
  OBVIOUS
<1>4. s \o t = u
  BY <1>1, <1>2, <1>3, SeqEqual
<1>5. QED
  BY <1>4

\* An entry's text, and its newline, after what is of earlier entries.
LEMMA OrderedWritten ==
  ASSUME NEW text \in Seq(Pieces), NEW top \in Nat, OrderedTo(text, top),
         top + 1 \in 1..MaxEntries
  PROVE  /\ OrderedTo(text \o Format(top + 1), top + 1)
         /\ OrderedTo((text \o Format(top + 1)) \o <<Newline>>, top + 1)
<1> PICK next : next = top + 1
  OBVIOUS
<1> PICK h, d : h = Piece("head", next) /\ d = Piece("data", next)
  OBVIOUS
<1>1. /\ h \in Pieces /\ d \in Pieces /\ Newline \in Pieces
      /\ IsNext(h, top, next) /\ IsNext(d, next, next) /\ IsNext(Newline, next, next)
  BY DEF Pieces, Piece, Newline, IsNext
<1>2. /\ <<h>> \in Seq(Pieces) /\ <<d>> \in Seq(Pieces) /\ <<Newline>> \in Seq(Pieces)
      /\ <<h>> \o <<d>> = Format(next)
  BY <1>1, TwoPieces DEF Format
<1>3. PICK t1 : t1 = text \o <<h>>
  OBVIOUS
<1>4. PICK t2 : t2 = t1 \o <<d>>
  OBVIOUS
<1>5. t1 \in Seq(Pieces) /\ t2 \in Seq(Pieces)
  <2>1. t1 \in Seq(Pieces)
    BY <1>2, <1>3, ConcatProperties
  <2>2. QED
    BY <1>2, <1>4, <2>1, ConcatProperties
<1>6. next \in Nat /\ top <= next /\ next <= next
  OBVIOUS
<1>7. OrderedTo(t1, next)
  BY <1>1, <1>3, <1>6, OrderedMore
<1>8. OrderedTo(t2, next)
  BY <1>1, <1>4, <1>5, <1>6, <1>7, OrderedMore
<1>9. OrderedTo(t2 \o <<Newline>>, next)
  BY <1>1, <1>5, <1>6, <1>8, OrderedMore
<1>10. t2 = text \o Format(next)
  <2>1. (text \o <<h>>) \o <<d>> = text \o (<<h>> \o <<d>>)
    BY <1>2, ConcatAssociative
  <2>2. QED
    BY <1>2, <1>3, <1>4, <2>1
<1>11. QED
  BY <1>8, <1>9, <1>10

\* What follows on what is after first.
LEMMA LaterBoth ==
  ASSUME NEW text \in Seq(Pieces), NEW more \in Seq(Pieces), NEW first,
         LaterThan(text, first), LaterThan(more, first)
  PROVE  LaterThan(text \o more, first)
<1> PICK all, m : all = text \o more /\ m = Len(text)
  OBVIOUS
<1>1. /\ all \in Seq(Pieces) /\ m \in Nat /\ Len(more) \in Nat /\ Len(all) = m + Len(more)
      /\ \A i \in 1..(m + Len(more)) : all[i] = IF i <= m THEN text[i] ELSE more[i - m]
      /\ DOMAIN all = 1..Len(all) /\ DOMAIN text = 1..m /\ DOMAIN more = 1..Len(more)
  BY ConcatProperties, LenProperties
<1>2. ASSUME NEW i \in Heads(all) PROVE all[i].n > first
  <2>1. i \in 1..(m + Len(more)) /\ all[i].part = "head"
    BY <1>1 DEF Heads
  <2>2. CASE i <= m
    <3>1. i \in 1..m /\ all[i] = text[i]
      BY <1>1, <2>1, <2>2
    <3>2. i \in Heads(text)
      BY <1>1, <2>1, <3>1 DEF Heads
    <3>3. QED
      BY <3>1, <3>2 DEF LaterThan
  <2>3. CASE ~(i <= m)
    <3>1. i - m \in 1..Len(more) /\ all[i] = more[i - m]
      BY <1>1, <2>1, <2>3
    <3>2. i - m \in Heads(more)
      BY <1>1, <2>1, <3>1 DEF Heads
    <3>3. QED
      BY <3>1, <3>2 DEF LaterThan
  <2>4. QED
    BY <2>2, <2>3
<1>3. QED
  BY <1>2 DEF LaterThan

LEMMA LaterWritten ==
  ASSUME NEW text \in Seq(Pieces), NEW first \in Nat, LaterThan(text, first),
         NEW next \in 1..MaxEntries, first < next
  PROVE  /\ LaterThan(text \o Format(next), first)
         /\ LaterThan((text \o Format(next)) \o <<Newline>>, first)
         /\ text \o Format(next) \in Seq(Pieces)
         /\ (text \o Format(next)) \o <<Newline>> \in Seq(Pieces)
<1> PICK f : f = Format(next)
  OBVIOUS
<1>1. /\ f \in Seq(Pieces) /\ Len(f) = 2 /\ f[1] = Piece("head", next)
      /\ f[2] = Piece("data", next) /\ <<Newline>> \in Seq(Pieces)
  BY FormatPieces
<1>2. LaterThan(f, first)
  <2>1. DOMAIN f = 1..2
    BY <1>1, LenProperties
  <2>2. \A i \in 1..2 : i = 1 \/ i = 2
    OBVIOUS
  <2>3. f[1].n > first /\ f[2].n > first
    BY <1>1 DEF Piece
  <2>4. QED
    BY <2>1, <2>2, <2>3 DEF LaterThan, Heads
<1>3. LaterThan(<<Newline>>, first)
  <2>1. DOMAIN <<Newline>> = {1} /\ <<Newline>>[1].part # "head"
    BY DEF Newline, Piece
  <2>2. QED
    BY <2>1 DEF LaterThan, Heads
<1>4. LaterThan(text \o f, first) /\ text \o f \in Seq(Pieces)
  BY <1>1, <1>2, LaterBoth, ConcatProperties
<1>5. QED
  BY <1>1, <1>3, <1>4, LaterBoth, ConcatProperties

LEMMA Regroup ==
  \A s, t, u \in Seq(Pieces) : (s \o t) \o u = s \o (t \o u)
BY ConcatAssociative

\* The pieces that a file takes and those that stay in the buffer.
LEMMA CutInTwo ==
  ASSUME NEW all \in Seq(Pieces), NEW p \in 0..Len(all), NEW text \in Seq(Pieces)
  PROVE  LET q == SubSeq(all, 1, p)
             r == SubSeq(all, p + 1, Len(all))
         IN  /\ q \in Seq(Pieces) /\ r \in Seq(Pieces)
             /\ text \o q \in Seq(Pieces) /\ (text \o q) \o r = text \o all
             /\ \A first : LaterThan(all, first) => LaterThan(q, first) /\ LaterThan(r, first)
<1> PICK q, r, m : q = SubSeq(all, 1, p) /\ r = SubSeq(all, p + 1, m) /\ m = Len(all)
  OBVIOUS
<1>1. m \in Nat /\ p \in 0..m /\ DOMAIN all = 1..m /\ \A i \in 1..m : all[i] \in Pieces
  BY LenProperties, ElementOfSeq
<1>2. /\ q \in Seq(Pieces) /\ Len(q) = p /\ \A i \in 1..p : q[i] = all[i]
  <2>1. \A i \in 1..p : all[i] \in Pieces
    BY <1>1
  <2>2. /\ q \in Seq(Pieces) /\ Len(q) = IF 1 <= p THEN p - 1 + 1 ELSE 0
        /\ \A i \in 1..(p - 1 + 1) : q[i] = all[1 + i - 1]
    BY <1>1, <2>1, SubSeqProperties
  <2>3. p - 1 + 1 = p /\ \A i \in 1..p : 1 + i - 1 = i
    BY <1>1
  <2>4. (IF 1 <= p THEN p - 1 + 1 ELSE 0) = p
    BY <1>1
  <2>5. QED
    BY <2>2, <2>3, <2>4
<1>3. /\ r \in Seq(Pieces) /\ Len(r) = m - p /\ \A i \in 1..(m - p) : r[i] = all[p + i]
  <2>1. \A i \in (p + 1)..m : all[i] \in Pieces
    BY <1>1
  <2>2. /\ r \in Seq(Pieces) /\ Len(r) = IF p + 1 <= m THEN m - (p + 1) + 1 ELSE 0
        /\ \A i \in 1..(m - (p + 1) + 1) : r[i] = all[p + 1 + i - 1]
    BY <1>1, <2>1, SubSeqProperties
  <2>3. m - (p + 1) + 1 = m - p /\ \A i \in 1..(m - p) : p + 1 + i - 1 = p + i
    BY <1>1
  <2>4. (IF p + 1 <= m THEN m - (p + 1) + 1 ELSE 0) = m - p
    BY <1>1
  <2>5. QED
    BY <2>2, <2>3, <2>4
<1>4. q \o r = all
  <2>1. 1 \in 1..(m + 1) /\ p \in (1 - 1)..m /\ m \in p..m
    BY <1>1
  <2>2. SubSeq(all, 1, p) \o SubSeq(all, p + 1, m) = SubSeq(all, 1, m)
    BY <1>1, <2>1, ConcatAdjacentSubSeq
  <2>3. SubSeq(all, 1, m) = all
    BY SubSeqFull
  <2>4. QED
    BY <2>2, <2>3
<1>5. text \o q \in Seq(Pieces) /\ (text \o q) \o r = text \o all
  <2>1. text \o q \in Seq(Pieces)
    BY <1>2, ConcatProperties
  <2>2. (text \o q) \o r = text \o (q \o r)
    <3>1. text \in Seq(Pieces) /\ q \in Seq(Pieces) /\ r \in Seq(Pieces)
      BY <1>2, <1>3
    <3>2. QED
      BY <3>1, Regroup, Zenon
  <2>3. QED
    BY <1>4, <2>1, <2>2
<1>6. ASSUME NEW first, LaterThan(all, first)
      PROVE  LaterThan(q, first) /\ LaterThan(r, first)
  <2>1. ASSUME NEW i \in Heads(q) PROVE q[i].n > first
    <3>1. i \in 1..p /\ q[i] = all[i] /\ all[i].part = "head"
      BY <1>2, LenProperties DEF Heads
    <3>2. i \in Heads(all)
      BY <1>1, <3>1 DEF Heads
    <3>3. QED
      BY <1>6, <3>1, <3>2 DEF LaterThan
  <2>2. ASSUME NEW i \in Heads(r) PROVE r[i].n > first
    <3>1. i \in 1..(m - p) /\ r[i] = all[p + i] /\ all[p + i].part = "head"
      BY <1>3, LenProperties DEF Heads
    <3>2. p + i \in 1..m
      BY <1>1, <3>1
    <3>3. p + i \in Heads(all)
      BY <1>1, <3>1, <3>2 DEF Heads
    <3>4. QED
      BY <1>6, <3>1, <3>3 DEF LaterThan
  <2>3. QED
    BY <2>1, <2>2 DEF LaterThan
<1>7. QED
  BY <1>2, <1>3, <1>5, <1>6

-----------------------------------------------------------------------------
(* What a file and the buffer hold together.                               *)

\* All entries after first up to last, in order, but for those excused; and the
\* next one starts a line or is excused.
StreamOK(text, last, first, bad, part) ==
  /\ OrderedTo(text, last) /\ HoldsTo(text, last, first, bad, part)
  /\ Ended(text) \/ last \in bad \/ (last = first /\ part)

LEMMA HoldsMore ==
  ASSUME NEW text \in Seq(Pieces), NEW more \in Seq(Pieces), NEW last, NEW first, NEW bad,
         NEW worse, bad \subseteq worse, NEW part, HoldsTo(text, last, first, bad, part)
  PROVE  HoldsTo(text \o more, last, first, worse, part)
BY FoundStays DEF HoldsTo, ExcusedBy

\* The entry after the last, written or not.
LEMMA StreamNext ==
  ASSUME NEW text \in Seq(Pieces), NEW first \in Nat, NEW last \in Nat, first <= last,
         NEW bad, NEW part, StreamOK(text, last, first, bad, part),
         last + 1 \in 1..MaxEntries
  PROVE  LET next == last + 1
             worse == bad \cup {next}
         IN  /\ StreamOK((text \o Format(next)) \o <<Newline>>, next, first, bad, part)
             /\ StreamOK(text \o Format(next), next, first, worse, part)
             /\ StreamOK(text, next, first, worse, part)
<1> PICK next, worse, f : next = last + 1 /\ worse = bad \cup {next} /\ f = Format(next)
  OBVIOUS
<1>1. /\ next \in Nat /\ last <= next /\ next - 1 = last
      /\ (first + 1)..next = ((first + 1)..last) \cup {next}
  OBVIOUS
<1>2. /\ f \in Seq(Pieces) /\ <<Newline>> \in Seq(Pieces) /\ text \o f \in Seq(Pieces)
      /\ (text \o f) \o <<Newline>> \in Seq(Pieces)
  <2>1. f \in Seq(Pieces) /\ <<Newline>> \in Seq(Pieces)
    BY FormatPieces
  <2>2. text \o f \in Seq(Pieces)
    BY <2>1, ConcatProperties
  <2>3. QED
    BY <2>1, <2>2, ConcatProperties
<1>3. /\ OrderedTo(text \o f, next) /\ OrderedTo((text \o f) \o <<Newline>>, next)
      /\ OrderedTo(text, next)
  BY <1>1, OrderedWritten, OrderedUpTo DEF StreamOK
<1>4. /\ HoldsTo(text \o f, last, first, bad, part) /\ HoldsTo(text \o f, last, first, worse, part)
      /\ HoldsTo((text \o f) \o <<Newline>>, last, first, bad, part)
      /\ HoldsTo(text, last, first, worse, part)
  <2>1. HoldsTo(text, last, first, bad, part) /\ bad \subseteq bad /\ bad \subseteq worse
    BY DEF StreamOK
  <2>2. HoldsTo(text \o f, last, first, bad, part) /\ HoldsTo(text \o f, last, first, worse, part)
    BY <1>2, <2>1, HoldsMore
  <2>3. HoldsTo((text \o f) \o <<Newline>>, last, first, bad, part)
    BY <1>2, <2>1, <2>2, HoldsMore
  <2>4. HoldsTo(text, last, first, worse, part)
    BY <2>1 DEF HoldsTo, ExcusedBy
  <2>5. QED
    BY <2>2, <2>3, <2>4
<1>5. next \in Entries((text \o f) \o <<Newline>>) \/ ExcusedBy(next, first, bad, part)
  <2>1. CASE Ended(text)
    <3>1. next \in Entries(text \o f)
      BY <2>1, LineFound
    <3>2. QED
      BY <1>2, <3>1, FoundStays
  <2>2. CASE last \in bad \/ (last = first /\ part)
    BY <1>1, <2>2 DEF ExcusedBy
  <2>3. QED
    BY <2>1, <2>2 DEF StreamOK
<1>6. ExcusedBy(next, first, worse, part)
  BY DEF ExcusedBy
<1>7. Ended((text \o f) \o <<Newline>>)
  <2>1. \A s \in Seq(Pieces) : Ended(s \o <<Newline>>)
    BY DEF Ended
  <2>2. QED
    BY <1>2, <2>1
<1>8. /\ HoldsTo((text \o f) \o <<Newline>>, next, first, bad, part)
      /\ HoldsTo(text \o f, next, first, worse, part)
      /\ HoldsTo(text, next, first, worse, part)
  BY <1>1, <1>4, <1>5, <1>6 DEF HoldsTo
<1>9. QED
  BY <1>3, <1>7, <1>8 DEF StreamOK

-----------------------------------------------------------------------------
(* Files.                                                                  *)

Before(text, more) == \A i \in Heads(text), j \in Heads(more) : text[i].n < more[j].n

\* Every file is in order, and those that are not the process's own hold nothing
\* after first; while the clock was steady, they follow one another.
FilesOK(fs, own, first, top, calm) ==
  /\ DOMAIN fs \subseteq Clock
  /\ \A s \in DOMAIN fs : fs[s] \in Seq(Pieces)
  /\ \A s \in DOMAIN fs : OrderedTo(fs[s], IF s = own THEN top ELSE first)
  /\ calm => /\ \A s \in DOMAIN fs : s <= own
             /\ \A s, t \in DOMAIN fs : s < t => Before(fs[s], fs[t])

LEMMA FewerFiles ==
  ASSUME NEW fs, NEW gs, NEW own, NEW first, NEW top, NEW calm,
         FilesOK(fs, own, first, top, calm), DOMAIN gs \subseteq DOMAIN fs,
         \A s \in DOMAIN gs : gs[s] = fs[s]
  PROVE  FilesOK(gs, own, first, top, calm)
BY DEF FilesOK

LEMMA BeforeMore ==
  ASSUME NEW text \in Seq(Pieces), NEW more \in Seq(Pieces), NEW q \in Seq(Pieces),
         NEW first \in Nat, Before(text, more), OrderedTo(text, first), LaterThan(q, first)
  PROVE  Before(text, more \o q)
<1> PICK all, m : all = more \o q /\ m = Len(more)
  OBVIOUS
<1>1. /\ all \in Seq(Pieces) /\ m \in Nat /\ Len(q) \in Nat /\ Len(all) = m + Len(q)
      /\ \A i \in 1..(m + Len(q)) : all[i] = IF i <= m THEN more[i] ELSE q[i - m]
      /\ DOMAIN all = 1..Len(all) /\ DOMAIN more = 1..m /\ DOMAIN q = 1..Len(q)
  BY ConcatProperties, LenProperties
<1>2. ASSUME NEW i \in Heads(text), NEW j \in Heads(all) PROVE text[i].n < all[j].n
  <2>1. j \in 1..(m + Len(q)) /\ all[j].part = "head"
    BY <1>1 DEF Heads
  <2>2. CASE j <= m
    <3>1. j \in 1..m /\ all[j] = more[j]
      BY <1>1, <2>1, <2>2
    <3>2. j \in Heads(more)
      BY <1>1, <2>1, <3>1 DEF Heads
    <3>3. QED
      BY <3>1, <3>2 DEF Before
  <2>3. CASE ~(j <= m)
    <3>1. j - m \in 1..Len(q) /\ all[j] = q[j - m]
      BY <1>1, <2>1, <2>3
    <3>2. j - m \in Heads(q) /\ q[j - m] \in Pieces /\ q[j - m].part = "head"
      BY <1>1, <2>1, <3>1, ElementOfSeq DEF Heads
    <3>3. i \in 1..Len(text) /\ text[i] \in Pieces /\ text[i].part = "head"
      BY LenProperties, ElementOfSeq DEF Heads
    <3>n. text[i].n \in 1..MaxEntries /\ q[j - m].n \in 1..MaxEntries
      BY <3>2, <3>3, PieceTypes
    <3>4. PICK a, b \in Int : a = text[i].n /\ b = q[j - m].n
      BY <3>n
    <3>5. a <= first /\ first < b
      BY <3>2, <3>4 DEF OrderedTo, LaterThan
    <3>6. a < b
      BY <3>5, NotAbove
    <3>7. QED
      BY <3>1, <3>4, <3>6
  <2>4. QED
    BY <2>2, <2>3
<1>3. QED
  BY <1>2 DEF Before

\* What is of the process is appended to its file.
LEMMA FlushedKeeps ==
  ASSUME NEW first \in Nat, NEW top \in Nat, NEW q \in Seq(Pieces), name \in Clock,
         FilesOK(files, name, first, top, steady),
         Linked => OrderedTo(files[name] \o q, top) /\ LaterThan(q, first)
  PROVE  /\ FilesOK(Flushed(q), name, first, top, steady)
         /\ DOMAIN Flushed(q) = DOMAIN files
         /\ Linked => Flushed(q)[name] = files[name] \o q
<1> PICK fs, gs, c, calm : fs = files /\ gs = Flushed(q) /\ c = name /\ calm = steady
  OBVIOUS
<1>1. FilesOK(fs, c, first, top, calm)
  OBVIOUS
<1>2. CASE ~Linked
  BY <1>1, <1>2 DEF Flushed
<1>3. CASE Linked
  <2>1. c \in DOMAIN fs /\ OrderedTo(fs[c] \o q, top) /\ LaterThan(q, first)
    BY <1>3 DEF Linked
  <2>2. /\ DOMAIN gs = DOMAIN fs /\ gs[c] = fs[c] \o q
        /\ \A s \in DOMAIN fs : s # c => gs[s] = fs[s]
    BY <1>3, <2>1 DEF Flushed
  <2>3. \A s \in DOMAIN fs : fs[s] \in Seq(Pieces)
    BY <1>1 DEF FilesOK
  <2>4. gs[c] \in Seq(Pieces)
    BY <2>1, <2>2, <2>3, ConcatProperties
  <2>5. \A s \in DOMAIN gs : gs[s] \in Seq(Pieces)
    BY <2>2, <2>3, <2>4
  <2>6. \A s \in DOMAIN gs : OrderedTo(gs[s], IF s = c THEN top ELSE first)
    BY <1>1, <2>1, <2>2 DEF FilesOK
  <2>7. ASSUME calm, NEW s \in DOMAIN gs, NEW t \in DOMAIN gs, s < t
        PROVE  Before(gs[s], gs[t])
    <3>1. Before(fs[s], fs[t]) /\ t <= c
      BY <1>1, <2>2, <2>7 DEF FilesOK
    <3>2. s # c
      <4>1. s \in Nat /\ t \in Nat
        BY <1>1, <2>2, JournalAssumption DEF FilesOK
      <4>2. QED
        BY <2>7, <3>1, <4>1
    <3>3. OrderedTo(fs[s], first) /\ gs[s] = fs[s]
      BY <1>1, <2>2, <3>2 DEF FilesOK
    <3>4. CASE t = c
      BY <2>1, <2>2, <2>3, <3>1, <3>3, <3>4, BeforeMore
    <3>5. CASE t # c
      BY <2>2, <3>1, <3>3, <3>5
    <3>6. QED
      BY <3>4, <3>5
  <2>8. calm => \A s \in DOMAIN gs : s <= c
    BY <1>1, <2>2 DEF FilesOK
  <2>9. FilesOK(gs, c, first, top, calm)
    BY <1>1, <2>2, <2>5, <2>6, <2>7, <2>8 DEF FilesOK
  <2>10. QED
    BY <2>2, <2>9
<1>4. QED
  BY <1>2, <1>3

-----------------------------------------------------------------------------
(* The writer's invariant.                                                 *)

CountsOK == /\ due \in BOOLEAN /\ flush \in [Flushers -> States] /\ name \in Clock
            /\ accepted \in 0..MaxEntries /\ base \in 0..accepted
            /\ mark \in [Flushers -> 0..accepted] /\ failed \subseteq (base + 1)..accepted
            /\ torn \in BOOLEAN /\ stuck \in BOOLEAN /\ steady \in BOOLEAN
            /\ crashes \in 0..MaxRestarts

HeldOK(c, b) == c \in Seq(Commands) /\ Len(c) <= Capacity /\ b \in Seq(Pieces)

\* The channel follows on what was taken from it, and a request that is waited for
\* stands in it before everything that was accepted later.
ChannelOK(c, taken, fl, mk, top) ==
  /\ QueueOK(c, taken, top)
  /\ \A f \in Flushers : /\ fl[f] = "ok" => mk[f] <= taken
                         /\ fl[f] = "waiting" => BehindRequest(c, f, mk[f])

\* File and buffer together hold what was taken, and the file alone what was
\* there when a request was acknowledged, unless the last flush failed.
TextOK(text, b, taken, fl, mk, first, bad, part, stays) ==
  /\ StreamOK(text \o b, taken, first, bad, part) /\ LaterThan(b, first)
  /\ \A f \in Flushers : fl[f] = "ok" /\ ~stays => HoldsTo(text, mk[f], first, bad, part)

TakenOK(taken) ==
  /\ ChannelOK(chan, taken, flush, mark, accepted)
  /\ Linked => TextOK(files[name], buf, taken, flush, mark, base, failed, torn, stuck)

WriterInv ==
  /\ CountsOK /\ HeldOK(chan, buf) /\ FilesOK(files, name, base, accepted, steady)
  /\ \E taken \in base..accepted : TakenOK(taken)

LEMMA WriterNumbers ==
  ASSUME WriterInv
  PROVE  /\ accepted \in Nat /\ base \in Nat /\ base <= accepted /\ MaxEntries \in Nat
         /\ Len(chan) \in Nat /\ Capacity \in Nat
<1>1. chan \in Seq(Commands)
  BY DEF WriterInv, HeldOK
<1>2. QED
  BY <1>1, LenProperties, JournalAssumption DEF WriterInv, CountsOK

LEMMA WriterTyped == ASSUME WriterInv PROVE JournalTypeOK
BY DEF WriterInv, CountsOK, HeldOK, FilesOK, JournalTypeOK

LEMMA EmptyChannel ==
  ASSUME NEW top \in Nat, NEW fl, NEW mk, \A f \in Flushers : fl[f] = "idle"
  PROVE  ChannelOK(<<>>, top, fl, mk, top)
<1>1. DOMAIN <<>> = {} /\ WritesOf(<<>>) = {}
  BY DEF WritesOf
<1>2. (top + 1)..top = {}
  OBVIOUS
<1>3. QueueOK(<<>>, top, top)
  BY <1>1, <1>2 DEF QueueOK
<1>4. QED
  BY <1>3 DEF ChannelOK

\* A process that has just opened its file.
LEMMA FreshText ==
  ASSUME NEW text \in Seq(Pieces), NEW top \in Nat, OrderedTo(text, top),
         NEW part, part = (text # <<>> /\ text[Len(text)] # Newline),
         NEW fl, NEW mk, \A f \in Flushers : fl[f] = "idle", NEW stays
  PROVE  TextOK(text, <<>>, top, fl, mk, top, {}, part, stays)
<1>1. text \o <<>> = text
  BY ConcatEmptySeq
<1>2. (top + 1)..top = {}
  OBVIOUS
<1>3. StreamOK(text, top, top, {}, part)
  BY <1>2 DEF StreamOK, HoldsTo, Ended
<1>4. LaterThan(<<>>, top)
  BY DEF LaterThan, Heads
<1>5. QED
  BY <1>1, <1>3, <1>4 DEF TextOK

LEMMA WriterStarts == ASSUME JournalInit PROVE WriterInv
<1>1. /\ chan = <<>> /\ buf = <<>> /\ accepted = 0 /\ base = 0 /\ crashes = 0 /\ failed = {}
      /\ name \in Clock /\ files = [s \in {name} |-> <<>>] /\ torn = FALSE
      /\ \A f \in Flushers : flush[f] = "idle"
  BY JournalAssumption DEF JournalInit
<1>2. CountsOK
  <2>1. accepted \in 0..MaxEntries /\ base \in 0..accepted /\ crashes \in 0..MaxRestarts
    BY <1>1, JournalAssumption
  <2>2. mark \in [Flushers -> 0..accepted] /\ flush \in [Flushers -> States]
    BY <1>1 DEF JournalInit, States
  <2>3. QED
    BY <1>1, <2>1, <2>2 DEF JournalInit, CountsOK
<1>3. HeldOK(chan, buf)
  BY <1>1, EmptySeq, JournalAssumption DEF HeldOK
<1>4. <<>> \in Seq(Pieces) /\ OrderedTo(<<>>, 0) /\ 0 \in Nat
  BY EmptySeq DEF OrderedTo, Heads
<1>5. DOMAIN files = {name} /\ files[name] = <<>>
  BY <1>1
<1>6. FilesOK(files, name, base, accepted, steady)
  <2>1. name <= name /\ ~(name < name)
    BY <1>1, JournalAssumption
  <2>2. QED
    BY <1>1, <1>4, <1>5, <2>1 DEF FilesOK
<1>7. ChannelOK(<<>>, 0, flush, mark, 0)
  BY <1>1, <1>4, EmptyChannel
<1>8. TextOK(<<>>, <<>>, 0, flush, mark, 0, {}, FALSE, stuck)
  <2>1. FALSE = (<<>> # <<>> /\ <<>>[Len(<<>>)] # Newline)
    OBVIOUS
  <2>2. QED
    BY <1>1, <1>4, <2>1, FreshText
<1>9. TakenOK(0) /\ 0 \in base..accepted
  <2>1. ChannelOK(chan, 0, flush, mark, accepted)
    BY <1>1, <1>7
  <2>2. TextOK(files[name], buf, 0, flush, mark, base, failed, torn, stuck)
    BY <1>1, <1>5, <1>8
  <2>3. 0 \in base..accepted
    BY <1>1
  <2>4. QED
    BY <2>1, <2>2, <2>3 DEF TakenOK
<1>10. QED
  BY <1>2, <1>3, <1>6, <1>9 DEF WriterInv

LEMMA RestartKeeps == ASSUME WriterInv, Restart PROVE WriterInv'
<1>0. PICK s \in Clock :
        LET text == Opened(s)
        IN  /\ name' = s /\ steady' = (steady /\ name <= s)
            /\ files' = [i \in DOMAIN files \cup {s} |-> IF i = s THEN text ELSE files[i]]
            /\ torn' = (text # <<>> /\ text[Len(text)] # Newline)
  BY DEF Restart
<1>1. PICK text :
        /\ text = Opened(s) /\ name' = s /\ steady' = (steady /\ name <= s)
        /\ files' = [i \in DOMAIN files \cup {s} |-> IF i = s THEN text ELSE files[i]]
        /\ torn' = (text # <<>> /\ text[Len(text)] # Newline)
  BY <1>0, Zenon
<1> PICK top, c, gs : top = accepted /\ c = name /\ gs = files'
  OBVIOUS
<1>2. /\ chan' = <<>> /\ buf' = <<>> /\ accepted' = top /\ base' = top /\ failed' = {}
      /\ \A f \in Flushers : flush'[f] = "idle"
  BY DEF Restart
<1>3. /\ top \in Nat /\ base \in Nat /\ base <= top /\ c \in Nat /\ s \in Nat
      /\ FilesOK(files, c, base, top, steady) /\ steady \in BOOLEAN /\ c \in Clock
  BY WriterNumbers, JournalAssumption DEF WriterInv, CountsOK
<1>4. CountsOK'
  <2>1. accepted \in 0..MaxEntries /\ crashes' \in 0..MaxRestarts
    BY JournalAssumption DEF WriterInv, CountsOK, Restart
  <2>2. mark' \in [Flushers -> 0..accepted] /\ flush' \in [Flushers -> States]
    BY <1>3 DEF Restart, States
  <2>3. due' \in BOOLEAN /\ stuck' \in BOOLEAN /\ steady' \in BOOLEAN /\ torn' \in BOOLEAN
    BY <1>1 DEF Restart
  <2>4. QED
    BY <1>1, <1>2, <1>3, <2>1, <2>2, <2>3 DEF CountsOK
<1>5. HeldOK(chan', buf')
  BY <1>2, EmptySeq, JournalAssumption DEF HeldOK
<1>6. /\ DOMAIN gs = DOMAIN files \cup {s} /\ gs[s] = text
      /\ \A i \in DOMAIN files : gs[i] = files[i]
      /\ s \notin DOMAIN files => text = <<>>
  BY <1>1 DEF Opened
<1>7. Heads(<<>>) = {} /\ <<>> \in Seq(Pieces)
  BY EmptySeq DEF Heads
<1>8. ASSUME NEW i \in DOMAIN gs PROVE gs[i] \in Seq(Pieces) /\ OrderedTo(gs[i], top)
  <2>1. CASE i \in DOMAIN files
    <3>1. files[i] \in Seq(Pieces) /\ OrderedTo(files[i], IF i = c THEN top ELSE base)
      BY <1>3, <2>1 DEF FilesOK
    <3>2. OrderedTo(files[i], top)
      BY <1>3, <3>1, OrderedUpTo
    <3>3. QED
      BY <1>6, <2>1, <3>1, <3>2
  <2>2. CASE i \notin DOMAIN files
    BY <1>6, <1>7, <2>2 DEF OrderedTo
  <2>3. QED
    BY <2>1, <2>2
<1>9. ASSUME steady' PROVE \A i \in DOMAIN gs : i <= s
  <2>1. \A i \in DOMAIN files : i \in Nat /\ i <= c
    BY <1>1, <1>3, <1>9, JournalAssumption DEF FilesOK
  <2>2. c <= s
    BY <1>1, <1>9, Zenon
  <2>3. QED
    BY <1>3, <1>6, <2>1, <2>2
<1>10. ASSUME steady', NEW i \in DOMAIN gs, NEW k \in DOMAIN gs, i < k
       PROVE  Before(gs[i], gs[k])
  <2>1. CASE i \in DOMAIN files /\ k \in DOMAIN files
    BY <1>1, <1>3, <1>6, <1>10, <2>1 DEF FilesOK
  <2>2. CASE i \notin DOMAIN files \/ k \notin DOMAIN files
    <3>1. gs[i] = <<>> \/ gs[k] = <<>>
      BY <1>6, <2>2
    <3>2. QED
      BY <1>7, <3>1 DEF Before
  <2>3. QED
    BY <2>1, <2>2
<1>11. DOMAIN gs \subseteq Clock
  BY <1>3, <1>6 DEF FilesOK
<1>12. FilesOK(gs, s, top, top, steady')
  BY <1>8, <1>9, <1>10, <1>11 DEF FilesOK
<1>13. ChannelOK(<<>>, top, flush', mark', top)
  BY <1>2, <1>3, EmptyChannel
<1>14. TextOK(text, <<>>, top, flush', mark', top, {}, torn', stuck')
  <2>1. text \in Seq(Pieces) /\ OrderedTo(text, top)
    BY <1>6, <1>8
  <2>2. QED
    BY <1>1, <1>2, <1>3, <2>1, FreshText
<1>15. TakenOK(top)' /\ top \in base'..accepted'
  BY <1>1, <1>2, <1>3, <1>6, <1>13, <1>14 DEF TakenOK
<1>16. QED
  BY <1>1, <1>2, <1>4, <1>5, <1>12, <1>15 DEF WriterInv, HeldOK

-----------------------------------------------------------------------------
(* Producers and flushers: the files stay as they are.                     *)

LEMMA QuietStep ==
  ASSUME WriterInv, CountsOK', HeldOK(chan', buf), accepted <= accepted', accepted' \in Nat,
         UNCHANGED <<buf, files, name, base, failed, torn, stuck, steady>>,
         \A f \in Flushers : flush'[f] = "ok" => flush[f] = "ok" /\ mark'[f] = mark[f],
         \A taken \in base..accepted :
           ChannelOK(chan, taken, flush, mark, accepted) =>
             ChannelOK(chan', taken, flush', mark', accepted')
  PROVE  WriterInv'
<1>1. PICK taken \in base..accepted : TakenOK(taken)
  BY DEF WriterInv
<1>2. PICK top, more : top = accepted /\ more = accepted' /\ top \in Nat /\ more \in Nat /\ top <= more
  BY WriterNumbers
<1>3. FilesOK(files, name, base, more, steady)
  <2>1. FilesOK(files, name, base, top, steady)
    BY <1>2 DEF WriterInv
  <2>2. ASSUME NEW s \in DOMAIN files
        PROVE  OrderedTo(files[s], IF s = name THEN more ELSE base)
    <3>1. files[s] \in Seq(Pieces) /\ OrderedTo(files[s], IF s = name THEN top ELSE base)
      BY <2>1 DEF FilesOK
    <3>2. CASE s = name
      BY <1>2, <3>1, <3>2, OrderedUpTo
    <3>3. CASE s # name
      BY <3>1, <3>3
    <3>4. QED
      BY <3>2, <3>3
  <2>3. QED
    BY <2>1, <2>2 DEF FilesOK
<1>4. ChannelOK(chan', taken, flush', mark', accepted')
  BY <1>1 DEF TakenOK
<1>5. ASSUME Linked
      PROVE  TextOK(files[name], buf, taken, flush', mark', base, failed, torn, stuck)
  BY <1>1, <1>5 DEF TakenOK, TextOK
<1>6. TakenOK(taken)'
  BY <1>4, <1>5 DEF TakenOK, Linked
<1>7. taken \in base'..accepted'
  BY <1>1, <1>2, WriterNumbers
<1>8. QED
  BY <1>2, <1>3, <1>6, <1>7 DEF WriterInv, HeldOK

\* One more command in the channel.
LEMMA HeldMore ==
  ASSUME WriterInv, NEW e \in Commands, Len(chan) < Capacity
  PROVE  HeldOK(Append(chan, e), buf)
<1>1. chan \in Seq(Commands) /\ buf \in Seq(Pieces)
  BY DEF WriterInv, HeldOK
<1>2. Append(chan, e) \in Seq(Commands) /\ Len(Append(chan, e)) = Len(chan) + 1
  BY <1>1, AppendProperties
<1>3. QED
  BY <1>1, <1>2, WriterNumbers DEF HeldOK

LEMMA TrySendKeeps == ASSUME WriterInv, TrySend PROVE WriterInv'
<1> PICK top, e : top = accepted /\ e = Write(top + 1)
  OBVIOUS
<1>1. /\ accepted' = top + 1 /\ accepted < MaxEntries /\ Len(chan) < Capacity
      /\ chan' = Append(chan, e)
      /\ UNCHANGED <<buf, files, name, due, flush, base, mark, failed, torn, stuck, steady, crashes>>
  BY DEF TrySend, history
<1>2. /\ top \in Nat /\ base \in Nat /\ base <= top /\ MaxEntries \in Nat
      /\ chan \in Seq(Commands)
  BY WriterNumbers DEF WriterInv, HeldOK
<1>3. e \in Commands /\ IsWrite(e) /\ e.n = top + 1
  <2>1. top + 1 \in 1..MaxEntries
    BY <1>1, <1>2
  <2>2. QED
    BY <2>1 DEF Commands, IsWrite, Write
<1>4. CountsOK'
  <2>1. accepted' \in 0..MaxEntries /\ base' \in 0..accepted'
    BY <1>1, <1>2
  <2>2. mark' \in [Flushers -> 0..accepted'] /\ failed' \subseteq (base' + 1)..accepted'
    <3>1. 0..top \subseteq 0..(top + 1) /\ (base + 1)..top \subseteq (base + 1)..(top + 1)
      BY <1>2
    <3>2. mark \in [Flushers -> 0..top] /\ failed \subseteq (base + 1)..top
      BY DEF WriterInv, CountsOK
    <3>3. QED
      BY <1>1, <3>1, <3>2
  <2>3. QED
    BY <1>1, <2>1, <2>2 DEF WriterInv, CountsOK
<1>5. ASSUME NEW taken \in base..top, ChannelOK(chan, taken, flush, mark, top)
      PROVE  ChannelOK(Append(chan, e), taken, flush, mark, top + 1)
  <2>1. taken \in Nat /\ taken <= top
    BY <1>2
  <2>2. QueueOK(Append(chan, e), taken, top + 1)
    BY <1>2, <1>3, <1>5, <2>1, QueueAppend DEF ChannelOK
  <2>3. ASSUME NEW f \in Flushers, flush[f] = "waiting"
        PROVE  BehindRequest(Append(chan, e), f, mark[f])
    <3>1. mark[f] \in 0..top /\ BehindRequest(chan, f, mark[f])
      BY <1>5, <2>3 DEF WriterInv, CountsOK, ChannelOK
    <3>2. e.n > mark[f]
      BY <1>2, <1>3, <3>1
    <3>3. QED
      BY <1>2, <3>1, <3>2, BehindAppend
  <2>4. QED
    BY <1>5, <2>2, <2>3 DEF ChannelOK
<1>6. HeldOK(chan', buf)
  BY <1>1, <1>3, HeldMore
<1>7. accepted <= accepted' /\ accepted' \in Nat
  BY <1>1, <1>2
<1>8. QED
  BY <1>1, <1>4, <1>5, <1>6, <1>7, QuietStep

\* A flush request or a compaction request.
LEMMA CommandKeeps ==
  ASSUME WriterInv, NEW e \in Commands, ~IsWrite(e), Len(chan) < Capacity,
         CountsOK', chan' = Append(chan, e),
         UNCHANGED <<buf, files, name, base, failed, torn, stuck, steady, accepted>>,
         \A f \in Flushers : /\ flush'[f] = "ok" => flush[f] = "ok" /\ mark'[f] = mark[f]
                             /\ flush'[f] = "waiting" =>
                                  \/ e = Flush(f)
                                  \/ flush[f] = "waiting" /\ mark'[f] = mark[f]
  PROVE  WriterInv'
<1> PICK top : top = accepted
  OBVIOUS
<1>1. top \in Nat /\ base \in Nat /\ base <= top /\ chan \in Seq(Commands)
  BY WriterNumbers DEF WriterInv, HeldOK
<1>2. ASSUME NEW taken \in base..top, ChannelOK(chan, taken, flush, mark, top)
      PROVE  ChannelOK(Append(chan, e), taken, flush', mark', top)
  <2>1. taken \in Nat /\ taken <= top
    BY <1>1
  <2>2. QueueOK(Append(chan, e), taken, top)
    BY <1>1, <1>2, <2>1, QueueAppend DEF ChannelOK
  <2>3. ASSUME NEW f \in Flushers, flush'[f] = "waiting"
        PROVE  BehindRequest(Append(chan, e), f, mark'[f])
    <3>1. CASE e = Flush(f)
      BY <1>1, <3>1, BehindAppend
    <3>2. CASE flush[f] = "waiting" /\ mark'[f] = mark[f]
      <4>1. BehindRequest(chan, f, mark'[f])
        BY <1>2, <3>2 DEF ChannelOK
      <4>2. QED
        BY <1>1, <4>1, BehindAppend
    <3>3. QED
      BY <2>3, <3>1, <3>2
  <2>4. QED
    BY <1>2, <2>2, <2>3 DEF ChannelOK
<1>3. HeldOK(chan', buf)
  BY HeldMore
<1>4. accepted <= accepted' /\ accepted' \in Nat
  BY <1>1
<1>5. QED
  BY <1>2, <1>3, <1>4, QuietStep

LEMMA RequestCompactionKeeps == ASSUME WriterInv, RequestCompaction PROVE WriterInv'
<1>1. Compaction \in Commands /\ ~IsWrite(Compaction)
  BY DEF Commands, Compaction, IsWrite
<1>2. CountsOK'
  BY DEF WriterInv, CountsOK, RequestCompaction, history
<1>3. QED
  BY <1>1, <1>2, CommandKeeps DEF RequestCompaction, history

LEMMA SendFlushKeeps ==
  ASSUME WriterInv, NEW f \in Flushers, SendFlush(f)
  PROVE  WriterInv'
<1>1. Flush(f) \in Commands /\ ~IsWrite(Flush(f))
  BY DEF Commands, Flush, IsWrite
<1>2. /\ flush' = [flush EXCEPT ![f] = "waiting"] /\ mark' = [mark EXCEPT ![f] = accepted]
      /\ flush \in [Flushers -> States] /\ mark \in [Flushers -> 0..accepted]
  BY DEF SendFlush, WriterInv, CountsOK
<1>3. CountsOK'
  <2>1. accepted \in 0..accepted
    BY WriterNumbers
  <2>2. mark' \in [Flushers -> 0..accepted] /\ flush' \in [Flushers -> States]
    BY <1>2, <2>1 DEF States
  <2>3. QED
    BY <2>2 DEF SendFlush, WriterInv, CountsOK
<1>4. \A g \in Flushers : /\ flush'[g] = "ok" => flush[g] = "ok" /\ mark'[g] = mark[g]
                          /\ flush'[g] = "waiting" =>
                               \/ Flush(f) = Flush(g)
                               \/ flush[g] = "waiting" /\ mark'[g] = mark[g]
  BY <1>2
<1>5. QED
  BY <1>1, <1>3, <1>4, CommandKeeps DEF SendFlush

\* Steps that touch neither the channel nor the buffer nor what a flush says.
LEMMA StayKeeps ==
  ASSUME WriterInv, CountsOK',
         UNCHANGED <<chan, buf, files, name, accepted, base, mark, failed, torn, stuck, steady>>,
         \A f \in Flushers : flush'[f] \in {"ok", "waiting"} => flush'[f] = flush[f]
  PROVE  WriterInv'
<1>1. \A taken \in base..accepted :
        ChannelOK(chan, taken, flush, mark, accepted) => ChannelOK(chan, taken, flush', mark, accepted)
  BY DEF ChannelOK
<1>2. accepted <= accepted' /\ accepted' \in Nat
  BY WriterNumbers
<1>3. HeldOK(chan', buf)
  BY DEF WriterInv
<1>4. QED
  BY <1>1, <1>2, <1>3, QuietStep

LEMMA RequestKeeps == ASSUME WriterInv, Request PROVE WriterInv'
<1>1. PICK f \in Flushers : RequestFlush(f) \/ SendFlush(f) \/ FlushTimeout(f)
  BY DEF Request
<1>2. CASE RequestFlush(f)
  BY <1>2, StayKeeps DEF RequestFlush, WriterInv, CountsOK, States, history
<1>3. CASE FlushTimeout(f)
  BY <1>3, StayKeeps DEF FlushTimeout, WriterInv, CountsOK, States, history
<1>4. QED
  BY <1>1, <1>2, <1>3, SendFlushKeeps

-----------------------------------------------------------------------------
(* The writer thread.                                                      *)

\* A step that gives the file the first p pieces of all, keeps the others in the
\* buffer and may remove files.
LEMMA WriterStep ==
  ASSUME WriterInv, CountsOK', NEW all \in Seq(Pieces), NEW p \in 0..Len(all),
         chan' \in Seq(Commands), Len(chan') <= Capacity,
         buf' = SubSeq(all, p + 1, Len(all)),
         DOMAIN files' \subseteq DOMAIN files,
         \A s \in DOMAIN files' : files'[s] = Flushed(SubSeq(all, 1, p))[s],
         UNCHANGED <<name, accepted, base, mark, torn, steady>>,
         NEW taken \in base..accepted, ChannelOK(chan', taken, flush', mark, accepted),
         Linked => /\ StreamOK(files[name] \o all, taken, base, failed', torn)
                   /\ LaterThan(all, base)
                   /\ \A f \in Flushers : flush'[f] = "ok" /\ ~stuck' =>
                        HoldsTo(files[name] \o SubSeq(all, 1, p), mark[f], base, failed', torn)
  PROVE  WriterInv'
<1> PICK top, q, r, gs, fs :
      /\ top = accepted /\ q = SubSeq(all, 1, p) /\ r = SubSeq(all, p + 1, Len(all))
      /\ gs = Flushed(q) /\ fs = files'
  OBVIOUS
<1>1. /\ top \in Nat /\ base \in Nat /\ base <= top /\ name \in Clock
      /\ FilesOK(files, name, base, top, steady)
  BY WriterNumbers DEF WriterInv, CountsOK
<1>2. q \in Seq(Pieces) /\ r \in Seq(Pieces)
  <2>1. <<>> \in Seq(Pieces)
    BY EmptySeq
  <2>2. QED
    BY <2>1, CutInTwo
<1>3. ASSUME Linked
      PROVE  /\ files[name] \in Seq(Pieces)
             /\ files[name] \o q \in Seq(Pieces) /\ (files[name] \o q) \o r = files[name] \o all
             /\ LaterThan(q, base) /\ LaterThan(r, base)
  <2>1. files[name] \in Seq(Pieces)
    BY <1>1, <1>3 DEF FilesOK, Linked
  <2>2. QED
    BY <1>3, <2>1, CutInTwo
<1>4. ASSUME Linked PROVE OrderedTo(files[name] \o q, top)
  <2>1. OrderedTo(files[name] \o all, taken)
    BY <1>4 DEF StreamOK
  <2>2. OrderedTo((files[name] \o q) \o r, taken)
    BY <1>3, <1>4, <2>1
  <2>3. OrderedTo(files[name] \o q, taken)
    BY <1>2, <1>3, <1>4, <2>2, OrderedPrefix
  <2>4. taken \in Nat /\ taken <= top
    BY <1>1
  <2>5. QED
    BY <1>1, <1>3, <1>4, <2>3, <2>4, OrderedUpTo
<1>5. /\ FilesOK(gs, name, base, top, steady) /\ DOMAIN gs = DOMAIN files
      /\ Linked => gs[name] = files[name] \o q
  BY <1>1, <1>2, <1>3, <1>4, FlushedKeeps
<1>6. FilesOK(fs, name, base, top, steady)
  BY <1>5, FewerFiles
<1>7. Linked' => Linked /\ fs[name] = files[name] \o q
  BY <1>5 DEF Linked
<1>8. ASSUME Linked'
      PROVE  TextOK(fs[name], r, taken, flush', mark, base, failed', torn, stuck')
  BY <1>3, <1>7, <1>8 DEF TextOK
<1>9. TakenOK(taken)'
  BY <1>8 DEF TakenOK
<1>10. HeldOK(chan', buf')
  BY <1>2 DEF HeldOK
<1>11. QED
  BY <1>6, <1>9, <1>10 DEF WriterInv, HeldOK

LEMMA HoldsLess ==
  ASSUME NEW text, NEW last \in Nat, NEW less \in Nat, less <= last, NEW first \in Nat,
         NEW bad, NEW part, HoldsTo(text, last, first, bad, part)
  PROVE  HoldsTo(text, less, first, bad, part)
<1>1. (first + 1)..less \subseteq (first + 1)..last
  OBVIOUS
<1>2. QED
  BY <1>1 DEF HoldsTo

\* What was there when requests were acknowledged, in a file that has taken the
\* buffer, and more.
LEMMA FlushedHolds ==
  ASSUME WriterInv, NEW taken \in base..accepted, TakenOK(taken), Linked,
         NEW more \in Seq(Pieces), NEW worse, failed \subseteq worse,
         NEW f \in Flushers, mark[f] <= taken
  PROVE  HoldsTo(files[name] \o (buf \o more), mark[f], base, worse, torn)
<1> PICK text, b, last, less :
      text = files[name] /\ b = buf /\ last = taken /\ less = mark[f]
  OBVIOUS
<1>1. text \in Seq(Pieces) /\ b \in Seq(Pieces)
  BY DEF WriterInv, HeldOK, FilesOK, Linked
<1>2. last \in Nat /\ less \in Nat /\ less <= last /\ base \in Nat
  BY WriterNumbers DEF WriterInv, CountsOK
<1>3. HoldsTo(text \o b, last, base, failed, torn)
  BY DEF TakenOK, TextOK, StreamOK
<1>4. HoldsTo(text \o b, less, base, failed, torn)
  BY <1>2, <1>3, HoldsLess
<1>5. text \o b \in Seq(Pieces)
  BY <1>1, ConcatProperties
<1>6. HoldsTo((text \o b) \o more, less, base, worse, torn)
  BY <1>4, <1>5, HoldsMore
<1>7. (text \o b) \o more = text \o (b \o more)
  BY <1>1, Regroup, Zenon
<1>8. QED
  BY <1>6, <1>7

LEMMA PrefixOf ==
  ASSUME NEW text \in Seq(Pieces), NEW more \in Seq(Pieces)
  PROVE  SubSeq(text \o more, 1, Len(text)) = text
<1>1. CASE Len(text) = 0
  <2>1. text = <<>> /\ SubSeq(text \o more, 1, Len(text)) = <<>>
    BY <1>1, EmptySeq, SubSeqEmpty
  <2>2. QED
    BY <2>1
<1>2. CASE Len(text) # 0
  <2>1. 1 \in 1..Len(text) /\ Len(text) \in 1..Len(text)
    BY <1>2, LenProperties
  <2>2. SubSeq(text \o more, 1, Len(text)) = SubSeq(text, 1, Len(text))
    BY <2>1, SubSeqOfConcat1
  <2>3. QED
    BY <2>2, SubSeqFull
<1>3. QED
  BY <1>1, <1>2

\* An entry is taken from the channel.
LEMMA EntryTaken ==
  ASSUME WriterInv, chan # <<>>, IsWrite(Head(chan)), NEW taken \in base..accepted, TakenOK(taken)
  PROVE  /\ Tail(chan) \in Seq(Commands) /\ Len(Tail(chan)) <= Capacity
         /\ Head(chan).n = taken + 1 /\ taken + 1 \in (base + 1)..accepted
         /\ taken + 1 \in 1..MaxEntries /\ taken + 1 \in base..accepted
         /\ ChannelOK(Tail(chan), taken + 1, flush, mark, accepted)
<1> PICK top, c : top = accepted /\ c = chan
  OBVIOUS
<1>1. /\ top \in Nat /\ base \in Nat /\ c \in Seq(Commands) /\ Len(c) <= Capacity
      /\ Len(c) \in Nat /\ Capacity \in Nat /\ taken \in Nat /\ base <= taken
      /\ top \in 0..MaxEntries /\ MaxEntries \in Nat /\ mark \in [Flushers -> 0..top]
  BY WriterNumbers DEF WriterInv, HeldOK, CountsOK
<1>2. ChannelOK(c, taken, flush, mark, top)
  BY DEF TakenOK
<1>3. Tail(c) \in Seq(Commands) /\ Len(Tail(c)) <= Capacity
  <2>1. Tail(c) \in Seq(Commands) /\ Len(Tail(c)) = Len(c) - 1
    BY <1>1, HeadTailProperties
  <2>2. QED
    BY <1>1, <2>1
<1>4. Head(c).n = taken + 1 /\ taken + 1 <= top /\ QueueOK(Tail(c), taken + 1, top)
  BY <1>1, <1>2, QueueTail DEF ChannelOK
<1>5. /\ taken + 1 \in (base + 1)..top /\ taken + 1 \in 1..MaxEntries /\ taken + 1 \in base..top
  BY <1>1, <1>4
<1>6. ASSUME NEW f \in Flushers
      PROVE  /\ flush[f] = "ok" => mark[f] <= taken + 1
             /\ flush[f] = "waiting" => BehindRequest(Tail(c), f, mark[f])
  <2>1. ASSUME flush[f] = "ok" PROVE mark[f] <= taken + 1
    <3>1. mark[f] \in 0..top /\ mark[f] <= taken
      BY <1>1, <1>2, <2>1 DEF ChannelOK
    <3>2. QED
      BY <1>1, <3>1
  <2>2. ASSUME flush[f] = "waiting" PROVE BehindRequest(Tail(c), f, mark[f])
    <3>1. BehindRequest(c, f, mark[f])
      BY <1>2, <2>2 DEF ChannelOK
    <3>2. QED
      BY <1>1, <3>1, BehindTail
  <2>3. QED
    BY <2>1, <2>2
<1>7. ChannelOK(Tail(c), taken + 1, flush, mark, top)
  BY <1>4, <1>6 DEF ChannelOK
<1>8. QED
  BY <1>3, <1>4, <1>5, <1>7

\* What the file and the buffer hold of an entry: all of its line, or less if its
\* write failed.
LEMMA EntryWritten ==
  ASSUME WriterInv, NEW taken \in base..accepted, TakenOK(taken), taken + 1 \in 1..MaxEntries
  PROVE  LET next == taken + 1
             text == buf \o Format(next)
             line == Append(text, Newline)
             worse == failed \cup {next}
         IN  /\ text \in Seq(Pieces) /\ line = text \o <<Newline>> /\ line \in Seq(Pieces)
             /\ Linked =>
                  /\ StreamOK(files[name] \o line, next, base, failed, torn)
                  /\ StreamOK(files[name] \o text, next, base, worse, torn)
                  /\ StreamOK(files[name] \o buf, next, base, worse, torn)
                  /\ LaterThan(line, base) /\ LaterThan(text, base) /\ LaterThan(buf, base)
<1>0. PICK next, f, b, text, worse :
      /\ next = taken + 1 /\ f = Format(next) /\ b = buf /\ text = b \o f
      /\ worse = failed \cup {next}
  OBVIOUS
<1>1. /\ b \in Seq(Pieces) /\ f \in Seq(Pieces) /\ <<Newline>> \in Seq(Pieces)
      /\ Newline \in Pieces
  BY <1>0, FormatPieces DEF WriterInv, HeldOK, Pieces
<1>2. text \in Seq(Pieces)
  BY <1>0, <1>1, ConcatProperties
<1>3. Append(text, Newline) = text \o <<Newline>> /\ text \o <<Newline>> \in Seq(Pieces)
  <2>1. text \o <<Newline>> \in Seq(Pieces)
    BY <1>1, <1>2, ConcatProperties
  <2>2. QED
    BY <1>1, <1>2, <2>1, AppendIsConcat
<1>4. ASSUME Linked
      PROVE  /\ StreamOK(files[name] \o (text \o <<Newline>>), next, base, failed, torn)
             /\ StreamOK(files[name] \o text, next, base, worse, torn)
             /\ StreamOK(files[name] \o b, next, base, worse, torn)
             /\ LaterThan(text \o <<Newline>>, base) /\ LaterThan(text, base)
             /\ LaterThan(b, base)
  <2>1. PICK fl : fl = files[name] /\ fl \in Seq(Pieces)
    BY <1>4 DEF WriterInv, FilesOK, Linked
  <2>2. StreamOK(fl \o b, taken, base, failed, torn) /\ LaterThan(b, base)
    BY <1>0, <1>4, <2>1 DEF TakenOK, TextOK
  <2>3. base \in Nat /\ taken \in Nat /\ base <= taken /\ base < next /\ next \in 1..MaxEntries
    BY <1>0, WriterNumbers
  <2>4. fl \o b \in Seq(Pieces)
    BY <1>1, <2>1, ConcatProperties
  <2>5. /\ StreamOK(((fl \o b) \o f) \o <<Newline>>, next, base, failed, torn)
        /\ StreamOK((fl \o b) \o f, next, base, worse, torn)
        /\ StreamOK(fl \o b, next, base, worse, torn)
    BY <1>0, <2>2, <2>3, <2>4, StreamNext
  <2>6. (fl \o b) \o f = fl \o text
    <3>1. (fl \o b) \o f = fl \o (b \o f)
      BY <1>1, <2>1, Regroup, Zenon
    <3>2. QED
      BY <1>0, <3>1
  <2>7. (fl \o text) \o <<Newline>> = fl \o (text \o <<Newline>>)
    BY <1>1, <1>2, <2>1, Regroup, Zenon
  <2>8. LaterThan(text, base) /\ LaterThan(text \o <<Newline>>, base)
    BY <1>0, <1>1, <2>2, <2>3, LaterWritten
  <2>9. QED
    BY <2>1, <2>2, <2>5, <2>6, <2>7, <2>8
<1>5. QED
  BY <1>0, <1>2, <1>3, <1>4

\* The file holds what requests were acknowledged for once it has taken the buffer.
LEMMA BufferTaken ==
  ASSUME WriterInv, NEW taken \in base..accepted, TakenOK(taken), Linked,
         taken + 1 \in 1..MaxEntries, NEW worse, failed \subseteq worse,
         NEW f \in Flushers, mark[f] <= taken, NEW got,
         LET text == buf \o Format(taken + 1)
         IN  got \in {buf, text, text \o <<Newline>>}
  PROVE  HoldsTo(files[name] \o got, mark[f], base, worse, torn)
<1> PICK b, g : b = buf /\ g = Format(taken + 1)
  OBVIOUS
<1>1. /\ b \in Seq(Pieces) /\ g \in Seq(Pieces) /\ <<Newline>> \in Seq(Pieces)
      /\ <<>> \in Seq(Pieces)
  BY FormatPieces, EmptySeq DEF WriterInv, HeldOK
<1>2. g \o <<Newline>> \in Seq(Pieces)
  BY <1>1, ConcatProperties
<1>3. b \o <<>> = b /\ (b \o g) \o <<Newline>> = b \o (g \o <<Newline>>)
  <2>1. b \o <<>> = b
    BY <1>1, ConcatEmptySeq
  <2>2. (b \o g) \o <<Newline>> = b \o (g \o <<Newline>>)
    BY <1>1, Regroup, Zenon
  <2>3. QED
    BY <2>1, <2>2
<1>4. PICK more \in Seq(Pieces) : got = b \o more
  BY <1>1, <1>2, <1>3
<1>5. HoldsTo(files[name] \o (buf \o more), mark[f], base, worse, torn)
  BY FlushedHolds
<1>6. QED
  BY <1>4, <1>5

\* The entry at the head of the channel, with what the disk lets the writer do.
LEMMA EntryStep ==
  ASSUME WriterInv, chan # <<>>, IsWrite(Head(chan)), chan' = Tail(chan),
         due' = FALSE, stuck' \in BOOLEAN,
         UNCHANGED <<name, flush, accepted, base, mark, torn, steady, crashes>>,
         NEW n, n = Head(chan).n, NEW text, text = buf \o Format(n),
         NEW line, line = Append(text, Newline),
         NEW all, NEW p \in 0..Len(all), Put(all, p),
         \/ all = line /\ failed' = failed
         \/ all \in {buf, text} /\ failed' = failed \cup {n},
         ~stuck' => \/ SubSeq(all, 1, p) \in {buf, text, line}
                    \/ all = line /\ p = 0 /\ stuck' = stuck
  PROVE  WriterInv'
<1>1. PICK taken \in base..accepted : TakenOK(taken)
  BY DEF WriterInv
<1> PICK next, c, fl : next = taken + 1 /\ c = Tail(chan) /\ fl = files[name]
  OBVIOUS
<1>2. /\ c \in Seq(Commands) /\ Len(c) <= Capacity /\ n = next
      /\ next \in (base + 1)..accepted /\ next \in 1..MaxEntries /\ next \in base..accepted
      /\ ChannelOK(c, next, flush, mark, accepted)
  BY <1>1, EntryTaken
<1>3. /\ text \in Seq(Pieces) /\ line = text \o <<Newline>> /\ line \in Seq(Pieces)
      /\ Linked =>
           /\ StreamOK(fl \o line, next, base, failed, torn)
           /\ StreamOK(fl \o text, next, base, failed \cup {next}, torn)
           /\ StreamOK(fl \o buf, next, base, failed \cup {next}, torn)
           /\ LaterThan(line, base) /\ LaterThan(text, base) /\ LaterThan(buf, base)
  BY <1>1, <1>2, EntryWritten
<1>4. all \in Seq(Pieces) /\ failed \subseteq failed'
  BY <1>3 DEF WriterInv, HeldOK
<1>5. Linked => StreamOK(fl \o all, next, base, failed', torn) /\ LaterThan(all, base)
  BY <1>2, <1>3
<1>6. CountsOK'
  <2>1. failed' \subseteq (base + 1)..accepted
    BY <1>2 DEF WriterInv, CountsOK
  <2>2. QED
    BY <2>1 DEF WriterInv, CountsOK
<1>7. ASSUME Linked, NEW f \in Flushers, flush[f] = "ok", ~stuck'
      PROVE  HoldsTo(fl \o SubSeq(all, 1, p), mark[f], base, failed', torn)
  <2>1. mark[f] <= taken
    BY <1>1, <1>7 DEF TakenOK, ChannelOK
  <2>2. CASE SubSeq(all, 1, p) \in {buf, text, line}
    BY <1>1, <1>2, <1>3, <1>4, <1>7, <2>1, <2>2, BufferTaken
  <2>3. CASE all = line /\ p = 0 /\ stuck' = stuck
    <3>1. SubSeq(all, 1, 0) = <<>>
      BY <1>4, SubSeqEmpty
    <3>2. fl \in Seq(Pieces)
      BY <1>7 DEF WriterInv, FilesOK, Linked
    <3>3. fl \o SubSeq(all, 1, p) = fl
      BY <2>3, <3>1, <3>2, ConcatEmptySeq
    <3>4. HoldsTo(fl, mark[f], base, failed, torn)
      BY <1>1, <1>7, <2>3 DEF TakenOK, TextOK
    <3>5. HoldsTo(fl, mark[f], base, failed', torn)
      BY <1>4, <3>4 DEF HoldsTo, ExcusedBy
    <3>6. QED
      BY <3>3, <3>5
  <2>4. QED
    BY <1>7, <2>2, <2>3
<1>8. /\ buf' = SubSeq(all, p + 1, Len(all)) /\ files' = Flushed(SubSeq(all, 1, p))
  BY DEF Put
<1>9. DOMAIN files' \subseteq DOMAIN files
  BY <1>8 DEF Flushed
<1>10. QED
  BY <1>2, <1>4, <1>5, <1>6, <1>7, <1>8, <1>9, WriterStep

LEMMA HandleWriteKeeps == ASSUME WriterInv, HandleWrite PROVE WriterInv'
<1> PICK n, text, line :
      n = Head(chan).n /\ text = buf \o Format(n) /\ line = Append(text, Newline)
  OBVIOUS
<1>1. PICK taken \in base..accepted : TakenOK(taken)
  BY DEF WriterInv
<1>2. /\ chan # <<>> /\ IsWrite(Head(chan)) /\ chan' = Tail(chan) /\ due' = FALSE
      /\ UNCHANGED <<name, flush, accepted, base, mark, torn, steady, crashes>>
  BY DEF HandleWrite
<1>3. n \in 1..MaxEntries /\ n = taken + 1
  BY <1>1, <1>2, EntryTaken
<1>4. /\ text \in Seq(Pieces) /\ line = text \o <<Newline>> /\ line \in Seq(Pieces)
      /\ buf \in Seq(Pieces) /\ Format(n) \in Seq(Pieces)
  BY <1>1, <1>3, EntryWritten, FormatPieces DEF WriterInv, HeldOK
<1>5. /\ Len(buf) \in Nat /\ Len(text) \in Nat /\ Len(line) \in Nat
      /\ Len(buf) <= Len(text) /\ Len(text) <= Len(line)
  <2>1. Len(text) = Len(buf) + Len(Format(n)) /\ Len(Format(n)) = 2
    BY <1>3, <1>4, FormatPieces, ConcatProperties
  <2>2. Len(line) = Len(text) + 1
    BY <1>4, AppendProperties DEF Pieces
  <2>3. QED
    BY <1>4, <2>1, <2>2, LenProperties
<1>6. SubSeq(line, 1, Len(text)) = text
  <2>1. <<Newline>> \in Seq(Pieces)
    BY <1>3, FormatPieces
  <2>2. QED
    BY <1>4, <2>1, PrefixOf
<1>7. SubSeq(line, 1, Len(buf)) = buf
  <2>1. Format(n) \o <<Newline>> \in Seq(Pieces) /\ <<Newline>> \in Seq(Pieces)
    BY <1>3, FormatPieces, ConcatProperties
  <2>2. line = buf \o (Format(n) \o <<Newline>>)
    <3>1. PICK f, nl : f = Format(n) /\ nl = <<Newline>>
      OBVIOUS
    <3>2. buf \in Seq(Pieces) /\ f \in Seq(Pieces) /\ nl \in Seq(Pieces)
      BY <1>4, <2>1, <3>1
    <3>3. (buf \o f) \o nl = buf \o (f \o nl)
      BY <3>2, ConcatAssociative
    <3>4. QED
      BY <1>4, <3>1, <3>3
  <2>3. QED
    BY <1>4, <2>1, <2>2, PrefixOf
<1>8. \A all \in {buf, text, line} :
        all \in Seq(Pieces) /\ Len(all) \in Nat /\ SubSeq(all, 1, Len(all)) = all
  BY <1>4, <1>5, SubSeqFull
<1>9. ASSUME NEW all \in {buf, text, line}, FlushNow(all),
             \/ all = line /\ failed' = failed
             \/ all \in {buf, text} /\ failed' = failed \cup {n}
      PROVE  WriterInv'
  <2>1. PICK p \in 0..Len(all) : Put(all, p) /\ stuck' = (p < Len(all))
    BY <1>9 DEF FlushNow
  <2>2. ~stuck' => SubSeq(all, 1, p) \in {buf, text, line}
    <3>1. ~(p < Len(all)) => p = Len(all)
      BY <1>8
    <3>2. QED
      BY <1>8, <2>1, <3>1, Zenon
  <2>3. stuck' \in BOOLEAN
    BY <2>1
  <2>4. QED
    BY <1>2, <1>9, <2>1, <2>2, <2>3, EntryStep
<1>10. CASE /\ failed' = failed
            /\ \/ FlushNow(line)
               \/ Put(line, 0) /\ UNCHANGED stuck
               \/ \E p \in {Len(buf), Len(text)} : Put(line, p) /\ stuck' = FALSE
  <2>1. CASE FlushNow(line)
    BY <1>9, <1>10, <2>1
  <2>2. CASE Put(line, 0) /\ UNCHANGED stuck
    <3>1. 0 \in 0..Len(line) /\ stuck' \in BOOLEAN
      BY <1>5, <2>2 DEF WriterInv, CountsOK
    <3>2. QED
      BY <1>2, <1>10, <2>2, <3>1, EntryStep
  <2>3. ASSUME NEW p \in {Len(buf), Len(text)}, Put(line, p), stuck' = FALSE
        PROVE  WriterInv'
    <3>1. p \in 0..Len(line)
      BY <1>5
    <3>2. SubSeq(line, 1, p) \in {buf, text, line}
      BY <1>6, <1>7, <2>3
    <3>3. QED
      BY <1>2, <1>10, <2>3, <3>1, <3>2, EntryStep
  <2>4. QED
    BY <1>10, <2>1, <2>2, <2>3
<1>11. CASE /\ failed' = failed \cup {n}
            /\ \E all \in {buf, text} :
                 \/ FlushNow(all)
                 \/ \E p \in 0..(Len(all) - 1) : Put(all, p) /\ stuck' = TRUE
  <2>1. ASSUME NEW all \in {buf, text}, NEW p \in 0..(Len(all) - 1), Put(all, p), stuck' = TRUE
        PROVE  WriterInv'
    <3>1. p \in 0..Len(all) /\ stuck' \in BOOLEAN
      BY <1>8, <2>1
    <3>2. QED
      BY <1>2, <1>11, <2>1, <3>1, EntryStep
  <2>2. QED
    BY <1>9, <1>11, <2>1
<1>12. QED
  BY <1>10, <1>11 DEF HandleWrite

\* The buffer, or as much of it as the disk takes, goes to the file.
LEMMA BufferStep ==
  ASSUME WriterInv, CountsOK', NEW taken \in base..accepted, TakenOK(taken),
         UNCHANGED <<name, accepted, base, mark, failed, torn, steady>>,
         chan' \in Seq(Commands), Len(chan') <= Capacity,
         ChannelOK(chan', taken, flush', mark, accepted),
         NEW p \in 0..Len(buf), buf' = SubSeq(buf, p + 1, Len(buf)), stuck' = (p < Len(buf)),
         DOMAIN files' \subseteq DOMAIN files,
         \A s \in DOMAIN files' : files'[s] = Flushed(SubSeq(buf, 1, p))[s]
  PROVE  WriterInv'
<1> PICK b, fl : b = buf /\ fl = files[name]
  OBVIOUS
<1>1. b \in Seq(Pieces) /\ <<>> \in Seq(Pieces)
  BY EmptySeq DEF WriterInv, HeldOK
<1>2. Linked => StreamOK(fl \o b, taken, base, failed, torn) /\ LaterThan(b, base)
  BY DEF TakenOK, TextOK
<1>3. ASSUME Linked, NEW f \in Flushers, flush'[f] = "ok", ~stuck'
      PROVE  HoldsTo(fl \o SubSeq(b, 1, p), mark[f], base, failed, torn)
  <2>1. mark[f] <= taken
    BY <1>3 DEF ChannelOK
  <2>2. p = Len(b)
    <3>1. Len(b) \in Nat
      BY <1>1, LenProperties
    <3>2. ~(p < Len(b))
      BY <1>3
    <3>3. QED
      BY <3>1, <3>2
  <2>3. SubSeq(b, 1, p) = b
    BY <1>1, <2>2, SubSeqFull
  <2>4. HoldsTo(files[name] \o (buf \o <<>>), mark[f], base, failed, torn)
    BY <1>1, <1>3, <2>1, FlushedHolds
  <2>5. buf \o <<>> = b
    BY <1>1, ConcatEmptySeq
  <2>6. QED
    BY <2>3, <2>4, <2>5
<1>4. QED
  BY <1>1, <1>2, <1>3, WriterStep

LEMMA ShorterChannel ==
  ASSUME WriterInv, chan # <<>>
  PROVE  Tail(chan) \in Seq(Commands) /\ Len(Tail(chan)) <= Capacity
<1>1. chan \in Seq(Commands) /\ Len(chan) <= Capacity
  BY DEF WriterInv, HeldOK
<1>2. Tail(chan) \in Seq(Commands) /\ Len(Tail(chan)) = Len(chan) - 1 /\ Len(chan) \in Nat
  BY <1>1, HeadTailProperties, LenProperties
<1>3. QED
  BY <1>1, <1>2, WriterNumbers

\* All that was accepted before a request at the head of the channel is taken.
LEMMA OrderAcknowledged ==
  ASSUME WriterInv, NEW taken \in base..accepted, TakenOK(taken), NEW f \in Flushers,
         chan # <<>>, Head(chan) = Flush(f), flush[f] = "waiting",
         \A i \in 2..Len(chan) : chan[i] # Flush(f)
  PROVE  mark[f] <= taken
<1> PICK c, m, top : c = chan /\ m = mark[f] /\ top = accepted
  OBVIOUS
<1>1. /\ c \in Seq(Commands) /\ top \in Nat /\ taken \in Nat /\ m \in Nat /\ m <= top
  BY WriterNumbers DEF WriterInv, HeldOK, CountsOK
<1>2. QueueOK(c, taken, top) /\ BehindRequest(c, f, m)
  BY DEF TakenOK, ChannelOK
<1>3. DOMAIN c = 1..Len(c) /\ Len(c) \in Nat /\ 1 \in DOMAIN c /\ c[1] = Flush(f)
  BY <1>1
<1>4. \A k \in DOMAIN c : k > 1 => c[k] # Flush(f)
  BY <1>3
<1>5. \A k \in WritesOf(c) : k > 1
  <2>1. ~IsWrite(c[1])
    BY <1>3 DEF IsWrite, Flush
  <2>2. QED
    BY <1>3, <2>1 DEF WritesOf
<1>6. \A k \in WritesOf(c) : c[k].n > m
  BY <1>2, <1>3, <1>4, <1>5 DEF BehindRequest
<1>7. SUFFICES ASSUME m > taken PROVE FALSE
  BY <1>1
<1>8. m \in (taken + 1)..top
  BY <1>1, <1>7
<1>9. PICK k \in WritesOf(c) : c[k].n = m
  BY <1>2, <1>8 DEF QueueOK
<1>10. m > m
  BY <1>6, <1>9
<1>11. QED
  BY <1>1, <1>10

\* A request is taken from the channel.
LEMMA RequestTaken ==
  ASSUME WriterInv, NEW taken \in base..accepted, TakenOK(taken), chan # <<>>,
         ~IsWrite(Head(chan)),
         \A f \in Flushers : flush'[f] # flush[f] => flush'[f] = "ok" /\ mark[f] <= taken
  PROVE  ChannelOK(Tail(chan), taken, flush', mark, accepted)
<1> PICK c, top : c = chan /\ top = accepted
  OBVIOUS
<1>1. c \in Seq(Commands) /\ top \in Nat /\ taken \in Nat
  BY WriterNumbers DEF WriterInv, HeldOK
<1>2. QueueOK(Tail(c), taken, top)
  BY <1>1, QueueTail DEF TakenOK, ChannelOK
<1>3. ASSUME NEW f \in Flushers, flush'[f] = "ok" PROVE mark[f] <= taken
  BY <1>3 DEF TakenOK, ChannelOK
<1>4. ASSUME NEW f \in Flushers, flush'[f] = "waiting" PROVE BehindRequest(Tail(c), f, mark[f])
  <2>1. BehindRequest(c, f, mark[f])
    BY <1>4 DEF TakenOK, ChannelOK
  <2>2. QED
    BY <1>1, <2>1, BehindTail
<1>5. QED
  BY <1>2, <1>3, <1>4 DEF ChannelOK

LEMMA HandleFlushKeeps == ASSUME WriterInv, HandleFlush PROVE WriterInv'
<1>1. PICK taken \in base..accepted : TakenOK(taken)
  BY DEF WriterInv
<1>2. PICK p \in 0..Len(buf) : Put(buf, p) /\ stuck' = (p < Len(buf))
  BY DEF HandleFlush, FlushNow
<1>3. PICK f \in Flushers : Head(chan) = Flush(f)
  <2>1. chan \in Seq(Commands) /\ chan # <<>>
    BY DEF WriterInv, HeldOK, HandleFlush
  <2>2. Head(chan) \in Commands /\ Head(chan).cmd = "Flush"
    BY <2>1, HeadTailProperties DEF HandleFlush
  <2>3. QED
    BY <2>2 DEF Commands, Write, Flush, Compaction
<1>4. /\ chan # <<>> /\ chan' = Tail(chan) /\ due' = FALSE /\ Acknowledge(f)
      /\ UNCHANGED <<name, accepted, base, mark, failed, torn, steady, crashes>>
      /\ ~IsWrite(Head(chan))
  BY <1>3 DEF HandleFlush, history, Flush, IsWrite
<1>5. flush \in [Flushers -> States]
  BY DEF WriterInv, CountsOK
<1>6. ASSUME NEW g \in Flushers, flush'[g] # flush[g]
      PROVE  flush'[g] = "ok" /\ mark[g] <= taken
  <2>1. flush[f] = "waiting" /\ \A i \in 2..Len(chan) : chan[i] # Flush(f)
    BY <1>4, <1>6 DEF Acknowledge
  <2>2. g = f /\ flush'[g] = "ok"
    BY <1>4, <1>5, <1>6, <2>1 DEF Acknowledge
  <2>3. mark[f] <= taken
    BY <1>1, <1>3, <1>4, <2>1, OrderAcknowledged
  <2>4. QED
    BY <2>2, <2>3
<1>7. CountsOK'
  <2>1. flush' \in [Flushers -> States]
    BY <1>4, <1>5 DEF Acknowledge, States
  <2>2. stuck' \in BOOLEAN
    BY <1>2
  <2>3. QED
    BY <1>4, <2>1, <2>2 DEF WriterInv, CountsOK
<1>8. ChannelOK(chan', taken, flush', mark, accepted)
  BY <1>1, <1>4, <1>6, RequestTaken
<1>9. chan' \in Seq(Commands) /\ Len(chan') <= Capacity
  BY <1>4, ShorterChannel
<1>10. /\ buf' = SubSeq(buf, p + 1, Len(buf)) /\ files' = Flushed(SubSeq(buf, 1, p))
       /\ DOMAIN files' \subseteq DOMAIN files
  BY <1>2 DEF Put, Flushed
<1>11. QED
  BY <1>1, <1>2, <1>4, <1>7, <1>8, <1>9, <1>10, BufferStep

\* A flush and a compaction, with a channel that is as it should be.
LEMMA CompactionStep ==
  ASSUME WriterInv, FlushAndCompact, CountsOK',
         NEW taken \in base..accepted, TakenOK(taken),
         UNCHANGED <<name, flush, accepted, base, mark, failed, torn, steady>>,
         chan' \in Seq(Commands), Len(chan') <= Capacity,
         ChannelOK(chan', taken, flush, mark, accepted)
  PROVE  WriterInv'
<1>1. PICK p \in 0..Len(buf), kept \in SUBSET DOMAIN files :
        /\ buf' = SubSeq(buf, p + 1, Len(buf)) /\ stuck' = (p < Len(buf))
        /\ files' = [s \in kept |-> Flushed(SubSeq(buf, 1, p))[s]]
  BY DEF FlushAndCompact
<1>2. DOMAIN files' \subseteq DOMAIN files
  BY <1>1
<1>3. \A s \in DOMAIN files' : files'[s] = Flushed(SubSeq(buf, 1, p))[s]
  BY <1>1
<1>4. QED
  BY <1>1, <1>2, <1>3, BufferStep

LEMMA HandleCompactionKeeps == ASSUME WriterInv, HandleCompaction PROVE WriterInv'
<1>1. PICK taken \in base..accepted : TakenOK(taken)
  BY DEF WriterInv
<1>2. /\ chan # <<>> /\ chan' = Tail(chan) /\ FlushAndCompact /\ ~IsWrite(Head(chan))
      /\ UNCHANGED <<name, due, flush, accepted, base, mark, failed, torn, steady, crashes>>
  BY DEF HandleCompaction, history, IsWrite
<1>3. CountsOK'
  <2>1. stuck' \in BOOLEAN
    BY <1>2 DEF FlushAndCompact
  <2>2. QED
    BY <1>2, <2>1 DEF WriterInv, CountsOK
<1>4. ChannelOK(Tail(chan), taken, flush', mark, accepted)
  BY <1>1, <1>2, RequestTaken
<1>5. chan' \in Seq(Commands) /\ Len(chan') <= Capacity
  BY <1>2, ShorterChannel
<1>6. QED
  BY <1>1, <1>2, <1>3, <1>4, <1>5, CompactionStep

LEMMA IdleKeeps == ASSUME WriterInv, Idle PROVE WriterInv'
<1>1. PICK taken \in base..accepted : TakenOK(taken)
  BY DEF WriterInv
<1>2. /\ due' = FALSE /\ UNCHANGED <<chan, name, flush, accepted, base, mark, failed, torn,
                                     steady, crashes>>
      /\ FlushNow(buf) \/ FlushAndCompact
  BY DEF Idle, history
<1>3. CountsOK'
  <2>1. stuck' \in BOOLEAN
    <3>1. (\E p \in 0..Len(buf) : stuck' = (p < Len(buf))) => stuck' \in BOOLEAN
      OBVIOUS
    <3>2. FlushNow(buf) => \E p \in 0..Len(buf) : stuck' = (p < Len(buf))
      BY DEF FlushNow
    <3>3. FlushAndCompact => \E p \in 0..Len(buf) : stuck' = (p < Len(buf))
      BY DEF FlushAndCompact
    <3>4. QED
      BY <1>2, <3>1, <3>2, <3>3
  <2>2. QED
    BY <1>2, <2>1 DEF WriterInv, CountsOK
<1>4. /\ chan' \in Seq(Commands) /\ Len(chan') <= Capacity
      /\ ChannelOK(chan', taken, flush, mark, accepted)
  BY <1>1, <1>2 DEF WriterInv, HeldOK, TakenOK
<1>5. CASE FlushNow(buf)
  <2>1. PICK p \in 0..Len(buf) : Put(buf, p) /\ stuck' = (p < Len(buf))
    BY <1>5 DEF FlushNow
  <2>2. /\ buf' = SubSeq(buf, p + 1, Len(buf)) /\ files' = Flushed(SubSeq(buf, 1, p))
        /\ DOMAIN files' \subseteq DOMAIN files
    BY <2>1 DEF Put, Flushed
  <2>3. flush' = flush
    BY <1>2
  <2>4. QED
    BY <1>1, <1>2, <1>3, <1>4, <2>1, <2>2, <2>3, BufferStep
<1>6. CASE FlushAndCompact
  BY <1>1, <1>2, <1>3, <1>4, <1>6, CompactionStep
<1>7. QED
  BY <1>2, <1>5, <1>6

LEMMA WriterInvariant == JournalSpec => []WriterInv
<1>1. JournalInit => WriterInv
  BY WriterStarts
<1>2. WriterInv /\ [JournalNext]_journalVars => WriterInv'
  <2>1. SUFFICES ASSUME WriterInv, [JournalNext]_journalVars PROVE WriterInv'
    OBVIOUS
  <2>2. CASE Writer
    BY <2>1, <2>2, HandleWriteKeeps, HandleFlushKeeps, HandleCompactionKeeps, IdleKeeps
       DEF Writer
  <2>3. CASE FlushInterval
    BY <2>1, <2>3, StayKeeps DEF FlushInterval, WriterInv, CountsOK, history
  <2>4. CASE UNCHANGED journalVars
    <3>1. CountsOK'
      BY <2>1, <2>4 DEF WriterInv, CountsOK, journalVars
    <3>2. QED
      BY <2>1, <2>4, <3>1, StayKeeps DEF journalVars
  <2>5. QED
    BY <2>1, <2>2, <2>3, <2>4, TrySendKeeps, RequestKeeps, RequestCompactionKeeps, RestartKeeps
       DEF JournalNext
<1>3. QED
  BY <1>1, <1>2, PTL DEF JournalSpec

-----------------------------------------------------------------------------
(* What the invariant says of a reader.                                    *)

LEMMA FoundIsHead ==
  ASSUME NEW text, NEW i \in Found(text) PROVE i \in Heads(text)
BY DEF Found, Understood, Heads

LEMMA OrderedAscends ==
  ASSUME NEW text, NEW top, OrderedTo(text, top)
  PROVE  Ascending(text) /\ \A n \in Entries(text) : n <= top
BY FoundIsHead DEF OrderedTo, Ascending, Entries

LEMMA WriterSkipsNothing == ASSUME WriterInv PROVE NothingSkipped
<1>1. PICK taken \in base..accepted : TakenOK(taken)
  BY DEF WriterInv
<1>2. Queued(taken)
  BY <1>1 DEF TakenOK, ChannelOK, QueueOK, Queued, Writes, WritesOf
<1>3. ASSUME Linked
      PROVE  /\ Holds(files[name] \o buf, taken) /\ Ascending(files[name] \o buf)
             /\ \A n \in Entries(files[name] \o buf) : n <= taken
  <2>1. StreamOK(files[name] \o buf, taken, base, failed, torn)
    BY <1>1, <1>3 DEF TakenOK, TextOK
  <2>2. QED
    BY <2>1, OrderedAscends DEF StreamOK, HoldsTo, Holds, ExcusedBy, Excused
<1>4. ReplayInOrder
  <2>1. FilesOK(files, name, base, accepted, steady)
    BY DEF WriterInv
  <2>2. ASSUME NEW s \in DOMAIN files PROVE Ascending(files[s])
    <3>1. OrderedTo(files[s], IF s = name THEN accepted ELSE base)
      BY <2>1 DEF FilesOK
    <3>2. QED
      BY <3>1, OrderedAscends
  <2>3. ASSUME steady, NEW s \in DOMAIN files, NEW t \in DOMAIN files, s < t,
               NEW m \in Entries(files[s]), NEW n \in Entries(files[t])
        PROVE  m < n
    <3>1. Before(files[s], files[t])
      BY <2>1, <2>3 DEF FilesOK
    <3>2. PICK i \in Found(files[s]) : m = files[s][i].n
      BY DEF Entries
    <3>3. PICK j \in Found(files[t]) : n = files[t][j].n
      BY DEF Entries
    <3>4. i \in Heads(files[s]) /\ j \in Heads(files[t])
      BY FoundIsHead
    <3>5. QED
      BY <3>1, <3>2, <3>3, <3>4 DEF Before
  <2>4. QED
    BY <2>2, <2>3 DEF ReplayInOrder
<1>5. QED
  BY <1>2, <1>3, <1>4 DEF NothingSkipped

LEMMA WriterFlushes == ASSUME WriterInv PROVE FlushIsDurable
<1>1. PICK taken \in base..accepted : TakenOK(taken)
  BY DEF WriterInv
<1>2. ASSUME NEW f \in Flushers, flush[f] = "ok", Linked, ~stuck
      PROVE  Holds(files[name], mark[f])
  <2>1. HoldsTo(files[name], mark[f], base, failed, torn)
    BY <1>1, <1>2 DEF TakenOK, TextOK
  <2>2. QED
    BY <2>1 DEF HoldsTo, Holds, ExcusedBy, Excused
<1>3. QED
  BY <1>2 DEF FlushIsDurable

(* JournalWriter::run, while its file has a name: every entry the process  *)
(* accepted is queued or found in the file and the buffer, in order, but   *)
(* for one whose write failed, the one after it and the one after a line   *)
(* left without an end; a disk that refuses writes at any time, crashes,   *)
(* compaction and time-outs skip nothing else.  Replay is in the order of  *)
(* acceptance, across processes unless a clock was set back.               *)
THEOREM WriterKeepsOrder == JournalSpec => []NothingSkipped
BY WriterInvariant, WriterSkipsNothing, PTL

(* JournalHandle::flush_sync and FlushJournal: what was accepted before an *)
(* acknowledged flush is in the file as soon as the writer's last flush    *)
(* did not fail, with the same exceptions.                                 *)
THEOREM FlushesHold == JournalSpec => []FlushIsDurable
BY WriterInvariant, WriterFlushes, PTL

\* The journal's state is of its type, whatever the disk refuses.
THEOREM WriterTypes == JournalSpec => []JournalTypeOK
BY WriterInvariant, WriterTyped, PTL

-----------------------------------------------------------------------------
(* One asset's orders across crashes.                                      *)

\* The journal's entries that are true of this state: of no later process, and,
\* where they say Submitted and hold no other's text, backed by an acknowledged
\* order and a key, unless its line was lost.
TrueEntries == {e \in JournalEntries :
  /\ e.intent[1] <= cur[1]
  /\ e.status = "Submitted" /\ e.intent \notin glued =>
       e.intent \in acked /\ Id(e.intent) \in file \cup lost}

\* Those of earlier processes.
OldEntries == {e \in TrueEntries : e.intent[1] < cur[1]}

(* The journal, wherever its entries are, says nothing that is not so.     *)
JournalInv == /\ disk \in Seq(TrueEntries) /\ unsaved \in Seq(TrueEntries)
              /\ replay \in Seq(OldEntries)

\* The id of an order that was acknowledged, or that an earlier process's record,
\* with another's text on its line, speaks of.
Placed(id) ==
  \E i \in acked \cup glued : Id(i) = id /\ (i \in acked \/ i[1] < cur[1])

(* Keys are marked after their order is acknowledged, and the running      *)
(* process numbers its intents upward: the one in hand, before its order   *)
(* is acknowledged, is newer than all that were.                           *)
PlacedInv ==
  /\ \A id \in stored \cup file \cup {tail.key} : id = Garbled \/ Placed(id)
  /\ pc \in {"mark", "submitted"} => cur \in acked
  /\ pc = "submitted" => Id(cur) \in file \cup lost
  /\ \A j \in acked :
       /\ j[1] <= cur[1]
       /\ j[1] = cur[1] => /\ j[2] <= cur[2]
                           /\ pc \in {"dedup", "pending", "submit"} => j[2] < cur[2]
  /\ RefusedAcrossProcesses

RecoveryInv == TypeOK /\ JournalInv /\ PlacedInv

USE RecoveryAssumption

-----------------------------------------------------------------------------
(* Intents are triples, and their ids pairs, of numbers.                   *)
LEMMA IntentParts ==
  ASSUME NEW i \in AllIntents
  PROVE  /\ i[1] \in Processes /\ i[2] \in 1..MaxIntents /\ i[3] \in 1..MaxTrace
         /\ Id(i) \in Ids
         /\ i = <<i[1], i[2], i[3]>>
         /\ Id(i) # Garbled
BY DEF AllIntents, Id, Ids, Garbled

(* The first n elements of a sequence and the others are sequences over    *)
(* the same set.                                                           *)
LEMMA SplitSeq ==
  ASSUME NEW S, NEW s \in Seq(S), NEW n \in 1..Len(s)
  PROVE  SubSeq(s, 1, n) \in Seq(S) /\ SubSeq(s, n + 1, Len(s)) \in Seq(S)
<1>1. Len(s) \in Nat /\ \A i \in 1..Len(s) : s[i] \in S
  BY ElementOfSeq, LenProperties
<1>2. SubSeq(s, 1, n) \in Seq(S)
  BY <1>1, SubSeqProperties
<1>3. SubSeq(s, n + 1, Len(s)) \in Seq(S)
  BY <1>1, SubSeqProperties
<1>4. QED
  BY <1>2, <1>3

(* A tried write appends an entry or does nothing.                         *)
LEMMA TryWriteKeeps ==
  ASSUME NEW S, unsaved \in Seq(S), NEW i, NEW status,
         [intent |-> i, status |-> status] \in S, TryWrite(i, status)
  PROVE  unsaved' \in Seq(S)
BY DEF TryWrite

(* Saving moves a prefix of the unsaved entries behind those on disk.      *)
LEMMA SaveKeeps ==
  ASSUME NEW S, disk \in Seq(S), unsaved \in Seq(S), Save
  PROVE  disk' \in Seq(S) /\ unsaved' \in Seq(S)
<1>1. PICK n \in 1..Len(unsaved) : /\ disk' = disk \o SubSeq(unsaved, 1, n)
                                   /\ unsaved' = SubSeq(unsaved, n + 1, Len(unsaved))
  BY DEF Save
<1>2. SubSeq(unsaved, 1, n) \in Seq(S) /\ SubSeq(unsaved, n + 1, Len(unsaved)) \in Seq(S)
  BY SplitSeq
<1>3. QED
  BY <1>1, <1>2, ConcatProperties

(* What stands behind a line takes its status.                             *)
LEMMA GluedKeeps ==
  ASSUME NEW S, disk \in Seq(S), unsaved \in Seq(S), SaveGlued,
         \A e, d \in S : e.intent \in glued' => [e EXCEPT !.status = d.status] \in S
  PROVE  disk' \in Seq(S) /\ unsaved' \in Seq(S)
<1>1. PICK k \in DOMAIN disk :
        /\ disk' = [disk EXCEPT ![k].status = Head(unsaved).status]
        /\ glued' = glued \cup {disk[k].intent}
  BY DEF SaveGlued, LastOnes
<1>2. unsaved # <<>> /\ unsaved' = Tail(unsaved)
  BY DEF SaveGlued
<1>3. Head(unsaved) \in S /\ unsaved' \in Seq(S)
  BY <1>2, HeadTailProperties
<1>4. DOMAIN disk = 1..Len(disk) /\ disk[k] \in S
  BY <1>1, LenProperties, ElementOfSeq
<1>5. [disk[k] EXCEPT !.status = Head(unsaved).status] \in S
  BY <1>1, <1>3, <1>4
<1>6. disk' \in Seq(S)
  BY <1>1, <1>4, <1>5, ExceptSeq
<1>7. QED
  BY <1>3, <1>6

(* Replay reads entries that are on disk.                                  *)
LEMMA RereadEntries ==
  ASSUME NEW S, disk \in Seq(S), NEW again \in Reread
  PROVE  again \in Seq(S)
<1>1. PICK at \in [DOMAIN disk -> DOMAIN disk] : again = [n \in DOMAIN disk |-> disk[at[n]]]
  BY DEF Reread
<1>2. DOMAIN disk = 1..Len(disk) /\ Len(disk) \in Nat
  BY LenProperties
<1>3. \A n \in 1..Len(disk) : disk[at[n]] \in S
  BY <1>2, ElementOfSeq
<1>4. again \in [1..Len(disk) -> S]
  BY <1>1, <1>2, <1>3
<1>5. QED
  BY <1>2, <1>4, SeqDef

(* A line appended, or a part of it: its key is in the file unless it is   *)
(* lost, and nothing else comes into the file but the key before it.       *)
LEMMA AppendKeeps ==
  ASSUME TypeOK, NEW id \in Ids, id # Garbled, AppendToDisk(id)
  PROVE  /\ file \subseteq file' /\ lost \subseteq lost' /\ id \in file' \cup lost'
         /\ file' \subseteq file \cup ({id, tail.key} \ {Garbled})
         /\ tail'.key \in {id, tail.key, Garbled}
         /\ file' \subseteq Ids /\ lost' \subseteq Ids
         /\ tail' \in [key : Ids \cup {Garbled}, parts : 0..3]
<1>1. PICK n \in 0..4 : AppendParts(id, n)
  BY DEF AppendToDisk
<1>2. /\ file \subseteq Ids /\ lost \subseteq Ids
      /\ tail \in [key : Ids \cup {Garbled}, parts : 0..3]
  BY DEF TypeOK
<1>3. PICK key, have :
        /\ key = IF tail.parts = 0 THEN id ELSE IF tail.parts = 1 THEN Garbled ELSE tail.key
        /\ have = IF tail.parts <= 1 \/ n = 4 THEN n ELSE 3
  OBVIOUS
<1>4. /\ key \in {id, tail.key, Garbled} /\ key \in Ids \cup {Garbled}
      /\ have \in 0..4 /\ (n # 4 => have \in 0..3)
      /\ tail.parts = 0 /\ n >= 3 => key = id /\ have >= 3 /\ n > 0
  BY <1>2, <1>3
<1>5. /\ tail' = IF n = 0 THEN tail
                 ELSE IF n = 4 THEN [key |-> Garbled, parts |-> 0]
                 ELSE [key |-> key, parts |-> have]
      /\ file' = IF n > 0 /\ have >= 3 THEN file \cup ({key} \ {Garbled}) ELSE file
      /\ lost' = IF tail.parts = 0 /\ n >= 3 THEN lost ELSE lost \cup {id}
  BY <1>1, <1>3 DEF AppendParts
<1>6. tail' \in [key : Ids \cup {Garbled}, parts : 0..3] /\ tail'.key \in {id, tail.key, Garbled}
  BY <1>2, <1>4, <1>5
<1>7. /\ file \subseteq file' /\ file' \subseteq file \cup ({id, tail.key} \ {Garbled})
      /\ file' \subseteq Ids
  BY <1>2, <1>4, <1>5
<1>8. lost \subseteq lost' /\ lost' \subseteq Ids /\ id \in file' \cup lost'
  BY <1>2, <1>4, <1>5
<1>9. QED
  BY <1>6, <1>7, <1>8

(* Ordering more of an intent keeps the count of orders a function.        *)
LEMMA OrderKeeps ==
  ASSUME orders \in [AllIntents -> Nat], NEW i \in AllIntents, NEW n \in Nat, Order(i, n)
  PROVE  /\ orders' \in [AllIntents -> Nat]
         /\ \A j \in AllIntents : j # i => orders'[j] = orders[j]
BY DEF Order

-----------------------------------------------------------------------------
(* The entry a replay handles is one of the journal's.                     *)
LEMMA EntryKnown ==
  ASSUME NEW S, replay \in Seq(S), Known
  PROVE  Entry \in S /\ (replay' = Tail(replay) => replay' \in Seq(S))
BY HeadTailProperties DEF Known, Entry

(* Marking a key as processed.                                             *)
LEMMA MarkTypes ==
  ASSUME TypeOK, NEW id \in Ids, id # Garbled, Mark(id)
  PROVE  /\ stored' \subseteq Ids /\ file' \subseteq Ids /\ lost' \subseteq Ids
         /\ tail' \in [key : Ids \cup {Garbled}, parts : 0..3]
<1>1. AppendToDisk(id) /\ stored' = stored \cup {id} /\ stored \subseteq Ids
  BY DEF Mark, TypeOK
<1>2. QED
  BY <1>1, AppendKeeps

LEMMA TypeStep ==
  ASSUME TypeOK, [Next]_vars PROVE TypeOK'
<1> USE DEF TypeOK, keys, records
<1>1. CASE Decide /\ UNCHANGED named
  <2>1. PICK t \in cur[3]..MaxTrace : cur' = <<cur[1], cur[2] + 1, t>>
    BY <1>1 DEF Decide
  <2>2. cur' \in AllIntents /\ cur' \in Processes \X (0..MaxIntents) \X (1..MaxTrace)
    BY <1>1, <2>1 DEF Decide, AllIntents
  <2>3. QED
    BY <1>1, <2>2 DEF Decide
<1>2. CASE (Dedup \/ MarkProcessed) /\ UNCHANGED named
  <2>1. cur \in AllIntents /\ Id(cur) \in Ids /\ Id(cur) # Garbled
    BY <1>2, IntentParts DEF Dedup, IsProcessed, MarkProcessed
  <2>2. CASE Dedup
    BY <1>2, <2>1, <2>2 DEF Dedup, IsProcessed
  <2>3. CASE MarkProcessed
    BY <1>2, <2>1, <2>3, MarkTypes DEF MarkProcessed
  <2>4. QED
    BY <1>2, <2>2, <2>3
<1>3. CASE (WritePending \/ WriteSubmitted) /\ UNCHANGED named
  <2>1. PICK status \in Statuses : TryWrite(cur, status) /\ cur \in AllIntents
    BY <1>3 DEF WritePending, WriteSubmitted, Statuses
  <2>2. unsaved' \in Seq(JournalEntries)
    BY <2>1, TryWriteKeeps DEF JournalEntries
  <2>3. QED
    BY <1>3, <2>2 DEF WritePending, WriteSubmitted
<1>4. CASE (SubmitOk \/ SubmitFailed) /\ UNCHANGED named
  <2>1. PICK n \in 0..MaxTries : Order(cur, n) /\ cur \in AllIntents
    BY <1>4 DEF SubmitOk, SubmitFailed
  <2>2. orders' \in [AllIntents -> Nat]
    BY <2>1, OrderKeeps
  <2>3. QED
    BY <1>4, <2>1, <2>2 DEF SubmitOk, SubmitFailed
<1>5. CASE (RetryOk \/ RetryFailed) /\ UNCHANGED named
  <2>1. Entry \in JournalEntries /\ replay' \in Seq(JournalEntries)
    BY <1>5, EntryKnown DEF RetryOk, RetryFailed
  <2>2. Entry.intent \in AllIntents
    BY <2>1 DEF JournalEntries
  <2>3. Id(Entry.intent) \in Ids /\ Id(Entry.intent) # Garbled
    BY <2>2, IntentParts
  <2>4. PICK n \in {0, 1} : Order(Entry.intent, n)
    BY <1>5 DEF RetryOk, RetryFailed
  <2>5. orders' \in [AllIntents -> Nat]
    BY <2>2, <2>4, OrderKeeps
  <2>6. CASE RetryOk
    BY <1>5, <2>1, <2>2, <2>3, <2>5, <2>6, MarkTypes DEF RetryOk, Known
  <2>7. CASE RetryFailed
    BY <1>5, <2>1, <2>5, <2>7 DEF RetryFailed, Known
  <2>8. QED
    BY <1>5, <2>6, <2>7
<1>6. CASE (RecoverSubmitted \/ SkipEntry \/ StartTrading) /\ UNCHANGED named
  <2>1. CASE StartTrading
    BY <1>6, <2>1, EmptySeq DEF StartTrading
  <2>2. CASE RecoverSubmitted \/ SkipEntry
    <3>1. Entry \in JournalEntries /\ replay' \in Seq(JournalEntries)
      BY <2>2, EntryKnown DEF RecoverSubmitted, SkipEntry
    <3>2. Id(Entry.intent) \in Ids /\ Id(Entry.intent) # Garbled
      BY <3>1, IntentParts DEF JournalEntries
    <3>3. CASE RecoverSubmitted
      BY <1>6, <3>1, <3>2, <3>3, MarkTypes DEF RecoverSubmitted, Known
    <3>4. CASE SkipEntry
      BY <1>6, <3>1, <3>4 DEF SkipEntry, Known
    <3>5. QED
      BY <2>2, <3>3, <3>4
  <2>3. QED
    BY <1>6, <2>1, <2>2
<1>7. CASE (Save \/ SaveGlued) /\ UNCHANGED named
  <2>1. CASE Save
    BY <1>7, <2>1, SaveKeeps DEF Save
  <2>2. CASE SaveGlued
    <3>1. \A e, d \in JournalEntries : [e EXCEPT !.status = d.status] \in JournalEntries
      BY DEF JournalEntries
    <3>2. disk' \in Seq(JournalEntries) /\ unsaved' \in Seq(JournalEntries)
      BY <2>2, <3>1, GluedKeeps
    <3>3. glued' \subseteq AllIntents
      <4>1. PICK k \in DOMAIN disk : glued' = glued \cup {disk[k].intent}
        BY <2>2 DEF SaveGlued, LastOnes
      <4>2. disk[k] \in JournalEntries
        BY <4>1, LenProperties, ElementOfSeq
      <4>3. QED
        BY <4>1, <4>2 DEF JournalEntries
    <3>4. QED
      BY <1>7, <2>2, <3>2, <3>3 DEF SaveGlued
  <2>3. QED
    BY <1>7, <2>1, <2>2
<1>8. CASE Crash /\ UNCHANGED named
  <2>1. orders' \in [AllIntents -> Nat]
    <3>1. CASE UNCHANGED orders
      BY <3>1
    <3>2. CASE \E i \in InFlight, n \in 1..MaxTries : Order(i, n)
      <4>1. CASE pc = "submit"
        BY <3>2, <4>1, OrderKeeps DEF InFlight
      <4>2. CASE pc # "submit"
        <5>1. Known /\ Entry \in JournalEntries /\ InFlight = {Entry.intent}
          BY <3>2, <4>2, EntryKnown DEF InFlight
        <5>2. Entry.intent \in AllIntents
          BY <5>1 DEF JournalEntries
        <5>3. QED
          BY <3>2, <5>1, <5>2, OrderKeeps
      <4>3. QED
        BY <4>1, <4>2
    <3>3. QED
      BY <1>8, <3>1, <3>2 DEF Crash, LoadFromDisk
  <2>2. cur' \in Processes \X (0..MaxIntents) \X (1..MaxTrace)
    BY <1>8 DEF Crash, LoadFromDisk, Processes
  <2>3. replay' \in Seq(JournalEntries) /\ unsaved' \in Seq(JournalEntries)
    BY <1>8, RereadEntries, EmptySeq DEF Crash
  <2>4. QED
    BY <1>8, <2>1, <2>2, <2>3 DEF Crash, LoadFromDisk
<1>9. CASE UNCHANGED vars
  BY <1>9 DEF vars
<1>10. QED
  BY <1>1, <1>2, <1>3, <1>4, <1>5, <1>6, <1>7, <1>8, <1>9 DEF Next, Trade, Recover

(* What the state makes of an entry it goes on making of it, within one    *)
(* process, while keys and acknowledged orders are only added.             *)
LEMMA EntriesStayTrue ==
  ASSUME cur'[1] = cur[1], file \subseteq file', acked \subseteq acked',
         lost \subseteq lost', glued \subseteq glued'
  PROVE  /\ TrueEntries \subseteq TrueEntries' /\ OldEntries \subseteq OldEntries'
         /\ OldEntries \subseteq TrueEntries
BY DEF TrueEntries, OldEntries

LEMMA JournalStep ==
  ASSUME TypeOK, TypeOK', JournalInv, PlacedInv, [Next]_vars PROVE JournalInv'
<1> USE DEF JournalInv, keys, records
<1>1. CASE Crash
  <2>1. TrueEntries \subseteq OldEntries' /\ TrueEntries \subseteq TrueEntries'
    <3>1. /\ cur'[1] = cur[1] + 1 /\ cur[1] \in Int
          /\ file' = file /\ acked' = acked /\ lost' = lost /\ glued' = glued
      BY <1>1 DEF Crash, LoadFromDisk, TypeOK, Processes
    <3>2. \A e \in JournalEntries : e.intent[1] \in Int
      BY IntentParts DEF JournalEntries, Processes
    <3>3. QED
      BY <3>1, <3>2 DEF TrueEntries, OldEntries
  <2>2. replay' \in Seq(TrueEntries) /\ unsaved' = <<>> /\ disk' = disk
    BY <1>1, RereadEntries DEF Crash
  <2>3. QED
    BY <2>1, <2>2, SeqMonotonic, EmptySeq
<1>2. ASSUME cur'[1] = cur[1], file \subseteq file', acked \subseteq acked',
             lost \subseteq lost', glued \subseteq glued',
             \/ UNCHANGED <<disk, unsaved>>
             \/ UNCHANGED disk /\ unsaved' \in Seq(TrueEntries)
             \/ Save,
             \/ UNCHANGED replay
             \/ Known /\ replay' = Tail(replay)
             \/ replay' = <<>>
      PROVE  JournalInv'
  <2>1. disk' \in Seq(TrueEntries) /\ unsaved' \in Seq(TrueEntries)
    BY <1>2, SaveKeeps
  <2>2. replay' \in Seq(OldEntries)
    BY <1>2, EntryKnown, EmptySeq
  <2>3. QED
    BY <1>2, <2>1, <2>2, EntriesStayTrue, SeqMonotonic
<1>3. CASE WritePending \/ WriteSubmitted
  <2>1. cur \in AllIntents /\ cur[1] <= cur[1]
    BY <1>3, IntentParts DEF TypeOK, WritePending, WriteSubmitted, Processes
  <2>2. PICK status \in Statuses : /\ TryWrite(cur, status)
                                   /\ status = "Submitted" =>
                                        Id(cur) \in file \cup lost /\ cur \in acked
    BY <1>3 DEF WritePending, WriteSubmitted, Statuses, PlacedInv
  <2>3. [intent |-> cur, status |-> status] \in TrueEntries
    BY <2>1, <2>2 DEF TrueEntries, JournalEntries
  <2>4. unsaved' \in Seq(TrueEntries)
    BY <2>2, <2>3, TryWriteKeeps
  <2>5. QED
    BY <1>2, <1>3, <2>4 DEF WritePending, WriteSubmitted
<1>4. CASE Decide
  BY <1>2, <1>4 DEF Decide
<1>5. CASE Dedup \/ SubmitOk \/ SubmitFailed \/ RetryFailed \/ SkipEntry \/ StartTrading
  BY <1>2, <1>5 DEF Dedup, IsProcessed, SubmitOk, SubmitFailed, RetryFailed, SkipEntry,
                    StartTrading
<1>6. CASE MarkProcessed \/ RetryOk \/ RecoverSubmitted
  <2>1. PICK id \in Ids : id # Garbled /\ AppendToDisk(id)
    <3>1. MarkProcessed => cur \in AllIntents /\ Mark(Id(cur))
      BY DEF MarkProcessed, TypeOK
    <3>2. ASSUME RetryOk \/ RecoverSubmitted
          PROVE  Entry.intent \in AllIntents /\ Mark(Id(Entry.intent))
      <4>1. Known /\ Mark(Id(Entry.intent)) /\ replay \in Seq(JournalEntries)
        BY <3>2 DEF RetryOk, RecoverSubmitted, TypeOK
      <4>2. Entry \in JournalEntries
        BY <4>1, EntryKnown
      <4>3. QED
        BY <4>1, <4>2 DEF JournalEntries
    <3>3. QED
      BY <1>6, <3>1, <3>2, IntentParts DEF Mark
  <2>2. file \subseteq file' /\ lost \subseteq lost'
    BY <2>1, AppendKeeps
  <2>3. QED
    BY <1>2, <1>6, <2>2 DEF MarkProcessed, RetryOk, RecoverSubmitted
<1>7. CASE Save
  BY <1>2, <1>7 DEF Save
<1>8. CASE SaveGlued
  <2>1. /\ cur' = cur /\ file' = file /\ acked' = acked /\ lost' = lost /\ replay' = replay
        /\ glued \subseteq glued'
    BY <1>8 DEF SaveGlued
  <2>2. /\ TrueEntries \subseteq TrueEntries' /\ OldEntries \subseteq OldEntries'
    BY <2>1, EntriesStayTrue
  <2>3. disk \in Seq(TrueEntries') /\ unsaved \in Seq(TrueEntries')
    BY <2>2, SeqMonotonic
  <2>4. \A e, d \in TrueEntries' :
          e.intent \in glued' => [e EXCEPT !.status = d.status] \in TrueEntries'
    BY DEF TrueEntries, JournalEntries
  <2>5. disk' \in Seq(TrueEntries') /\ unsaved' \in Seq(TrueEntries')
    BY <1>8, <2>3, <2>4, GluedKeeps
  <2>6. QED
    BY <2>1, <2>2, <2>5, SeqMonotonic
<1>9. CASE UNCHANGED vars
  BY <1>2, <1>9 DEF vars
<1>10. QED
  BY <1>1, <1>3, <1>4, <1>5, <1>6, <1>7, <1>8, <1>9 DEF Next, Trade, Recover

-----------------------------------------------------------------------------
(* The one intent a thread may refuse is one that an earlier process has   *)
(* placed: this one has not yet given out its number.                      *)
LEMMA RefusalIsOld ==
  ASSUME TypeOK, PlacedInv, pc = "dedup", Id(cur) \in stored
  PROVE  \E j \in acked \cup glued : Id(j) = Id(cur) /\ j[1] < cur[1]
<1>0. Id(cur) # Garbled
  BY IntentParts DEF TypeOK
<1>1. PICK j \in acked \cup glued : Id(j) = Id(cur) /\ (j \in acked \/ j[1] < cur[1])
  BY <1>0 DEF PlacedInv, Placed
<1>2. j[2] = cur[2]
  BY <1>1 DEF Id
<1>3. j[1] \in Int /\ cur[1] \in Int /\ j[2] \in Int
  BY IntentParts DEF TypeOK, Processes
<1>4. j \in acked => j[1] <= cur[1] /\ (j[1] = cur[1] => j[2] < cur[2])
  BY DEF PlacedInv
<1>5. QED
  BY <1>1, <1>2, <1>3, <1>4

(* What the trading steps before an acknowledgement have in common.        *)
LEMMA NotYetAcked ==
  ASSUME TypeOK, PlacedInv, pc \in {"dedup", "pending", "submit"}
  PROVE  cur \notin acked
<1>1. cur[2] \in Int
  BY DEF TypeOK
<1>2. cur \in acked => cur[2] < cur[2]
  BY DEF PlacedInv
<1>3. QED
  BY <1>1, <1>2

(* An id stays placed while orders and records are only added and no       *)
(* earlier process comes after it.                                         *)
LEMMA StaysPlaced ==
  ASSUME acked \subseteq acked', glued \subseteq glued', cur[1] \in Int, cur'[1] \in Int,
         cur[1] <= cur'[1], glued \subseteq AllIntents, NEW id, Placed(id)
  PROVE  Placed(id)'
<1>1. \A i \in glued : i[1] \in Int
  BY IntentParts DEF Processes
<1>2. PICK i \in acked \cup glued : Id(i) = id /\ (i \in acked \/ i[1] < cur[1])
  BY DEF Placed
<1>3. i \in acked' \cup glued'
  BY <1>2
<1>4. i \in acked' \/ i[1] < cur'[1]
  BY <1>1, <1>2
<1>5. QED
  BY <1>2, <1>3, <1>4 DEF Placed

(* What is marked is placed.                                               *)
LEMMA MarkPlaced ==
  ASSUME TypeOK, PlacedInv, NEW i \in AllIntents, Mark(Id(i)), Placed(Id(i))',
         acked \subseteq acked', UNCHANGED <<cur, glued>>
  PROVE  /\ \A id \in stored' \cup file' \cup {tail'.key} : id = Garbled \/ Placed(id)'
         /\ file \subseteq file' /\ lost \subseteq lost' /\ Id(i) \in file' \cup lost'
<1>1. Id(i) \in Ids /\ Id(i) # Garbled
  BY IntentParts
<1>2. stored' = stored \cup {Id(i)} /\ AppendToDisk(Id(i))
  BY DEF Mark
<1>3. /\ file \subseteq file' /\ lost \subseteq lost' /\ Id(i) \in file' \cup lost'
      /\ file' \subseteq file \cup ({Id(i), tail.key} \ {Garbled})
      /\ tail'.key \in {Id(i), tail.key, Garbled}
  BY <1>1, <1>2, AppendKeeps
<1>4. ASSUME NEW id \in stored \cup file \cup {tail.key}, id # Garbled PROVE Placed(id)'
  <2>1. Placed(id)
    BY <1>4 DEF PlacedInv
  <2>2. cur[1] \in Int /\ cur' = cur /\ glued \subseteq AllIntents
    BY DEF TypeOK, Processes
  <2>3. QED
    BY <2>1, <2>2, StaysPlaced
<1>5. QED
  BY <1>2, <1>3, <1>4

LEMMA PlacedStep ==
  ASSUME TypeOK, TypeOK', JournalInv, PlacedInv, [Next]_vars PROVE PlacedInv'
<1> USE DEF PlacedInv, RefusedAcrossProcesses, keys, records
<1>0. /\ cur[1] \in Int /\ cur[2] \in Int
      /\ \A j \in acked : j[1] \in Int /\ j[2] \in Int /\ j[2] > 0
      /\ glued \subseteq AllIntents /\ cur'[1] \in Int
  <2>1. acked \subseteq AllIntents /\ glued \subseteq AllIntents
    BY DEF TypeOK
  <2>2. cur[1] \in Int /\ cur[2] \in Int /\ cur'[1] \in Int
    BY DEF TypeOK, Processes
  <2>3. QED
    BY <2>1, <2>2, IntentParts DEF Processes
<1>1. CASE Decide
  <2>1. cur'[1] = cur[1] /\ cur'[2] = cur[2] + 1 /\ pc' = "dedup"
    BY <1>1 DEF Decide
  <2>2. UNCHANGED <<stored, file, tail, lost, glued, acked, refused>>
    BY <1>1 DEF Decide
  <2>3. \A id : Placed(id) => Placed(id)'
    BY <2>1, <2>2 DEF Placed
  <2>4. \A id \in stored' \cup file' \cup {tail'.key} : id = Garbled \/ Placed(id)'
    BY <2>2, <2>3
  <2>5. QED
    BY <1>0, <2>1, <2>2, <2>4
<1>2. CASE Dedup
  <2>1. UNCHANGED <<stored, file, tail, lost, glued, acked, cur>>
    BY <1>2 DEF Dedup
  <2>2. \A id \in stored' \cup file' \cup {tail'.key} : id = Garbled \/ Placed(id)'
    BY <2>1 DEF Placed
  <2>3. pc = "dedup" /\ pc' \in {"idle", "pending"}
    BY <1>2 DEF Dedup
  <2>4. CASE refused' = refused \cup {cur} /\ Id(cur) \in stored
    <3>1. \E j \in acked \cup glued : Id(j) = Id(cur) /\ j[1] < cur[1]
      BY <2>3, <2>4, RefusalIsOld
    <3>2. RefusedAcrossProcesses'
      BY <2>1, <2>4, <3>1
    <3>3. QED
      BY <2>1, <2>2, <2>3, <3>2
  <2>5. CASE UNCHANGED refused
    BY <2>1, <2>2, <2>3, <2>5
  <2>6. QED
    BY <1>2, <2>4, <2>5 DEF Dedup, IsProcessed
<1>3. CASE WritePending \/ SubmitFailed \/ WriteSubmitted \/ Save
  BY <1>3 DEF WritePending, SubmitFailed, WriteSubmitted, Save, Placed
<1>4. CASE SubmitOk
  <2>1. /\ UNCHANGED <<stored, file, tail, lost, glued, cur, refused>>
        /\ acked' = acked \cup {cur} /\ pc = "submit" /\ pc' = "mark"
    BY <1>4 DEF SubmitOk
  <2>2. \A id \in stored' \cup file' \cup {tail'.key} : id = Garbled \/ Placed(id)'
    BY <2>1 DEF Placed
  <2>3. RefusedAcrossProcesses'
    BY <2>1
  <2>4. QED
    BY <1>0, <2>1, <2>2, <2>3
<1>5. CASE MarkProcessed
  <2>1. /\ UNCHANGED <<acked, glued, cur, refused>> /\ cur \in AllIntents /\ cur \in acked
        /\ pc' = "submitted" /\ Mark(Id(cur))
    BY <1>5 DEF MarkProcessed, TypeOK
  <2>2. Placed(Id(cur))'
    BY <2>1 DEF Placed
  <2>3. /\ \A id \in stored' \cup file' \cup {tail'.key} : id = Garbled \/ Placed(id)'
        /\ Id(cur) \in file' \cup lost'
    BY <2>1, <2>2, MarkPlaced
  <2>4. QED
    BY <1>0, <2>1, <2>3
<1>6. CASE RetryOk
  <2>1. Entry \in OldEntries
    BY <1>6, EntryKnown DEF RetryOk, JournalInv
  <2> PICK i : i = Entry.intent
    OBVIOUS
  <2>2. i[1] < cur[1] /\ i[1] \in Int /\ i \in AllIntents
    BY <2>1, IntentParts DEF OldEntries, TrueEntries, JournalEntries, Processes
  <2>3. /\ UNCHANGED <<glued, cur, refused, pc>> /\ pc = "recover"
        /\ acked' = acked \cup {i} /\ Mark(Id(i))
    BY <1>6 DEF RetryOk, Known
  <2>4. Placed(Id(i))'
    BY <2>3 DEF Placed
  <2>5. \A id \in stored' \cup file' \cup {tail'.key} : id = Garbled \/ Placed(id)'
    BY <2>2, <2>3, <2>4, MarkPlaced
  <2>6. RefusedAcrossProcesses'
    BY <2>3
  <2>7. QED
    BY <1>0, <2>2, <2>3, <2>5, <2>6
<1>7. CASE RecoverSubmitted
  <2>1. Entry \in OldEntries /\ Entry.status = "Submitted"
    BY <1>7, EntryKnown DEF RecoverSubmitted, JournalInv
  <2> PICK i : i = Entry.intent
    OBVIOUS
  <2>2. /\ i[1] < cur[1] /\ i \in AllIntents
        /\ i \in acked \cup glued
    BY <2>1 DEF OldEntries, TrueEntries, JournalEntries
  <2>3. /\ UNCHANGED <<acked, glued, cur, refused, pc>> /\ pc = "recover"
        /\ Mark(Id(i))
    BY <1>7 DEF RecoverSubmitted, Known
  <2>4. Placed(Id(i))'
    BY <2>2, <2>3 DEF Placed
  <2>5. \A id \in stored' \cup file' \cup {tail'.key} : id = Garbled \/ Placed(id)'
    BY <2>2, <2>3, <2>4, MarkPlaced
  <2>6. QED
    BY <2>3, <2>5
<1>8. CASE RetryFailed \/ SkipEntry \/ StartTrading
  BY <1>8 DEF RetryFailed, SkipEntry, StartTrading, Known, Placed
<1>9. CASE Crash
  <2>1. cur'[1] = cur[1] + 1 /\ pc' = "recover"
    BY <1>9 DEF Crash
  <2>2. /\ stored' \subseteq file
        /\ UNCHANGED <<file, tail, lost, glued, acked, refused>>
    BY <1>9 DEF Crash, LoadFromDisk
  <2>3. ASSUME NEW id \in stored' \cup file' \cup {tail'.key}, id # Garbled PROVE Placed(id)'
    <3>1. Placed(id)
      BY <2>2, <2>3
    <3>2. QED
      BY <1>0, <2>1, <2>2, <3>1, StaysPlaced
  <2>4. QED
    BY <1>0, <2>1, <2>2, <2>3
<1>10. CASE SaveGlued
  <2>1. /\ UNCHANGED <<pc, cur, stored, file, tail, lost, acked, refused>>
        /\ glued \subseteq glued'
    BY <1>10 DEF SaveGlued
  <2>2. ASSUME NEW id \in stored' \cup file' \cup {tail'.key}, id # Garbled PROVE Placed(id)'
    <3>1. Placed(id)
      BY <2>1, <2>2
    <3>2. QED
      BY <1>0, <2>1, <3>1, StaysPlaced
  <2>3. RefusedAcrossProcesses'
    BY <2>1
  <2>4. QED
    BY <2>1, <2>2, <2>3
<1>11. CASE UNCHANGED vars
  BY <1>11 DEF vars, Placed
<1>12. QED
  BY <1>1, <1>2, <1>3, <1>4, <1>5, <1>6, <1>7, <1>8, <1>9, <1>10, <1>11
     DEF Next, Trade, Recover

(* The invariant holds of every behaviour.                                 *)
THEOREM RecoveryCorrect == Spec => []RecoveryInv
<1>1. Init => RecoveryInv
  BY EmptySeq DEF Init, RecoveryInv, TypeOK, JournalInv, PlacedInv, RefusedAcrossProcesses,
                  Processes, Garbled
<1>2. RecoveryInv /\ [Next]_vars => RecoveryInv'
  BY TypeStep, JournalStep, PlacedStep DEF RecoveryInv
<1>3. QED
  BY <1>1, <1>2, PTL DEF Spec

(* The variables keep their types.                                         *)
THEOREM TypeCorrect == Spec => []TypeOK
BY RecoveryCorrect, PTL DEF RecoveryInv

(* What is recorded is so, whatever the disk refuses and wherever a        *)
(* process dies: an intent with a Submitted record has its order           *)
(* acknowledged and its key in the file, unless the key's line was cut or  *)
(* stands on one that was; a key has an order, and an intent is refused    *)
(* only for one that an earlier process has placed.  The exception is an   *)
(* intent on whose journal line another record stands.                     *)
THEOREM RecordsAreTrue == Spec => []RecordsHold
<1>1. RecoveryInv => SubmittedIsStored
  <2> SUFFICES ASSUME RecoveryInv,
                      NEW e \in {disk[n] : n \in DOMAIN disk} \cup {unsaved[n] : n \in DOMAIN unsaved}
               PROVE  e \in TrueEntries
    BY DEF SubmittedIsStored, TrueEntries
  <2>1. QED
    BY ElementOfSeq, LenProperties DEF RecoveryInv, JournalInv
<1>2. RecoveryInv => StoredIsPlaced /\ RefusedAcrossProcesses
  <2>1. ASSUME RecoveryInv, NEW id \in stored PROVE id # Garbled /\ Placed(id)
    <3>1. id \in Ids
      BY <2>1 DEF RecoveryInv, TypeOK
    <3>2. id # Garbled
      BY <3>1 DEF Ids, Garbled
    <3>3. QED
      BY <2>1, <3>2 DEF RecoveryInv, PlacedInv
  <2>2. QED
    BY <2>1 DEF RecoveryInv, PlacedInv, StoredIsPlaced, Placed
<1>3. QED
  BY <1>1, <1>2, RecoveryCorrect, PTL DEF RecordsHold

(* Once an order has been acknowledged, no crash, lost record or repeated  *)
(* id has its intent submitted again, except by a replay that finds the    *)
(* asset by its name.                                                      *)
THEOREM PlacedStaysFinal == Spec => PlacedIsFinal
<1>1. ASSUME RecoveryInv, [Next]_vars, NEW i \in acked
      PROVE  orders'[i] = orders[i] \/ (named /\ pc = "recover")
  <2> USE DEF RecoveryInv
  <2>0. i \in AllIntents /\ orders \in [AllIntents -> Nat]
    BY <1>1 DEF TypeOK
  <2>1. ASSUME pc = "submit", NEW n \in 0..MaxTries, Order(cur, n)
        PROVE  orders'[i] = orders[i]
    <3>1. cur \in AllIntents /\ cur # i
      BY <1>1, <2>1, NotYetAcked DEF TypeOK
    <3>2. QED
      BY <2>0, <2>1, <3>1, OrderKeeps
  <2>2. CASE SubmitOk
    BY <2>1, <2>2 DEF SubmitOk
  <2>3. CASE SubmitFailed
    BY <2>1, <2>3 DEF SubmitFailed
  <2>4. CASE RetryOk \/ RetryFailed
    BY <2>4 DEF RetryOk, RetryFailed, Known, Matches
  <2>5. CASE Crash
    <3>1. CASE UNCHANGED orders
      BY <3>1
    <3>2. CASE \E k \in InFlight, n \in 1..MaxTries : Order(k, n)
      <4>1. CASE pc = "submit"
        BY <2>1, <3>2, <4>1 DEF InFlight
      <4>2. CASE pc # "submit"
        BY <3>2, <4>2 DEF InFlight, Known, Matches
      <4>3. QED
        BY <4>1, <4>2
    <3>3. QED
      BY <2>5, <3>1, <3>2 DEF Crash, LoadFromDisk
  <2>6. CASE Decide \/ Dedup \/ WritePending \/ MarkProcessed \/ WriteSubmitted
    BY <2>6 DEF Decide, Dedup, IsProcessed, WritePending, MarkProcessed, WriteSubmitted
  <2>7. CASE RecoverSubmitted \/ SkipEntry \/ StartTrading \/ Save \/ SaveGlued \/ UNCHANGED vars
    BY <2>7 DEF RecoverSubmitted, SkipEntry, StartTrading, Save, SaveGlued, vars
  <2>8. QED
    BY <1>1, <2>2, <2>3, <2>4, <2>5, <2>6, <2>7 DEF Next, Trade, Recover
<1>2. RecoveryInv /\ [Next]_vars
        => [\A i \in acked : orders'[i] = orders[i] \/ (named /\ pc = "recover")]_vars
  BY <1>1
<1>3. QED
  BY <1>2, RecoveryCorrect, PTL DEF Spec, PlacedIsFinal
=============================================================================
