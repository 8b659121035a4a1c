------------------------- MODULE SpoolReaderProofs -------------------------
(***************************************************************************)
(* What SpoolReader keeps for any sizes of chunk, record and preview, any  *)
(* number of bytes, resets and faults.                                     *)
(*                                                                         *)
(* Neither property is inductive as it stands, because a tick ingests a    *)
(* line long before it moves the cursor.  TickInv says how far the tick    *)
(* under way has come: every line before its place is stored, its place is *)
(* where a line begins, or what it has scanned has no newline.  Then a     *)
(* record that is ingested is the first line that is not stored yet, or    *)
(* one that is: its offset alone tells which.                              *)
(***************************************************************************)
EXTENDS SpoolReader, SequenceTheorems, WellFoundedInduction, TLAPS

Ticks == [at : {"none", "lines", "scan", "oversized", "stored"},
          offset : Nat, place : Nat, end : Nat]
Records == [at : Nat, length : Nat, preview : Nat, verdict : {"ingested", "too-large"}]

SpoolTyped ==
    /\ spool \in Seq({"byte", "newline"})
    /\ cursor \in Nat
    /\ tick \in Ticks
    /\ stored \in Seq(Records)
    /\ resets \in Nat
    /\ faults \in Nat

\* A line of some bytes, the empty ones included: where it begins and where it ends.
LineAt(bytes, s, n) ==
    /\ s \in {0} \cup Newlines(bytes)
    /\ n \in Newlines(bytes)
    /\ s < n
    /\ \A m \in Newlines(bytes) : ~(s < m /\ m < n)

\* p is where a line begins, and the lines before it are stored.
Behind(p) ==
    /\ p \in Starts
    /\ \A l \in Lines : l.at < p => l \in Range(stored)

InLines ==
    /\ tick.place <= tick.end
    /\ Behind(tick.offset + tick.place)
    /\ tick.offset + tick.end \in Newlines(spool)

\* The bytes read so far have no newline, and they are some.
InScan ==
    /\ tick.place < tick.end
    /\ tick.offset + 1 \notin Newlines(spool)
    /\ \A m \in Newlines(spool) : ~(tick.offset < m /\ m <= tick.offset + tick.place)

InOversized ==
    /\ tick.place # 0
    /\ LineAt(spool, tick.offset, tick.offset + tick.place + 1)

\* What a tick has done and found out, between any two of its steps.
TickInv ==
    \/ tick = NoTick
    \/ /\ tick.at # "none"
       /\ tick.offset = cursor
       /\ tick.at \in {"lines", "scan"} => tick.offset + tick.end <= Len(spool)
       /\ tick.at = "lines" => InLines
       /\ tick.at = "scan" => InScan
       /\ tick.at = "oversized" => InOversized
       /\ tick.at = "stored" => Behind(tick.offset + tick.end)

SpoolInv == SpoolTyped /\ Behind(cursor) /\ TickInv /\ StoredAreTheLines

-----------------------------------------------------------------------------
(***************************************************************************)
(* Numbers, and the bytes that are read.                                   *)
(***************************************************************************)

\* Min is the least number of a set that has one.
LEMMA MinIs ==
  ASSUME NEW S \in SUBSET Nat, S # {}
  PROVE  Min(S) \in S /\ \A n \in S : Min(S) <= n
<1> DEFINE R == OpToRel(<, Nat)
<1>1. IsWellFoundedOn(R, Nat)
  BY NatLessThanWellFounded
<1>2. \A m, n \in Nat : m < n => <<m, n>> \in R
  BY DEF OpToRel
<1> HIDE DEF R
<1>3. PICK m \in S : \A n \in S : ~(<<n, m>> \in R)
  BY <1>1, WFMin
<1>4. \A n \in S : m <= n
  <2>1. m \in Nat /\ S \subseteq Nat
    OBVIOUS
  <2>2. \A n \in S : ~(n < m)
    BY <1>2, <1>3, <2>1
  <2> QED BY <2>1, <2>2
<1> QED BY <1>3, <1>4 DEF Min

\* Max is the greatest number of a bounded set that has one.
LEMMA MaxIs ==
  ASSUME NEW b \in Nat, NEW S \in SUBSET (0 .. b), S # {}
  PROVE  Max(S) \in S /\ \A n \in S : n <= Max(S)
<1> DEFINE T == {b - n : n \in S}
<1>1. T \in SUBSET Nat /\ T # {}
  <2>1. \A n \in S : b - n \in Nat
    OBVIOUS
  <2> QED BY <2>1
<1>2. Min(T) \in T /\ \A n \in T : Min(T) <= n
  BY <1>1, MinIs
<1>3. PICK m \in S : Min(T) = b - m
  BY <1>2
<1>4. \A n \in S : b - m <= b - n
  BY <1>2, <1>3
<1>5. \A n \in S : n <= m
  <2>1. m \in Nat /\ m <= b /\ S \subseteq Nat
    OBVIOUS
  <2> QED BY <1>4, <2>1
<1>6. m \in S
  BY <1>3
<1> QED BY <1>5, <1>6 DEF Max

\* The newlines of some bytes are numbers up to their length.
LEMMA NewlinesAre ==
  ASSUME NEW S, NEW bytes \in Seq(S)
  PROVE  Newlines(bytes) \subseteq 1 .. Len(bytes)
  BY DEF Newlines

\* The newlines of what is read are the spool's, counted from where it is read.
LEMMA NewlinesRead ==
  ASSUME SpoolTyped, NEW offset \in Nat, NEW length \in Nat, offset + length <= Len(spool)
  PROVE  /\ Len(Bytes(offset, length)) = length
         /\ Bytes(offset, length) \in Seq({"byte", "newline"})
         /\ Newlines(Bytes(offset, length)) = {i \in 1 .. length : offset + i \in Newlines(spool)}
<1> DEFINE bytes == Bytes(offset, length)
<1> DEFINE Bit == {"byte", "newline"}
<1>0. spool \in Seq(Bit) /\ offset + 1 \in Int /\ offset + length \in Int
  BY DEF SpoolTyped
<1>a. \A i \in offset + 1 .. offset + length : spool[i] \in Bit
  BY <1>0
<1>b. /\ bytes \in Seq(Bit)
      /\ Len(bytes) = IF offset + 1 <= offset + length
                      THEN offset + length - (offset + 1) + 1 ELSE 0
      /\ \A i \in 1 .. offset + length - (offset + 1) + 1 :
             bytes[i] = spool[(offset + 1) + i - 1]
  <2> HIDE DEF Bit
  <2> QED BY ONLY <1>0, <1>a, SubSeqProperties DEF Bytes
<1> HIDE DEF bytes, Bit
<1>1. Len(bytes) = length /\ \A i \in 1 .. length : bytes[i] = spool[offset + i]
  <2>1. \A i \in 1 .. length : /\ i \in 1 .. offset + length - (offset + 1) + 1
                               /\ (offset + 1) + i - 1 = offset + i
    OBVIOUS
  <2> QED BY <1>b, <2>1
<1>2. DOMAIN bytes = 1 .. length
  BY <1>b, <1>1
<1>3. \A i \in 1 .. length : offset + i \in DOMAIN spool
  BY DEF SpoolTyped
<1>4. Newlines(bytes) = {i \in 1 .. length : offset + i \in Newlines(spool)}
  BY <1>1, <1>2, <1>3 DEF Newlines
<1> QED BY <1>b, <1>1, <1>4 DEF bytes, Bit

\* What Complete leaves of some bytes ends with the last newline, if there is one.
LEMMA CompleteIs ==
  ASSUME NEW bytes \in Seq({"byte", "newline"})
  PROVE  /\ Complete(bytes) = <<>> <=> Newlines(bytes) = {}
         /\ Newlines(bytes) # {} => Len(Complete(bytes)) \in Newlines(bytes)
<1> DEFINE last == Max({0} \cup Newlines(bytes))
<1>1. Newlines(bytes) \subseteq 1 .. Len(bytes) /\ Len(bytes) \in Nat
  BY NewlinesAre
<1>2. {0} \cup Newlines(bytes) \in SUBSET (0 .. Len(bytes)) /\ {0} \cup Newlines(bytes) # {}
  BY <1>1
<1>3. last \in {0} \cup Newlines(bytes) /\ \A n \in {0} \cup Newlines(bytes) : n <= last
  BY <1>1, <1>2, MaxIs
<1>4. last \in 0 .. Len(bytes)
  BY <1>2, <1>3
<1> HIDE DEF last
<1>5. SubSeq(bytes, 1, last) \in Seq({"byte", "newline"}) /\ Len(SubSeq(bytes, 1, last)) = last
  BY <1>4
<1>6. Complete(bytes) = SubSeq(bytes, 1, last)
  BY DEF Complete, last
<1>7. Complete(bytes) = <<>> <=> last = 0
  BY <1>5, <1>6, EmptySeq
<1> QED BY <1>1, <1>3, <1>5, <1>6, <1>7

-----------------------------------------------------------------------------
(***************************************************************************)
(* Lines.                                                                  *)
(***************************************************************************)

\* Where lines begin and end in the spool.
LEMMA PlacesAre ==
  ASSUME SpoolTyped
  PROVE  /\ Newlines(spool) \subseteq Nat
         /\ Starts \subseteq Nat
         /\ \A n \in Newlines(spool) : 1 <= n /\ n <= Len(spool)
         /\ \A n \in Starts : n <= Len(spool)
         /\ Len(spool) \in Nat
<1>1. Newlines(spool) \subseteq 1 .. Len(spool) /\ Len(spool) \in Nat
  BY NewlinesAre DEF SpoolTyped
<1> QED BY <1>1 DEF Starts

\* The lines that count of some bytes, as Lines tells them of the spool.
LinesOf(bytes) ==
    {Record(p[1], p[2] - 1 - p[1]) : p \in
        {q \in ({0} \cup Newlines(bytes)) \X Newlines(bytes) :
            q[1] + 1 < q[2] /\ \A m \in Newlines(bytes) : ~(q[1] < m /\ m < q[2])}}

\* They are the records of the lines that are not empty.
LEMMA LinesIn ==
  ASSUME NEW bytes \in Seq({"byte", "newline"}), NEW l
  PROVE  l \in LinesOf(bytes) <=> \E s, n : /\ LineAt(bytes, s, n)
                                            /\ s + 1 < n
                                            /\ l = Record(s, n - 1 - s)
<1> DEFINE P == ({0} \cup Newlines(bytes)) \X Newlines(bytes)
<1> DEFINE Inside(q) == \A m \in Newlines(bytes) : ~(q[1] < m /\ m < q[2])
<1>0. Newlines(bytes) \subseteq Nat
  BY NewlinesAre
<1>1. l \in LinesOf(bytes) <=> \E q \in P : /\ q[1] + 1 < q[2] /\ Inside(q)
                                           /\ l = Record(q[1], q[2] - 1 - q[1])
  BY DEF LinesOf
<1>2. ASSUME NEW s, NEW n, LineAt(bytes, s, n), s + 1 < n
      PROVE  <<s, n>> \in P /\ Inside(<<s, n>>)
  BY <1>2 DEF LineAt
<1>3. ASSUME NEW q \in P, q[1] + 1 < q[2], Inside(q)
      PROVE  LineAt(bytes, q[1], q[2])
  <2>1. q[1] \in {0} \cup Newlines(bytes) /\ q[2] \in Newlines(bytes) /\ q[1] < q[2]
    BY <1>0, <1>3
  <2> QED BY <1>3, <2>1 DEF LineAt
<1> HIDE DEF P
<1>4. ASSUME NEW s, NEW n, LineAt(bytes, s, n), s + 1 < n, l = Record(s, n - 1 - s)
      PROVE  l \in LinesOf(bytes)
  <2> DEFINE q == <<s, n>>
  <2>1. q \in P /\ Inside(q)
    BY <1>2, <1>4
  <2>2. q[1] = s /\ q[2] = n
    OBVIOUS
  <2> HIDE DEF q
  <2>3. q[1] + 1 < q[2] /\ l = Record(q[1], q[2] - 1 - q[1])
    BY <1>4, <2>2
  <2> QED BY <1>1, <2>1, <2>3
<1> QED BY <1>1, <1>3, <1>4

\* Lines are those of the spool.
LEMMA LinesAre ==
  ASSUME SpoolTyped, NEW l
  PROVE  l \in Lines <=> \E s, n : /\ LineAt(spool, s, n)
                                   /\ s + 1 < n
                                   /\ l = Record(s, n - 1 - s)
<1>1. Lines = LinesOf(spool)
  BY DEF Lines, LinesOf, Starts
<1> QED BY <1>1, LinesIn DEF SpoolTyped

\* What a record says.
LEMMA RecordIs ==
  ASSUME NEW s \in Nat, NEW length \in Nat
  PROVE  /\ Record(s, length) \in Records
         /\ Record(s, length).at = s
         /\ Record(s, length).length = length
<1>1. Least(length, MaxPreview) \in Nat
  BY SpoolAssumption DEF Least
<1> QED BY <1>1 DEF Record, Records

\* A line is told by where it begins.
LEMMA LinesDiffer ==
  ASSUME SpoolTyped, NEW k \in Lines, NEW l \in Lines, k.at = l.at
  PROVE  k = l
<1>1. PICK s, n : LineAt(spool, s, n) /\ s + 1 < n /\ k = Record(s, n - 1 - s)
  BY LinesAre
<1>2. PICK t, m : LineAt(spool, t, m) /\ t + 1 < m /\ l = Record(t, m - 1 - t)
  BY LinesAre
<1>3. s \in Nat /\ t \in Nat /\ m \in Nat /\ n \in Nat
  BY <1>1, <1>2, PlacesAre DEF LineAt, Starts
<1>4. s = t
  <2>1. n - 1 - s \in Nat /\ m - 1 - t \in Nat
    BY <1>1, <1>2, <1>3
  <2> QED BY <1>1, <1>2, <1>3, <2>1, RecordIs
<1>5. n = m
  BY <1>1, <1>2, <1>3, <1>4 DEF LineAt
<1> QED BY <1>1, <1>2, <1>4, <1>5

\* Where a line that counts begins.
LEMMA LineStarts ==
  ASSUME SpoolTyped, NEW l \in Lines
  PROVE  l.at \in Starts /\ l \in Records
<1>1. PICK s, n : LineAt(spool, s, n) /\ s + 1 < n /\ l = Record(s, n - 1 - s)
  BY LinesAre
<1>2. s \in Nat /\ n \in Nat /\ s \in Starts
  BY <1>1, PlacesAre DEF LineAt, Starts
<1>3. n - 1 - s \in Nat
  BY <1>1, <1>2
<1> QED BY <1>1, <1>2, <1>3, RecordIs

\* The lines before the end of a line are those before it and the line itself.
LEMMA BehindMoves ==
  ASSUME SpoolTyped, NEW s \in Nat, NEW n \in Nat, LineAt(spool, s, n), NEW got,
         \A l \in Lines : l.at < s => l \in got,
         s + 1 < n => Record(s, n - 1 - s) \in got
  PROVE  n \in Starts /\ \A l \in Lines : l.at < n => l \in got
<1>1. n \in Starts /\ s < n
  BY DEF LineAt, Starts
<1>2. ASSUME NEW l \in Lines, l.at < n PROVE l \in got
  <2>1. CASE l.at < s
    BY <2>1
  <2>2. CASE l.at = s
    <3>1. PICK t, m : LineAt(spool, t, m) /\ t + 1 < m /\ l = Record(t, m - 1 - t)
      BY LinesAre
    <3>2. t \in Nat /\ m \in Nat
      BY <3>1, PlacesAre DEF LineAt, Starts
    <3>3. m - 1 - t \in Nat
      BY <3>1, <3>2
    <3>4. t = s
      BY <2>2, <3>1, <3>2, <3>3, RecordIs
    <3>5. m = n
      BY <3>1, <3>2, <3>4 DEF LineAt
    <3>6. s + 1 < n
      BY <3>1, <3>4, <3>5
    <3> QED BY <3>1, <3>4, <3>5, <3>6
  <2>3. CASE s < l.at
    <3>1. l.at \in Newlines(spool)
      BY <2>3, LineStarts DEF Starts
    <3> QED BY <1>2, <2>3, <3>1 DEF LineAt
  <2>4. l.at \in Nat
    BY LineStarts, PlacesAre
  <2> QED BY <2>1, <2>2, <2>3, <2>4
<1> QED BY <1>1, <1>2

-----------------------------------------------------------------------------
(***************************************************************************)
(* What an ingested line does.                                             *)
(***************************************************************************)

\* A record more at the end.
LEMMA RangeOfAppend ==
  ASSUME NEW S, NEW s \in Seq(S), NEW x \in S
  PROVE  /\ Append(s, x) \in Seq(S)
         /\ DOMAIN Append(s, x) = 1 .. Len(s) + 1
         /\ \A i \in DOMAIN s : i \in 1 .. Len(s) /\ Append(s, x)[i] = s[i]
         /\ Append(s, x)[Len(s) + 1] = x
         /\ Range(Append(s, x)) = Range(s) \cup {x}
<1>1. /\ Append(s, x) \in Seq(S) /\ Len(s) \in Nat
      /\ DOMAIN s = 1 .. Len(s) /\ DOMAIN Append(s, x) = 1 .. Len(s) + 1
      /\ \A i \in 1 .. Len(s) : Append(s, x)[i] = s[i]
      /\ Append(s, x)[Len(s) + 1] = x
  OBVIOUS
<1>2. 1 .. Len(s) + 1 = (1 .. Len(s)) \cup {Len(s) + 1}
  BY <1>1
<1> QED BY <1>1, <1>2 DEF Range

\* The next line is stored in its place, or was stored before.
LEMMA IngestStores ==
  ASSUME SpoolTyped, StoredAreTheLines, NEW record \in Lines, Behind(record.at),
         Ingest(record)
  PROVE  /\ stored' \in Seq(Records)
         /\ Range(stored') = Range(stored) \cup {record}
         /\ \A i, j \in DOMAIN stored' : i < j => stored'[i].at < stored'[j].at
         /\ \A s \in Range(stored'), l \in Lines : l.at < s.at => l \in Range(stored')
<1> DEFINE known == \E s \in Range(stored) : s.at = record.at /\ s.length = record.length
<1>1. stored \in Seq(Records) /\ record \in Records /\ record.at \in Nat
  BY LineStarts, PlacesAre DEF SpoolTyped
<1>2. known <=> record \in Range(stored)
  BY LinesDiffer DEF StoredAreTheLines
<1>3. stored' = IF known THEN stored ELSE Append(stored, record)
  BY DEF Ingest
<1> HIDE DEF known
<1>4. CASE known
  BY <1>1, <1>2, <1>3, <1>4 DEF StoredAreTheLines
<1>5. CASE ~known
  <2>1. stored' = Append(stored, record)
    BY <1>3, <1>5
  <2>2. /\ stored' \in Seq(Records) /\ DOMAIN stored' = 1 .. Len(stored) + 1
        /\ \A i \in DOMAIN stored : i \in 1 .. Len(stored) /\ stored'[i] = stored[i]
        /\ stored'[Len(stored) + 1] = record
        /\ Range(stored') = Range(stored) \cup {record}
    BY <1>1, <2>1, RangeOfAppend
  <2>3. DOMAIN stored = 1 .. Len(stored) /\ Len(stored) \in Nat
    BY <1>1
  <2>4. \A s \in Range(stored) : s.at < record.at
    <3> SUFFICES ASSUME NEW s \in Range(stored) PROVE s.at < record.at
      OBVIOUS
    <3>1. s \in Lines /\ s.at \in Nat
      BY LineStarts, PlacesAre DEF StoredAreTheLines
    <3>2. s.at # record.at
      BY <1>2, <1>5, <3>1, LinesDiffer
    <3>3. ~(record.at < s.at)
      BY <1>2, <1>5 DEF StoredAreTheLines
    <3> QED BY <1>1, <3>1, <3>2, <3>3
  <2>5. \A i, j \in DOMAIN stored' : i < j => stored'[i].at < stored'[j].at
    <3> SUFFICES ASSUME NEW i \in DOMAIN stored', NEW j \in DOMAIN stored', i < j
                 PROVE  stored'[i].at < stored'[j].at
      OBVIOUS
    <3>1. i \in DOMAIN stored /\ stored'[i] = stored[i] /\ stored[i] \in Range(stored)
      BY <2>2, <2>3 DEF Range
    <3>2. CASE j \in DOMAIN stored
      BY <2>2, <3>1, <3>2 DEF StoredAreTheLines
    <3>3. CASE j = Len(stored) + 1
      BY <2>2, <2>4, <3>1, <3>3
    <3> QED BY <2>2, <2>3, <3>2, <3>3
  <2>6. \A s \in Range(stored'), l \in Lines : l.at < s.at => l \in Range(stored')
    BY <2>2 DEF StoredAreTheLines, Behind
  <2> QED BY <2>2, <2>5, <2>6
<1> QED BY <1>4, <1>5

\* A place stays behind what is stored, as long as the spool stays and what is stored
\* is not forgotten.
LEMMA BehindKept ==
  ASSUME NEW p, Behind(p), spool' = spool, Range(stored) \subseteq Range(stored')
  PROVE  /\ Starts' = Starts
         /\ Lines' = Lines
         /\ p \in Starts'
         /\ \A l \in Lines' : l.at < p => l \in Range(stored')
<1>1. Starts' = Starts /\ Lines' = Lines
  BY DEF Starts, Lines
<1> QED BY <1>1 DEF Behind

\* A step that leaves the spool and what is stored, and the cursor where it is.
LEMMA OnlyTheTick ==
  ASSUME SpoolInv, tick' \in Ticks, resets' \in Nat, faults' \in Nat,
         spool' = spool, stored' = stored, cursor' = cursor, TickInv'
  PROVE  SpoolInv'
<1>1. SpoolTyped'
  BY DEF SpoolInv, SpoolTyped
<1>2. Lines' = Lines /\ Starts' = Starts
  BY DEF Lines, Starts
<1>3. Behind(cursor)'
  BY <1>2 DEF SpoolInv, Behind
<1>4. StoredAreTheLines'
  BY <1>2 DEF SpoolInv, StoredAreTheLines
<1> QED BY <1>1, <1>3, <1>4 DEF SpoolInv

-----------------------------------------------------------------------------
(***************************************************************************)
(* Every step keeps the invariant.                                         *)
(***************************************************************************)

\* At first there is nothing.
LEMMA InitSpoolInv == Init => SpoolInv
<1> SUFFICES ASSUME Init PROVE SpoolInv
  OBVIOUS
<1>1. SpoolTyped
  BY DEF Init, SpoolTyped, Ticks, NoTick
<1>2. Newlines(spool) = {} /\ Starts = {0} /\ Lines = {}
  <2>1. Newlines(spool) = {}
    BY DEF Init, Newlines
  <2> QED BY <2>1 DEF Starts, Lines
<1>3. Behind(cursor)
  BY <1>2 DEF Init, Behind
<1>4. StoredAreTheLines
  <2>1. Range(stored) = {} /\ DOMAIN stored = {}
    BY DEF Init, Range
  <2> QED BY <2>1 DEF StoredAreTheLines
<1> QED BY <1>1, <1>3, <1>4 DEF SpoolInv, Init, TickInv

\* The cursor is never past the end of the spool.
LEMMA OffsetIs ==
  ASSUME SpoolInv
  PROVE  Offset = cursor /\ cursor <= Len(spool) /\ Available = Len(spool) - cursor
  BY PlacesAre DEF SpoolInv, Behind, Offset, Available

\* A tick begins behind what is stored.
LEMMA StartTickKeeps == ASSUME SpoolInv, StartTick PROVE SpoolInv'
<1> DEFINE chunk == Least(Available, MaxRead)
<1> DEFINE bytes == Bytes(Offset, chunk)
<1> USE DEF SpoolInv
<1>1. /\ Offset = cursor /\ Available = Len(spool) - cursor /\ Available \in Nat /\ Available > 0
      /\ cursor \in Nat /\ Len(spool) \in Nat
  BY OffsetIs, PlacesAre DEF StartTick, SpoolTyped
<1>2. chunk \in 1 .. Available
  BY <1>1, SpoolAssumption DEF Least
<1> HIDE DEF chunk
<1>3. /\ Len(bytes) = chunk /\ bytes \in Seq({"byte", "newline"})
      /\ Newlines(bytes) = {i \in 1 .. chunk : cursor + i \in Newlines(spool)}
  <2>1. chunk \in Nat /\ cursor + chunk <= Len(spool)
    BY <1>1, <1>2
  <2> QED BY <1>1, <2>1, NewlinesRead
<1>4. /\ Complete(bytes) = <<>> <=> Newlines(bytes) = {}
      /\ Newlines(bytes) # {} => Len(Complete(bytes)) \in Newlines(bytes)
  BY <1>3, CompleteIs
<1>5. UNCHANGED <<spool, cursor, stored, resets, faults>>
  BY DEF StartTick
<1>6. CASE /\ Complete(bytes) # <<>>
           /\ tick' = [at |-> "lines", offset |-> Offset, place |-> 0, end |-> Len(Complete(bytes))]
  <2> DEFINE end == Len(Complete(bytes))
  <2>1. end \in 1 .. chunk /\ cursor + end \in Newlines(spool)
    BY <1>3, <1>4, <1>6
  <2> HIDE DEF bytes
  <2>2. end \in Nat /\ cursor + end <= Len(spool)
    BY <1>1, <1>2, <2>1
  <2>3. tick' = [at |-> "lines", offset |-> cursor, place |-> 0, end |-> end]
    BY <1>1, <1>6
  <2> HIDE DEF end
  <2>4. tick' \in Ticks
    BY <1>1, <2>2, <2>3 DEF Ticks
  <2>5. Lines' = Lines /\ Starts' = Starts /\ Newlines(spool') = Newlines(spool)
    BY <1>5 DEF Lines, Starts
  <2>6. InLines'
    <3>1. cursor + 0 = cursor
      BY <1>1
    <3>2. Behind(tick.offset + tick.place)'
      BY <1>5, <2>3, <2>5, <3>1 DEF Behind
    <3> QED BY <1>5, <2>1, <2>2, <2>3, <3>2 DEF InLines
  <2>7. TickInv'
    BY <1>5, <2>2, <2>3, <2>6 DEF TickInv
  <2> QED BY <1>5, <2>4, <2>7, OnlyTheTick DEF SpoolTyped
<1>7. CASE /\ Complete(bytes) = <<>>
           /\ tick' = [at |-> "scan", offset |-> Offset, place |-> 0, end |-> Available]
  <2>1. cursor + 1 \notin Newlines(spool)
    BY <1>2, <1>3, <1>4, <1>7
  <2> HIDE DEF bytes
  <2>2. tick' = [at |-> "scan", offset |-> cursor, place |-> 0, end |-> Available]
    BY <1>1, <1>7
  <2>3. tick' \in Ticks
    BY <1>1, <2>2 DEF Ticks
  <2>4. \A m \in Newlines(spool) : ~(cursor < m /\ m <= cursor + 0)
    BY <1>1, PlacesAre
  <2>5. InScan'
    BY <1>1, <1>5, <2>1, <2>2, <2>4 DEF InScan
  <2>6. cursor + Available <= Len(spool)
    BY <1>1
  <2>7. TickInv'
    BY <1>5, <2>2, <2>5, <2>6 DEF TickInv
  <2> QED BY <1>5, <2>3, <2>7, OnlyTheTick DEF SpoolTyped
<1> QED BY <1>6, <1>7 DEF StartTick, bytes, chunk

\* A tick that ends without a cursor forgets only itself.
LEMMA TickEnds ==
  ASSUME SpoolInv, tick' = NoTick, resets' \in Nat, faults' \in Nat,
         spool' = spool, stored' = stored, cursor' = cursor
  PROVE  SpoolInv'
<1>1. tick' \in Ticks
  BY DEF Ticks, NoTick
<1>2. TickInv'
  BY DEF TickInv
<1> QED BY <1>1, <1>2, OnlyTheTick

\* The next line of the chunk: nothing between the place and the next newline ends a
\* line, so the lines before that newline are those before the place and this one.
LEMMA IngestLineKeeps == ASSUME SpoolInv, IngestLine PROVE SpoolInv'
<1> DEFINE newline == Min(LineEnds)
<1> DEFINE length == newline - 1 - tick.place
<1> DEFINE s == tick.offset + tick.place
<1> DEFINE n == tick.offset + newline
<1> USE DEF SpoolInv
<1>1. /\ tick.at = "lines" /\ LineEnds # {} /\ tick' = [tick EXCEPT !.place = newline]
      /\ UNCHANGED <<spool, cursor, resets, faults>>
      /\ length = 0 => stored' = stored
      /\ length # 0 => Ingest(Record(tick.offset + tick.place, length))
  BY DEF IngestLine, SourceOffset
<1>2. tick \in Ticks /\ tick.offset \in Nat /\ tick.place \in Nat /\ tick.end \in Nat
  BY DEF SpoolTyped, Ticks
<1>3. /\ tick # NoTick /\ tick.offset = cursor /\ tick.offset + tick.end <= Len(spool)
      /\ tick.place <= tick.end /\ Behind(s) /\ tick.offset + tick.end \in Newlines(spool)
  BY <1>1 DEF TickInv, NoTick, InLines
<1>4. LineEnds = {i \in 1 .. tick.end : i > tick.place /\ tick.offset + i \in Newlines(spool)}
  BY <1>2, <1>3, NewlinesRead DEF LineEnds
<1>5. newline \in LineEnds /\ \A i \in LineEnds : newline <= i
  BY <1>1, <1>4, MinIs
<1> HIDE DEF newline
<1>6. newline \in 1 .. tick.end /\ newline > tick.place /\ n \in Newlines(spool)
  BY <1>4, <1>5
<1>7. s \in Nat /\ n \in Nat /\ length \in Nat /\ s < n /\ length = n - 1 - s
      /\ (length # 0 <=> s + 1 < n)
  BY <1>2, <1>6
<1>8. LineAt(spool, s, n)
  <2>1. \A m \in Newlines(spool) : ~(s < m /\ m < n)
    <3> SUFFICES ASSUME NEW m \in Newlines(spool), s < m, m < n PROVE FALSE
      OBVIOUS
    <3>1. m \in Nat
      BY PlacesAre
    <3> DEFINE i == m - tick.offset
    <3>2. i \in 1 .. tick.end /\ i > tick.place /\ tick.offset + i = m /\ i < newline
      BY <1>2, <1>6, <3>1
    <3> HIDE DEF i
    <3>3. i \in LineEnds
      BY <1>4, <3>2
    <3> QED BY <1>2, <1>5, <1>6, <3>2, <3>3
  <2>2. s \in {0} \cup Newlines(spool)
    BY <1>3 DEF Behind, Starts
  <2> QED BY <1>6, <1>7, <2>1, <2>2 DEF LineAt
<1> HIDE DEF length, s, n
<1>9. /\ stored' \in Seq(Records)
      /\ Range(stored) \subseteq Range(stored')
      /\ Range(stored') \subseteq Lines
      /\ \A i, j \in DOMAIN stored' : i < j => stored'[i].at < stored'[j].at
      /\ \A x \in Range(stored'), l \in Lines : l.at < x.at => l \in Range(stored')
      /\ s + 1 < n => Record(s, n - 1 - s) \in Range(stored')
  <2>1. CASE length = 0
    <3>1. stored' = stored /\ ~(s + 1 < n)
      BY <1>1, <1>7, <2>1
    <3> QED BY <3>1 DEF SpoolTyped, StoredAreTheLines
  <2>2. CASE length # 0
    <3> DEFINE record == Record(s, length)
    <3>1. record \in Lines
      BY <1>7, <1>8, <2>2, LinesAre
    <3>2. record.at = s
      BY <1>7, RecordIs
    <3>3. Ingest(record)
      BY <1>1, <2>2 DEF s
    <3>4. record = Record(s, n - 1 - s)
      BY <1>7
    <3> HIDE DEF record
    <3>5. /\ stored' \in Seq(Records)
          /\ Range(stored') = Range(stored) \cup {record}
          /\ \A i, j \in DOMAIN stored' : i < j => stored'[i].at < stored'[j].at
          /\ \A x \in Range(stored'), l \in Lines : l.at < x.at => l \in Range(stored')
      BY <1>3, <3>1, <3>2, <3>3, IngestStores
    <3> QED BY <3>1, <3>4, <3>5 DEF StoredAreTheLines
  <2> QED BY <2>1, <2>2
<1>10. /\ Starts' = Starts /\ Lines' = Lines
  BY <1>1 DEF Starts, Lines
<1>11. SpoolTyped'
  <2>1. tick' \in Ticks
    <3>1. newline \in Nat
      BY <1>2, <1>6
    <3> QED BY <1>1, <1>2, <3>1 DEF Ticks
  <2> QED BY <1>1, <1>9, <2>1 DEF SpoolTyped
<1>12. Behind(cursor)'
  BY <1>1, <1>9, <1>10 DEF Behind
<1>13. StoredAreTheLines'
  BY <1>9, <1>10 DEF StoredAreTheLines
<1>14. n \in Starts' /\ \A l \in Lines' : l.at < n => l \in Range(stored')
  <2>1. \A l \in Lines : l.at < s => l \in Range(stored')
    BY <1>3, <1>9 DEF Behind
  <2>2. n \in Starts /\ \A l \in Lines : l.at < n => l \in Range(stored')
    BY <1>7, <1>8, <1>9, <2>1, BehindMoves
  <2> QED BY <1>10, <2>2
<1>15. TickInv'
  <2>1. tick'.place = newline /\ tick'.offset = tick.offset
        /\ tick'.end = tick.end /\ tick'.at = "lines"
    BY <1>1, <1>2 DEF Ticks
  <2>2. tick'.offset + tick'.place = n
    BY <2>1 DEF n
  <2>3. Behind(tick.offset + tick.place)'
    BY <1>14, <2>2 DEF Behind
  <2>4. newline <= tick.end /\ tick.offset + tick.end \in Newlines(spool)
    BY <1>2, <1>3, <1>6
  <2>5. InLines'
    BY <1>1, <2>1, <2>3, <2>4 DEF InLines
  <2> QED BY <1>1, <1>3, <2>1, <2>5 DEF TickInv
<1> QED BY <1>11, <1>12, <1>13, <1>15

\* What has been scanned grows by a read that had no newline, or ends at its first.
LEMMA ScanChunkKeeps == ASSUME SpoolInv, ScanChunk PROVE SpoolInv'
<1> DEFINE from == tick.offset + tick.place
<1> DEFINE chunk == Least(MaxRead, tick.end - tick.place)
<1> DEFINE bytes == Bytes(from, chunk)
<1> DEFINE newlines == Newlines(bytes)
<1> DEFINE read == IF newlines = {} THEN Len(bytes) ELSE Min(newlines) - 1
<1> DEFINE next == [tick EXCEPT !.place = @ + read]
<1> USE DEF SpoolInv
<1>1. /\ tick.at = "scan" /\ UNCHANGED <<spool, cursor, stored, resets, faults>>
      /\ tick' = IF newlines # {} THEN [next EXCEPT !.at = "oversized"]
                 ELSE IF next.place < tick.end THEN next
                 ELSE NoTick
  BY DEF ScanChunk
<1>2. tick \in Ticks /\ tick.offset \in Nat /\ tick.place \in Nat /\ tick.end \in Nat
  BY DEF SpoolTyped, Ticks
<1>3. /\ tick # NoTick /\ tick.offset = cursor /\ tick.offset + tick.end <= Len(spool)
      /\ tick.place < tick.end /\ tick.offset + 1 \notin Newlines(spool)
      /\ \A m \in Newlines(spool) : ~(tick.offset < m /\ m <= from)
  BY <1>1 DEF TickInv, NoTick, InScan
<1>4. chunk \in 1 .. tick.end - tick.place
  BY <1>2, <1>3, SpoolAssumption DEF Least
<1>5. from \in Nat /\ chunk \in Nat /\ from + chunk <= Len(spool)
  <2>1. Len(spool) \in Nat
    BY PlacesAre
  <2> QED BY <1>2, <1>3, <1>4, <2>1
<1> HIDE DEF chunk
<1>6. Len(bytes) = chunk /\ newlines = {i \in 1 .. chunk : from + i \in Newlines(spool)}
  BY <1>5, NewlinesRead
<1> HIDE DEF bytes
<1>7. newlines # {} => /\ Min(newlines) \in newlines
                       /\ \A i \in newlines : Min(newlines) <= i
  BY <1>6, MinIs
<1>8. read \in Nat /\ (newlines = {} => read = chunk)
  BY <1>5, <1>6, <1>7
<1>9. \A m \in Newlines(spool) : ~(tick.offset < m /\ m <= from + read)
  <2> SUFFICES ASSUME NEW m \in Newlines(spool), tick.offset < m, m <= from + read PROVE FALSE
    OBVIOUS
  <2>1. m \in Nat /\ from < m
    BY <1>2, <1>3, <1>5, PlacesAre
  <2> DEFINE i == m - from
  <2>2. i \in Nat /\ 1 <= i /\ i <= read /\ from + i = m
    BY <1>5, <1>8, <2>1
  <2> HIDE DEF i, from
  <2>3. CASE newlines = {}
    <3>1. i \in newlines
      BY <1>5, <1>6, <1>8, <2>2, <2>3
    <3> QED BY <2>3, <3>1
  <2>4. CASE newlines # {}
    <3>1. read = Min(newlines) - 1 /\ Min(newlines) \in 1 .. chunk
      BY <1>6, <1>7, <2>4
    <3>2. i \in newlines
      BY <1>5, <1>6, <2>2, <3>1
    <3> QED BY <1>5, <1>7, <2>2, <2>4, <3>1, <3>2
  <2> QED BY <2>3, <2>4
<1>10. CASE newlines # {}
  <2>1. read = Min(newlines) - 1 /\ Min(newlines) \in 1 .. chunk
        /\ from + Min(newlines) \in Newlines(spool)
    BY <1>6, <1>7, <1>10
  <2>2. /\ tick' = [next EXCEPT !.at = "oversized"]
        /\ tick' \in Ticks
        /\ tick'.at = "oversized" /\ tick'.offset = tick.offset
        /\ tick'.place = tick.place + read
    <3> HIDE DEF newlines
    <3> DEFINE place == tick.place + read
    <3>1. tick' = [[tick EXCEPT !.place = place] EXCEPT !.at = "oversized"]
      BY <1>1, <1>10
    <3>2. place \in Nat
      BY <1>2, <1>8
    <3> HIDE DEF read, place
    <3>3. [tick EXCEPT !.place = place] \in Ticks
      BY <1>2, <3>2 DEF Ticks
    <3>4. /\ tick' \in Ticks /\ tick'.at = "oversized" /\ tick'.offset = tick.offset
          /\ tick'.place = place
      BY <1>2, <3>1, <3>2, <3>3 DEF Ticks
    <3> QED BY <1>1, <1>10, <3>4 DEF place, read, newlines
  <2> HIDE DEF read, newlines
  <2> DEFINE n == tick.offset + (tick.place + read) + 1
  <2>3. n = from + Min(newlines) /\ n = from + read + 1
    BY <1>2, <1>8, <2>1
  <2>4. tick.place + read # 0
    <3>1. n # tick.offset + 1
      BY <1>3, <2>1, <2>3
    <3> QED BY <1>2, <1>8, <3>1
  <2>5. LineAt(spool, tick.offset, n)
    <3>1. tick.offset \in {0} \cup Newlines(spool)
      BY <1>3 DEF Behind, Starts
    <3>2. \A m \in Newlines(spool) : ~(tick.offset < m /\ m < n)
      <4>1. \A m \in Newlines(spool) : m \in Nat /\ (m < n => m <= from + read)
        BY <1>5, <1>8, <2>3, PlacesAre
      <4> QED BY <1>9, <4>1
    <3>3. tick.offset < n /\ n \in Newlines(spool)
      BY <1>2, <1>8, <2>1, <2>3
    <3> QED BY <3>1, <3>2, <3>3 DEF LineAt
  <2>6. InOversized'
    <3>1. tick'.offset + tick'.place + 1 = n
      BY <1>2, <1>8, <2>2
    <3>2. LineAt(spool', tick'.offset, tick'.offset + tick'.place + 1)
      BY <1>1, <2>2, <2>5, <3>1
    <3> QED BY <2>2, <2>4, <3>2 DEF InOversized
  <2>7. TickInv'
    BY <1>1, <1>3, <2>2, <2>6 DEF TickInv
  <2> QED BY <1>1, <2>2, <2>7, OnlyTheTick DEF SpoolTyped
<1>11. CASE newlines = {} /\ tick.place + read < tick.end
  <2>1. /\ tick' = next /\ tick' \in Ticks
        /\ tick'.at = "scan" /\ tick'.offset = tick.offset /\ tick'.end = tick.end
        /\ tick'.place = tick.place + read
    <3> HIDE DEF read, newlines
    <3> QED BY <1>1, <1>2, <1>8, <1>11 DEF Ticks
  <2> HIDE DEF read, newlines
  <2>2. tick'.offset + tick'.place = from + read
    BY <1>2, <1>8, <2>1
  <2>3. InScan'
    BY <1>1, <1>3, <1>9, <1>11, <2>1, <2>2 DEF InScan
  <2>4. TickInv'
    BY <1>1, <1>3, <2>1, <2>3 DEF TickInv
  <2> QED BY <1>1, <2>1, <2>4, OnlyTheTick DEF SpoolTyped
<1>12. CASE newlines = {} /\ ~(tick.place + read < tick.end)
  <2>1. tick' = NoTick
    <3> HIDE DEF read, newlines
    <3> QED BY <1>1, <1>2, <1>8, <1>12 DEF Ticks
  <2> QED BY <1>1, <2>1, TickEnds DEF SpoolTyped
<1> QED BY <1>10, <1>11, <1>12

\* The line that was scanned begins at the cursor, so that it is the next.
LEMMA IngestOversizedKeeps == ASSUME SpoolInv, IngestOversized PROVE SpoolInv'
<1> DEFINE s == tick.offset
<1> DEFINE n == tick.offset + tick.place + 1
<1> DEFINE record == Record(s, tick.place)
<1> USE DEF SpoolInv
<1>1. /\ tick.at = "oversized" /\ Ingest(record)
      /\ tick' = [tick EXCEPT !.at = "stored", !.end = tick.place + 1]
      /\ UNCHANGED <<spool, cursor, resets, faults>>
  BY DEF IngestOversized
<1>2. tick \in Ticks /\ s \in Nat /\ tick.place \in Nat /\ n \in Nat
  BY DEF SpoolTyped, Ticks
<1>3. s = cursor /\ tick.place # 0 /\ LineAt(spool, s, n)
  BY <1>1 DEF TickInv, NoTick, InOversized
<1>4. s + 1 < n /\ tick.place = n - 1 - s
  BY <1>2, <1>3
<1>5. record \in Lines /\ record.at = s
  BY <1>2, <1>3, <1>4, LinesAre, RecordIs
<1>6. record = Record(s, n - 1 - s)
  BY <1>4
<1> HIDE DEF record
<1>7. /\ stored' \in Seq(Records)
      /\ Range(stored') = Range(stored) \cup {record}
      /\ \A i, j \in DOMAIN stored' : i < j => stored'[i].at < stored'[j].at
      /\ \A x \in Range(stored'), l \in Lines : l.at < x.at => l \in Range(stored')
  BY <1>1, <1>3, <1>5, IngestStores
<1>8. /\ Starts' = Starts /\ Lines' = Lines
  BY <1>1 DEF Starts, Lines
<1>9. n \in Starts' /\ \A l \in Lines' : l.at < n => l \in Range(stored')
  <2>1. \A l \in Lines : l.at < s => l \in Range(stored')
    BY <1>3, <1>7 DEF Behind
  <2> HIDE DEF n, s
  <2>2. n \in Starts /\ \A l \in Lines : l.at < n => l \in Range(stored')
    BY <1>2, <1>3, <1>6, <1>7, <2>1, BehindMoves
  <2> QED BY <1>8, <2>2
<1>10. /\ tick' \in Ticks /\ tick'.at = "stored" /\ tick'.offset = tick.offset
       /\ tick'.end = tick.place + 1
  <2> DEFINE end == tick.place + 1
  <2>1. end \in Nat /\ tick' = [tick EXCEPT !.at = "stored", !.end = end]
    BY <1>1, <1>2
  <2> HIDE DEF end
  <2>2. tick' \in Ticks /\ tick'.at = "stored" /\ tick'.offset = tick.offset /\ tick'.end = end
    BY <1>2, <2>1 DEF Ticks
  <2> QED BY <2>2 DEF end
<1>11. SpoolTyped'
  BY <1>1, <1>7, <1>10 DEF SpoolTyped
<1>12. Behind(cursor)'
  BY <1>1, <1>7, <1>8 DEF Behind
<1>13. StoredAreTheLines'
  BY <1>5, <1>7, <1>8 DEF StoredAreTheLines
<1>14. TickInv'
  <2>1. tick'.offset + tick'.end = n
    BY <1>2, <1>10
  <2>2. Behind(tick.offset + tick.end)'
    BY <1>9, <2>1 DEF Behind
  <2> QED BY <1>1, <1>3, <1>10, <2>2 DEF TickInv
<1> QED BY <1>11, <1>12, <1>13, <1>14

\* With no newline behind the place, the place is the end of the complete lines.
LEMMA StoreCursorKeeps == ASSUME SpoolInv, StoreCursor PROVE SpoolInv'
<1> USE DEF SpoolInv
<1>1. /\ tick.at = "stored" \/ (tick.at = "lines" /\ LineEnds = {})
      /\ cursor' = tick.offset + tick.end
      /\ tick' = NoTick /\ UNCHANGED <<spool, stored, resets, faults>>
  BY DEF StoreCursor
<1>2. tick \in Ticks /\ tick.offset \in Nat /\ tick.place \in Nat /\ tick.end \in Nat
  BY DEF SpoolTyped, Ticks
<1>3. Behind(tick.offset + tick.end)
  <2>1. CASE tick.at = "stored"
    BY <2>1 DEF TickInv, NoTick
  <2>2. CASE tick.at = "lines" /\ LineEnds = {}
    <3>1. /\ tick.offset + tick.end <= Len(spool) /\ tick.place <= tick.end
          /\ Behind(tick.offset + tick.place) /\ tick.offset + tick.end \in Newlines(spool)
      BY <2>2 DEF TickInv, NoTick, InLines
    <3>2. LineEnds = {i \in 1 .. tick.end : i > tick.place /\ tick.offset + i \in Newlines(spool)}
      BY <1>2, <3>1, NewlinesRead DEF LineEnds
    <3>3. tick.place = tick.end
      BY <1>2, <2>2, <3>1, <3>2
    <3> QED BY <3>1, <3>3
  <2> QED BY <1>1, <2>1, <2>2
<1>4. Lines' = Lines /\ Starts' = Starts
  BY <1>1 DEF Lines, Starts
<1>5. SpoolTyped'
  <2>1. tick' \in Ticks /\ cursor' \in Nat
    BY <1>1, <1>2 DEF Ticks, NoTick
  <2> QED BY <1>1, <2>1 DEF SpoolTyped
<1>6. Behind(cursor)'
  BY <1>1, <1>3, <1>4 DEF Behind
<1>7. StoredAreTheLines'
  BY <1>1, <1>4 DEF StoredAreTheLines
<1> QED BY <1>1, <1>5, <1>6, <1>7 DEF TickInv

\* The start of the spool is behind nothing.
LEMMA BehindTheStart == ASSUME SpoolTyped PROVE Behind(0)
<1>1. \A l \in Lines : ~(l.at < 0)
  BY LineStarts, PlacesAre
<1> QED BY <1>1 DEF Behind, Starts

\* A lost cursor is where the spool begins.
LEMMA LoseCursorKeeps == ASSUME SpoolInv, LoseCursor PROVE SpoolInv'
<1> USE DEF SpoolInv
<1>1. tick' = NoTick /\ cursor' = 0 /\ faults' = faults + 1
      /\ UNCHANGED <<spool, tick, stored, resets>>
  BY DEF LoseCursor
<1>2. Lines' = Lines /\ Starts' = Starts
  BY <1>1 DEF Lines, Starts
<1>3. SpoolTyped'
  BY <1>1 DEF SpoolTyped
<1>4. Behind(cursor)'
  BY <1>1, <1>2, BehindTheStart DEF Behind
<1>5. StoredAreTheLines'
  BY <1>1, <1>2 DEF StoredAreTheLines
<1> QED BY <1>1, <1>3, <1>4, <1>5 DEF TickInv

\* A byte more adds at most a line that begins where the last one ended, behind
\* every place of the reader.
LEMMA LinesOfMore ==
  ASSUME SpoolTyped, NEW b \in {"byte", "newline"}, spool' = Append(spool, b)
  PROVE  /\ spool' \in Seq({"byte", "newline"}) /\ Len(spool') = Len(spool) + 1
         /\ Newlines(spool) \subseteq Newlines(spool')
         /\ \A m \in Newlines(spool') : m \in Newlines(spool) \/ m = Len(spool) + 1
         /\ \A s, n : LineAt(spool, s, n) => LineAt(spool', s, n)
         /\ Starts \subseteq Starts'
         /\ Lines \subseteq Lines'
         /\ \A l \in Lines' : l \in Lines \/ \A p \in Starts : p <= l.at
<1>1. /\ spool' \in Seq({"byte", "newline"}) /\ Len(spool') = Len(spool) + 1 /\ Len(spool) \in Nat
      /\ DOMAIN spool = 1 .. Len(spool) /\ DOMAIN spool' = 1 .. Len(spool) + 1
      /\ \A i \in 1 .. Len(spool) : spool'[i] = spool[i]
  BY DEF SpoolTyped
<1>2. /\ Newlines(spool) \subseteq Newlines(spool')
      /\ \A m \in Newlines(spool') : m \in Newlines(spool) \/ m = Len(spool) + 1
  BY <1>1 DEF Newlines
<1>3. SpoolTyped /\ Newlines(spool) \subseteq 1 .. Len(spool) /\ Newlines(spool') \subseteq Nat
  BY <1>1, <1>2, PlacesAre
<1>4. ASSUME NEW s, NEW n, LineAt(spool, s, n) PROVE LineAt(spool', s, n)
  <2>1. n <= Len(spool) /\ n \in Nat /\ s \in Nat
    BY <1>1, <1>3, <1>4 DEF LineAt
  <2>2. \A m \in Newlines(spool') : ~(s < m /\ m < n)
    BY <1>1, <1>2, <1>4, <2>1 DEF LineAt
  <2> QED BY <1>2, <1>4, <2>2 DEF LineAt
<1>5. Starts \subseteq Starts'
  BY <1>2 DEF Starts
<1>6. ASSUME NEW l
      PROVE  l \in Lines' <=> \E s, n : /\ LineAt(spool', s, n)
                                        /\ s + 1 < n
                                        /\ l = Record(s, n - 1 - s)
  <2>1. Lines' = LinesOf(spool')
    BY DEF Lines, LinesOf, Starts
  <2> QED BY <1>1, <2>1, LinesIn
<1>7. Lines \subseteq Lines'
  BY <1>4, <1>6, LinesAre
<1>8. ASSUME NEW l \in Lines' PROVE l \in Lines \/ \A p \in Starts : p <= l.at
  <2>1. PICK s, n : LineAt(spool', s, n) /\ s + 1 < n /\ l = Record(s, n - 1 - s)
    BY <1>6
  <2>2. s \in Nat /\ n \in Nat /\ n - 1 - s \in Nat /\ l.at = s
    <3>1. s \in Nat /\ n \in Nat
      BY <1>3, <2>1 DEF LineAt
    <3>2. n - 1 - s \in Nat
      BY <2>1, <3>1
    <3> QED BY <2>1, <3>1, <3>2, RecordIs
  <2>3. CASE n \in Newlines(spool)
    <3>1. s \in {0} \cup Newlines(spool)
      BY <1>1, <1>2, <1>3, <2>1, <2>2, <2>3 DEF LineAt
    <3>2. LineAt(spool, s, n)
      BY <1>2, <2>1, <2>3, <3>1 DEF LineAt
    <3> QED BY <2>1, <3>2, LinesAre
  <2>4. CASE n = Len(spool) + 1
    <3>1. \A m \in Newlines(spool) : m \in Nat /\ m < n
      BY <1>1, <1>3, <2>4
    <3>2. \A m \in Newlines(spool) : m <= s
      BY <1>2, <2>1, <2>2, <3>1 DEF LineAt
    <3> QED BY <2>2, <3>2 DEF Starts
  <2> QED BY <1>2, <2>1, <2>3, <2>4 DEF LineAt
<1> QED BY <1>1, <1>2, <1>4, <1>5, <1>7, <1>8

\* Every place of the reader stays where it is, and behind what is stored.
LEMMA AppendByteKeeps == ASSUME SpoolInv, AppendByte PROVE SpoolInv'
<1> USE DEF SpoolInv
<1>1. PICK b \in {"byte", "newline"} : spool' = Append(spool, b)
  BY DEF AppendByte
<1>2. UNCHANGED <<cursor, tick, stored, resets, faults>>
  BY DEF AppendByte
<1>3. /\ spool' \in Seq({"byte", "newline"}) /\ Len(spool') = Len(spool) + 1
      /\ Newlines(spool) \subseteq Newlines(spool')
      /\ \A m \in Newlines(spool') : m \in Newlines(spool) \/ m = Len(spool) + 1
      /\ \A s, n : LineAt(spool, s, n) => LineAt(spool', s, n)
      /\ Starts \subseteq Starts'
      /\ Lines \subseteq Lines'
      /\ \A l \in Lines' : l \in Lines \/ \A p \in Starts : p <= l.at
  BY <1>1, LinesOfMore
<1>4. Starts \subseteq Nat /\ Len(spool) \in Nat
  BY PlacesAre
<1>5. SpoolTyped'
  BY <1>2, <1>3 DEF SpoolTyped
<1>6. \A l \in Lines' : l.at \in Nat
  <2>1. ASSUME NEW l \in Lines' PROVE l.at \in Nat
    <3>1. PICK s, n : LineAt(spool', s, n) /\ s + 1 < n /\ l = Record(s, n - 1 - s)
      <4>1. Lines' = LinesOf(spool')
        BY DEF Lines, LinesOf, Starts
      <4> QED BY <1>3, <4>1, LinesIn
    <3>2. s \in Nat /\ n \in Nat
      BY <1>3, <3>1, NewlinesAre DEF LineAt
    <3>3. n - 1 - s \in Nat
      BY <3>1, <3>2
    <3> QED BY <3>1, <3>2, <3>3, RecordIs
  <2> QED BY <2>1
<1>7. ASSUME NEW p, Behind(p)
      PROVE  p \in Starts' /\ \A l \in Lines' : l.at < p => l \in Range(stored')
  <2>1. p \in Starts /\ p \in Starts' /\ p \in Nat
    BY <1>3, <1>4, <1>7 DEF Behind
  <2>2. ASSUME NEW l \in Lines', l.at < p PROVE l \in Lines
    BY <1>3, <1>6, <2>1, <2>2
  <2> QED BY <1>2, <1>7, <2>1, <2>2 DEF Behind
<1>8. Behind(cursor)'
  BY <1>2, <1>7 DEF Behind
<1>9. StoredAreTheLines'
  <2>1. Range(stored') \subseteq Lines'
    BY <1>2, <1>3 DEF StoredAreTheLines
  <2>2. ASSUME NEW x \in Range(stored'), NEW l \in Lines', l.at < x.at PROVE l \in Range(stored')
    <3>1. x \in Lines /\ x.at \in Starts
      BY <1>2, LineStarts DEF StoredAreTheLines
    <3>2. l \in Lines
      BY <1>3, <1>4, <1>6, <2>2, <3>1
    <3> QED BY <1>2, <2>2, <3>2 DEF StoredAreTheLines
  <2>3. \A i, j \in DOMAIN stored' : i < j => stored'[i].at < stored'[j].at
    BY <1>2 DEF StoredAreTheLines
  <2> QED BY <2>1, <2>2, <2>3 DEF StoredAreTheLines
<1>10. TickInv'
  <2>1. CASE tick = NoTick
    BY <1>2, <2>1 DEF TickInv
  <2>2. CASE tick # NoTick
    <3>1. /\ tick.at # "none" /\ tick.offset = cursor
          /\ tick.at \in {"lines", "scan"} => tick.offset + tick.end <= Len(spool)
          /\ tick.at = "lines" => InLines
          /\ tick.at = "scan" => InScan
          /\ tick.at = "oversized" => InOversized
          /\ tick.at = "stored" => Behind(tick.offset + tick.end)
      BY <2>2 DEF TickInv
    <3>2. tick.offset \in Nat /\ tick.place \in Nat /\ tick.end \in Nat
      BY DEF SpoolTyped, Ticks
    <3>3. tick.at \in {"lines", "scan"} => tick.offset + tick.end <= Len(spool')
      BY <1>3, <1>4, <3>1, <3>2
    <3>4. tick.at = "lines" => InLines'
      <4> SUFFICES ASSUME tick.at = "lines" PROVE InLines'
        OBVIOUS
      <4>1. Behind(tick.offset + tick.place)'
        BY <1>2, <1>7, <3>1 DEF Behind, InLines
      <4> QED BY <1>2, <1>3, <3>1, <4>1 DEF InLines
    <3>5. tick.at = "scan" => InScan'
      <4> SUFFICES ASSUME tick.at = "scan" PROVE InScan'
        OBVIOUS
      <4>1. /\ tick.place < tick.end /\ tick.offset + 1 \notin Newlines(spool)
            /\ \A m \in Newlines(spool) : ~(tick.offset < m /\ m <= tick.offset + tick.place)
        BY <3>1 DEF InScan
      <4>2. tick.offset + tick.place < Len(spool) + 1 /\ tick.offset + 1 < Len(spool) + 1
        BY <1>4, <3>1, <3>2, <4>1
      <4>3. tick.offset + 1 \notin Newlines(spool')
        BY <1>3, <1>4, <3>2, <4>1, <4>2
      <4>4. \A m \in Newlines(spool') : ~(tick.offset < m /\ m <= tick.offset + tick.place)
        BY <1>3, <1>4, <3>2, <4>1, <4>2
      <4> QED BY <1>2, <4>1, <4>3, <4>4 DEF InScan
    <3>6. tick.at = "oversized" => InOversized'
      BY <1>2, <1>3, <3>1 DEF InOversized
    <3>7. tick.at = "stored" => Behind(tick.offset + tick.end)'
      BY <1>2, <1>7, <3>1 DEF Behind
    <3> QED BY <1>2, <3>1, <3>3, <3>4, <3>5, <3>6, <3>7 DEF TickInv
  <2> QED BY <2>1, <2>2
<1> QED BY <1>5, <1>8, <1>9, <1>10

\* After a reset there is nothing, as at first.
LEMMA ResetSpoolKeeps == ASSUME SpoolInv, ResetSpool PROVE SpoolInv'
<1>1. spool' = <<>> /\ cursor' = 0 /\ stored' = <<>> /\ tick' = NoTick
  BY DEF ResetSpool
<1>2. SpoolTyped'
  BY <1>1 DEF SpoolInv, SpoolTyped, ResetSpool
<1>3. Newlines(spool') = {}
  BY <1>1 DEF Newlines
<1>4. Starts' = {0} /\ Lines' = {}
  BY <1>3 DEF Starts, Lines
<1>5. Behind(cursor)'
  BY <1>1, <1>4 DEF Behind
<1>6. StoredAreTheLines'
  <2>1. Range(stored') = {} /\ DOMAIN stored' = {}
    BY <1>1 DEF Range
  <2> QED BY <2>1 DEF StoredAreTheLines
<1> QED BY <1>1, <1>2, <1>5, <1>6 DEF SpoolInv, TickInv

\* The invariant is inductive.
LEMMA NextSpoolInv == SpoolInv /\ [Next]_vars => SpoolInv'
<1> SUFFICES ASSUME SpoolInv, [Next]_vars PROVE SpoolInv'
  OBVIOUS
<1>1. CASE Tick
  BY <1>1, StartTickKeeps, IngestLineKeeps, ScanChunkKeeps, IngestOversizedKeeps,
     StoreCursorKeeps DEF Tick
<1>2. CASE CutShort
  <2>1. faults' \in Nat
    BY <1>2 DEF SpoolInv, SpoolTyped, CutShort
  <2> QED BY <1>2, <2>1, TickEnds DEF SpoolInv, SpoolTyped, CutShort
<1>3. CASE LoseCursor
  BY <1>3, LoseCursorKeeps
<1>4. CASE AppendByte
  BY <1>4, AppendByteKeeps
<1>5. CASE ResetSpool
  BY <1>5, ResetSpoolKeeps
<1>6. CASE UNCHANGED vars
  <2>1. UNCHANGED <<spool, cursor, tick, stored, resets, faults>>
    BY <1>6 DEF vars
  <2>2. Lines' = Lines /\ Starts' = Starts
    BY <2>1 DEF Lines, Starts
  <2>3. TickInv'
    BY <2>1, <2>2 DEF SpoolInv, TickInv, InLines, InScan, InOversized, Behind
  <2>4. tick' \in Ticks /\ resets' \in Nat /\ faults' \in Nat
    BY <2>1 DEF SpoolInv, SpoolTyped
  <2> QED BY <2>1, <2>3, <2>4, OnlyTheTick
<1> QED BY <1>1, <1>2, <1>3, <1>4, <1>5, <1>6 DEF Next

-----------------------------------------------------------------------------
(***************************************************************************)
(* Theorems.                                                               *)
(***************************************************************************)

\* Everywhere the place a tick has come to is the start of a line behind what is
\* stored, or what it has scanned has no newline.
THEOREM SpoolInvariant == Spec => []SpoolInv
  BY InitSpoolInv, NextSpoolInv, PTL DEF Spec

\* For any size of chunk, record and preview, and any faults, resets and appends: what
\* was ingested are the complete lines of the spool from its beginning, each once, in
\* order and with its true length.
THEOREM StoredAreTheLinesHolds == Spec => []StoredAreTheLines
<1>1. SpoolInv => StoredAreTheLines
  BY DEF SpoolInv
<1> QED BY <1>1, SpoolInvariant, PTL

\* And the cursor stands at the start of a line, behind lines that are all ingested.
THEOREM CursorIsHonestHolds == Spec => []CursorIsHonest
<1>1. SpoolInv => CursorIsHonest
  BY DEF SpoolInv, Behind, CursorIsHonest
<1> QED BY <1>1, SpoolInvariant, PTL
=============================================================================
