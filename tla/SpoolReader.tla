---------------------------- MODULE SpoolReader ----------------------------
(***************************************************************************)
(* How the DirectAppendObserver frames incoming.ndjson, the spool of a     *)
(* session, into records: byte offsets, chunks, lines that are not yet     *)
(* complete and lines too long for a chunk.  Evidence starts from the      *)
(* complete lines and asks what becomes of each.                           *)
(*                                                                         *)
(* A tick reads one chunk from the cursor's offset, ingests the complete   *)
(* lines in it one after the other and stores the offset behind the last.  *)
(* A line with no end in its chunk is searched for it read by read.        *)
(* Programs append meanwhile, a byte here being the least they append; a   *)
(* tick sees no more than the size of the file when it began.  A record's  *)
(* id is made of its offset and content, so that a tick that is repeated   *)
(* stores nothing twice.                                                   *)
(***************************************************************************)
EXTENDS Naturals, Sequences, SequencesExt

CONSTANTS
    MaxRead,    \* MAX_READ_BYTES, the size of a chunk
    MaxRecord,  \* MAX_INGESTION_RECORD_BYTES
    MaxPreview, \* MAX_MALFORMED_PREVIEW_BYTES
    MaxFile,    \* bytes in the spool
    MaxResets,  \* resets of the session
    MaxFaults   \* ticks cut short, and cursor files lost

\* A line that may be ingested fits into a chunk with its newline.
ASSUME SpoolAssumption ==
    /\ {MaxPreview, MaxFile, MaxResets, MaxFaults, MaxRecord, MaxRead} \subseteq Nat
    /\ MaxRecord < MaxRead

VARIABLES
    spool,  \* incoming.ndjson: "byte" and "newline"
    cursor, \* incoming.cursor.json
    tick,   \* the tick under way
    stored, \* what was ingested, in the order of its first time
    resets, faults

vars == <<spool, cursor, tick, stored, resets, faults>>

\* A tick counts bytes from its offset.  "lines": place is where the next line
\* begins and end where the complete ones do; "scan": place is where the next read
\* begins and end the size of the file; "oversized": place is the length of the line
\* that was found; "stored": end is behind it.
NoTick == [at |-> "none", offset |-> 0, place |-> 0, end |-> 0]

Init ==
    /\ spool = <<>>
    /\ cursor = 0
    /\ tick = NoTick
    /\ stored = <<>>
    /\ resets = 0
    /\ faults = 0

Least(m, n) == IF m <= n THEN m ELSE n

Newlines(bytes) == {i \in DOMAIN bytes : bytes[i] = "newline"}

-----------------------------------------------------------------------------
(***************************************************************************)
(* Framing.                                                                *)
(***************************************************************************)
Record(at, length) ==
    [at |-> at, length |-> length, preview |-> Least(length, MaxPreview),
     verdict |-> IF length > MaxRecord THEN "too-large" ELSE "ingested"]

\* Mistake: the chunk is taken to end with a line.
WholeChunk(contents) == contents

\* What lastIndexOf("\n") leaves of a chunk.
Complete(contents) == SubSeq(contents, 1, Max({0} \cup Newlines(contents)))

\* Mistake: a record is identified by its place in the chunk.
PlaceInChunk(offset, start) == start

SourceOffset(offset, start) == offset + start

\* Bytes of the spool.  What was read from it stays the same while the tick has
\* the session, since programs only append.
Bytes(offset, length) == SubSeq(spool, offset + 1, offset + length)

\* ingestRecord or ingestOversizedRecord: a known id is stored no second time.
Ingest(record) ==
    LET known == \E s \in Range(stored) : s.at = record.at /\ s.length = record.length
    IN stored' = IF known THEN stored ELSE Append(stored, record)

-----------------------------------------------------------------------------
(***************************************************************************)
(* A tick.                                                                 *)
(***************************************************************************)

\* A cursor past the end of the spool is void.  Only an interrupted reset leaves
\* one; Evidence has those, and the tick that rewrites it (RewindCursor).
Offset == IF cursor <= Len(spool) THEN cursor ELSE 0
Available == Len(spool) - Offset

\* Mistake: what is not complete within a chunk is taken for incomplete.
NeverOverlong == FALSE

\* A line without end in its chunk that is too long for a record.
Overlong == Available > MaxRecord

\* The chunk holds complete lines, or its only line may be too long for it.
\* Otherwise the tick ends and nothing changes.
StartTick ==
    /\ tick = NoTick
    /\ Available > 0
    /\ LET complete == Complete(Bytes(Offset, Least(Available, MaxRead)))
       IN \/ /\ complete # <<>>
             /\ tick' = [at |-> "lines", offset |-> Offset, place |-> 0, end |-> Len(complete)]
          \/ /\ complete = <<>>
             /\ Overlong
             /\ tick' = [at |-> "scan", offset |-> Offset, place |-> 0, end |-> Available]
    /\ UNCHANGED <<spool, cursor, stored, resets, faults>>

\* Where lines end behind the place the tick has come to.
LineEnds == {i \in Newlines(Bytes(tick.offset, tick.end)) : i > tick.place}

\* The next line; an empty one is no record.
IngestLine ==
    /\ tick.at = "lines"
    /\ LineEnds # {}
    /\ LET newline == Min(LineEnds)
           length == newline - 1 - tick.place
       IN /\ IF length = 0 THEN UNCHANGED stored
             ELSE Ingest(Record(SourceOffset(tick.offset, tick.place), length))
          /\ tick' = [tick EXCEPT !.place = newline]
    /\ UNCHANGED <<spool, cursor, resets, faults>>

\* scanOversizedRecord: read on, a chunk at a time, to the first newline.  There may
\* be none up to the size of the file.
ScanChunk ==
    /\ tick.at = "scan"
    /\ LET bytes == Bytes(tick.offset + tick.place, Least(MaxRead, tick.end - tick.place))
           newlines == Newlines(bytes)
           read == IF newlines = {} THEN Len(bytes) ELSE Min(newlines) - 1
           next == [tick EXCEPT !.place = @ + read]
       IN tick' = IF newlines # {} THEN [next EXCEPT !.at = "oversized"]
                  ELSE IF next.place < tick.end THEN next
                  ELSE NoTick
    /\ UNCHANGED <<spool, cursor, stored, resets, faults>>

IngestOversized ==
    /\ tick.at = "oversized"
    /\ Ingest(Record(tick.offset, tick.place))
    /\ tick' = [tick EXCEPT !.at = "stored", !.end = tick.place + 1]
    /\ UNCHANGED <<spool, cursor, resets, faults>>

StoreCursor ==
    /\ tick.at = "stored" \/ (tick.at = "lines" /\ LineEnds = {})
    /\ cursor' = tick.offset + tick.end
    /\ tick' = NoTick
    /\ UNCHANGED <<spool, stored, resets, faults>>

\* A write fails and the tick is given up, or the daemon dies and is restarted.
CutShort ==
    /\ tick # NoTick
    /\ faults < MaxFaults
    /\ faults' = faults + 1
    /\ tick' = NoTick
    /\ UNCHANGED <<spool, cursor, stored, resets>>

\* readCursor finds no file, or one that is not a cursor.
LoseCursor ==
    /\ tick = NoTick
    /\ cursor # 0
    /\ faults < MaxFaults
    /\ faults' = faults + 1
    /\ cursor' = 0
    /\ UNCHANGED <<spool, tick, stored, resets>>

-----------------------------------------------------------------------------
\* A program appends, in as many pieces as it likes.
AppendByte ==
    /\ Len(spool) < MaxFile
    /\ \E b \in {"byte", "newline"} : spool' = Append(spool, b)
    /\ UNCHANGED <<cursor, tick, stored, resets, faults>>

\* A reset, which holds the session and here completes.
ResetSpool ==
    /\ tick = NoTick
    /\ resets < MaxResets
    /\ resets' = resets + 1
    /\ spool' = <<>>
    /\ cursor' = 0
    /\ stored' = <<>>
    /\ UNCHANGED <<tick, faults>>

Tick == StartTick \/ IngestLine \/ ScanChunk \/ IngestOversized \/ StoreCursor
Next == Tick \/ CutShort \/ LoseCursor \/ AppendByte \/ ResetSpool

Spec == Init /\ [][Next]_vars

\* The observer polls for ever; what holds the session finishes.
FairSpec == Spec /\ WF_vars(Tick)

-----------------------------------------------------------------------------
(***************************************************************************)
(* Properties.                                                             *)
(***************************************************************************)

\* Where lines begin.
Starts == {0} \cup Newlines(spool)

\* The complete lines of the spool that are not empty, told without chunks.
Lines ==
    {Record(p[1], p[2] - 1 - p[1]) : p \in
        {q \in Starts \X Newlines(spool) :
            q[1] + 1 < q[2] /\ \A m \in Newlines(spool) : ~(q[1] < m /\ m < q[2])}}

\* What was ingested are the complete lines of the spool from its beginning, each
\* once and in order, the too long ones told as such with their true length:
\* however lines lie across chunks and whatever is read again after a fault.
StoredAreTheLines ==
    /\ Range(stored) \subseteq Lines
    /\ \A i, j \in DOMAIN stored : i < j => stored[i].at < stored[j].at
    /\ \A s \in Range(stored), l \in Lines : l.at < s.at => l \in Range(stored)

\* The cursor stands at the start of a line, behind lines that are all ingested.
CursorIsHonest ==
    /\ cursor \in Starts
    /\ \A l \in Lines : l.at < cursor => l \in Range(stored)

\* Every line that ends is passed by the cursor, unless a reset takes it first:
\* no length and no place of a line stops the reader.
EveryLineIsIngested ==
    \A p \in 1 .. MaxFile :
        p \in Newlines(spool) ~> (cursor >= p \/ p > Len(spool))
=============================================================================
