------------------------------ MODULE Evidence ------------------------------
(***************************************************************************)
(* The evidence of one debugging session: what the daemon keeps on disk    *)
(* for it, and the operations that read and change it.                     *)
(*                                                                         *)
(* Evidence arrives on two paths.  An instrumented program POSTs a batch   *)
(* of records to /ingest/<session> (IngestApi.handle), or appends lines to *)
(* incoming.ndjson, the spool, which the daemon polls                      *)
(* (DirectAppendObserver).  Both end in IngestionService.ingestRecord,     *)
(* which appends an accepted record to events.ndjson under the next        *)
(* sequence number, and a rejected or redacted one's diagnostic to         *)
(* diagnostics.ndjson.  `reset` empties all of it and draws a new evidence *)
(* epoch; `clean` removes the session.                                     *)
(*                                                                         *)
(* Operations on a session run one at a time (SessionQueue), so one job    *)
(* record describes the operation that holds the session and how far it    *)
(* has come; a job is split where the code writes to disk, because that is *)
(* where a crash or a failed write leaves the files.  The programs that    *)
(* append to the spool take no lock, and neither does a crash.             *)
(***************************************************************************)
EXTENDS Naturals, Sequences, SequencesExt

CONSTANTS
    Contents,     \* what a record may contain, up to what the daemon tells apart
    Kind,         \* [Contents -> {"plain", "secret", "malformed", "large"}]
    Clients,      \* programs that POST evidence; each makes one request
    Spool,        \* the origin of a record read from incoming.ndjson
    Unloaded,     \* a cache of the daemon that has no entry for the session
    MaxBatch,     \* records in one POST
    MaxSpool,     \* lines in incoming.ndjson
    MaxResets,    \* resets asked for
    MaxCrashes,   \* crashes of the daemon (each followed by a restart)
    MaxFaults,    \* writes that fail, and cursor files lost
    MaxReads      \* readers that come by

ASSUME EvidenceAssumption ==
    /\ Kind \in [Contents -> {"plain", "secret", "malformed", "large"}]
    /\ Spool \notin Clients
    /\ Unloaded \notin Nat
    /\ {MaxBatch, MaxSpool, MaxResets, MaxCrashes, MaxFaults, MaxReads} \subseteq Nat

VARIABLES
    \* On disk, under sessions/<id>/.
    present,     \* session.json exists
    epoch,       \* evidenceEpoch of session.json: a fresh UUID, here a fresh number
    events,      \* events.ndjson
    diagnostics, \* diagnostics.ndjson
    spool,       \* incoming.ndjson, its complete lines
    cursor,      \* incoming.cursor.json: how many spool lines are consumed
    \* In the daemon's memory.
    knownEvents, \* EventStore.knownIds of the session, or Unloaded
    knownDiags,  \* DiagnosticStore.knownIds of the session, or Unloaded
    lastSeq,     \* EventSequence.values of the session, or Unloaded
    job,         \* the operation that holds the session
    stray,       \* writes of a failed reset that are still under way
    request,     \* the POST request of each client
    \* What the properties remember.
    acked,       \* records the daemon reported accepted since the evidence was cleared
    shown,       \* epoch and events a reader last saw
    torn,        \* a reset was interrupted and none has completed since
    resets, crashes, faults, reads   \* how much of each bound is used up

disk    == <<present, epoch, events, diagnostics, spool, cursor>>
caches  == <<knownEvents, knownDiags, lastSeq>>
budgets == <<resets, crashes, faults, reads>>
vars == <<disk, caches, job, stray, request, acked, shown, torn, budgets>>

\* A record is identified by where it came from.  A direct record's event and
\* diagnostic ids are hashes of (session, byte offset, content); an HTTP
\* record's are random, which its place in its request stands for.
RecordIds == [from : Clients \cup {Spool}, at : Nat, what : Contents]

EventIds == {e.id : e \in Range(events)}
DiagnosedFor(reason) == {d.about : d \in {x \in Range(diagnostics) : x.reason = reason}}

\* Mistake: a reset that leaves the diagnostics of the last cycle.
ResetFilesButDiagnostics == {"events", "spool", "cursor", "query-spools"}

\* The log-sort directory, cleared with them, is empty unless a logs crashed.
ResetFiles == {"events", "diagnostics", "spool", "cursor", "query-spools"}

Idle == [kind |-> "none", at |-> "none", from |-> Spool,
         base |-> 0, batch |-> <<>>, done |-> 0, todo |-> {}]
Free == job.kind = "none"
InReset == job.kind = "reset"

Valid(c) == Kind[c] \in {"plain", "secret"}

Init ==
    /\ present = TRUE
    /\ epoch = 0
    /\ events = <<>>
    /\ diagnostics = <<>>
    /\ spool = <<>>
    /\ cursor = 0
    /\ knownEvents = Unloaded
    /\ knownDiags = Unloaded
    /\ lastSeq = Unloaded
    /\ job = Idle
    /\ stray = {}
    /\ request = [c \in Clients |-> [reply |-> "unsent", left |-> 0, posted |-> 0]]
    /\ acked = {}
    /\ shown = [epoch |-> 0, events |-> <<>>]
    /\ torn = FALSE
    /\ resets = 0
    /\ crashes = 0
    /\ faults = 0
    /\ reads = 0

-----------------------------------------------------------------------------
(***************************************************************************)
(* The two ways in.                                                        *)
(***************************************************************************)

\* An instrumented program appends one line to incoming.ndjson.
AppendToSpool(what) ==
    /\ present
    /\ Len(spool) < MaxSpool
    /\ spool' = Append(spool, what)
    /\ UNCHANGED <<present, epoch, events, diagnostics, cursor, caches, job, stray,
                   request, acked, shown, torn, budgets>>

\* A POST arrives: hasSession, then the body is read and split into records.
StartRequest(c) ==
    /\ Free
    /\ request[c].reply = "unsent"
    /\ \E n \in 1 .. MaxBatch :
          request' = [request EXCEPT ![c] =
              IF present THEN [reply |-> "pending", left |-> n, posted |-> 0]
              ELSE [reply |-> "404", left |-> 0, posted |-> 0]]
    /\ UNCHANGED <<disk, caches, job, stray, acked, shown, torn, budgets>>

\* ingestRecord for the next record of a POST: each takes the session anew.
TakeRecord(c, what) ==
    /\ Free
    /\ request[c].reply = "pending"
    /\ present
    /\ job' = [Idle EXCEPT !.kind = "http", !.at = "record", !.from = c,
                           !.base = request[c].posted, !.batch = <<what>>]
    /\ UNCHANGED <<disk, caches, stray, request, acked, shown, torn, budgets>>

\* ... which a clean may have removed since hasSession.
TakeRecordTooLate(c) ==
    /\ Free
    /\ request[c].reply = "pending"
    /\ ~present
    /\ request' = [request EXCEPT ![c].reply = "404"]
    /\ UNCHANGED <<disk, caches, job, stray, acked, shown, torn, budgets>>

\* Where a tick starts reading: a cursor past the end of the spool is void.
SpoolOffset == IF cursor <= Len(spool) THEN cursor ELSE 0

\* The observer's poll: read the complete lines of one chunk of the spool.  How
\* many lines fit depends on their length, hence the choice of upto.
StartTick ==
    /\ Free
    /\ present
    /\ \E upto \in SpoolOffset + 1 .. Len(spool) :
          job' = [Idle EXCEPT !.kind = "tick", !.at = "record", !.base = SpoolOffset,
                             !.batch = SubSeq(spool, SpoolOffset + 1, upto)]
    /\ UNCHANGED <<disk, caches, stray, request, acked, shown, torn, budgets>>

\* Nothing to read: a void cursor is rewritten.
RewindCursor ==
    /\ Free
    /\ present
    /\ Len(spool) = SpoolOffset
    /\ cursor # SpoolOffset
    /\ cursor' = SpoolOffset
    /\ UNCHANGED <<present, epoch, events, diagnostics, spool, caches, job, stray,
                   request, acked, shown, torn, budgets>>

-----------------------------------------------------------------------------
(***************************************************************************)
(* Ingesting one record, for either path.                                  *)
(***************************************************************************)
What == job.batch[job.done + 1]
RecordId == [from |-> job.from, at |-> job.base + job.done, what |-> What]

AtRecord == job.kind \in {"http", "tick"} /\ job.at = "record"

\* Mistake: an id cache that starts empty instead of being read from the file.
LoadedEventsUnread == IF knownEvents = Unloaded THEN {} ELSE knownEvents

\* Mistake: a sequence that starts over when its cache is empty.
NextSeqUnread == 1 + IF lastSeq = Unloaded THEN 0 ELSE lastSeq

\* The caches as hasId, append and next find them: read from the file if absent.
LoadedEvents == IF knownEvents = Unloaded THEN EventIds ELSE knownEvents
LoadedDiags == IF knownDiags = Unloaded
               THEN DiagnosedFor("rejected") ELSE knownDiags
NextSeq == 1 + IF lastSeq = Unloaded
               THEN Max({0} \cup {e.seq : e \in Range(events)})
               ELSE lastSeq

\* Mistake: an off-by-one in the loop over the records of a POST.
HasMoreOrEqual(left) == left > 0

\* Whether the loop over the records of a POST goes on after this one.
HasMore(left) == left > 1

\* What follows a record: the POST's next record or its response, or the
\* observer's next line.
Advance(reply) ==
    IF job.kind = "http"
    THEN /\ job' = Idle
         /\ request' = [request EXCEPT ![job.from] =
                [reply |-> IF reply = "202" /\ HasMore(@.left) THEN "pending" ELSE reply,
                 left |-> @.left - 1, posted |-> @.posted + 1]]
    ELSE /\ job' = [job EXCEPT !.done = @ + 1,
                              !.at = IF job.done + 1 = Len(job.batch)
                                     THEN "cursor" ELSE "record"]
         /\ UNCHANGED request

\* A malformed, invalid or oversized record leaves a diagnostic; an oversized
\* one also ends its POST.
RejectRecord ==
    /\ AtRecord
    /\ ~Valid(What)
    /\ diagnostics' = IF RecordId \in LoadedDiags THEN diagnostics
                      ELSE Append(diagnostics, [about |-> RecordId, reason |-> "rejected"])
    /\ knownDiags' = LoadedDiags \cup {RecordId}
    /\ Advance(IF Kind[What] = "large" THEN "413" ELSE "202")
    /\ UNCHANGED <<present, epoch, events, spool, cursor, knownEvents, lastSeq, stray,
                   acked, shown, torn, budgets>>

\* A record ingested before is reported accepted and nothing is written.
AcceptKnown ==
    /\ AtRecord
    /\ Valid(What)
    /\ RecordId \in LoadedEvents
    /\ knownEvents' = LoadedEvents
    /\ acked' = acked \cup {RecordId}
    /\ Advance("202")
    /\ UNCHANGED <<disk, knownDiags, lastSeq, stray, shown, torn, budgets>>

\* Mistake: only rejected records are taken to have diagnostics.
NoDiagnostics(c) == Kind[c] = "malformed"

\* Validation found secrets in a valid record, and redacted them.
HasDiagnostics(c) == Kind[c] = "secret"

\* A new record gets the next sequence number and is appended.  If nothing was
\* redacted the record is done; otherwise its diagnostic is a second write.
AcceptNew ==
    /\ AtRecord
    /\ Valid(What)
    /\ RecordId \notin LoadedEvents
    /\ events' = Append(events, [id |-> RecordId, seq |-> NextSeq])
    /\ knownEvents' = LoadedEvents \cup {RecordId}
    /\ lastSeq' = NextSeq
    /\ IF HasDiagnostics(What)
       THEN job' = [job EXCEPT !.at = "redacted"] /\ UNCHANGED <<request, acked>>
       ELSE Advance("202") /\ acked' = acked \cup {RecordId}
    /\ UNCHANGED <<present, epoch, diagnostics, spool, cursor, knownDiags, stray,
                   shown, torn, budgets>>

\* SECRET_REDACTED, under an id drawn at random.
ReportRedaction ==
    /\ job.at = "redacted"
    /\ diagnostics' = Append(diagnostics, [about |-> RecordId, reason |-> "redacted"])
    /\ knownDiags' = LoadedDiags
    /\ acked' = acked \cup {RecordId}
    /\ Advance("202")
    /\ UNCHANGED <<present, epoch, events, spool, cursor, knownEvents, lastSeq, stray,
                   shown, torn, budgets>>

\* Mistake: the cursor jumps to the size of the file as it is by now.
EndOfSpool == Len(spool)

\* The offset after the last line processed.
EndOfBatch == job.base + job.done

\* After the last line of the chunk the observer stores how far it came.
StoreCursor ==
    /\ job.at = "cursor"
    /\ cursor' = EndOfBatch
    /\ job' = Idle
    /\ UNCHANGED <<present, epoch, events, diagnostics, spool, caches, stray, request,
                   acked, shown, torn, budgets>>

-----------------------------------------------------------------------------
(***************************************************************************)
(* Reset, removal, readers.                                                *)
(***************************************************************************)

\* Mistake: clear() truncates the file and keeps the ids it has cached.
KeptIds == knownEvents

\* The ids a cleared store starts from.
ClearedIds == {}

\* reset holds the session; the two clear() calls empty their caches in the
\* same breath, then all the files are written concurrently.
StartReset ==
    /\ Free
    /\ present
    /\ resets < MaxResets
    /\ resets' = resets + 1
    /\ job' = [Idle EXCEPT !.kind = "reset", !.at = "clear", !.todo = ResetFiles]
    /\ knownEvents' = ClearedIds
    /\ knownDiags' = {}
    /\ acked' = {}
    /\ UNCHANGED <<disk, lastSeq, stray, request, shown, torn,
                   crashes, faults, reads>>

\* One of the files is replaced by an empty one (the cursor by offset 0).
Clear(f) ==
    /\ events' = IF f = "events" THEN <<>> ELSE events
    /\ diagnostics' = IF f = "diagnostics" THEN <<>> ELSE diagnostics
    /\ spool' = IF f = "spool" THEN <<>> ELSE spool
    /\ cursor' = IF f = "cursor" THEN 0 ELSE cursor

ClearFile(f) ==
    /\ job.at = "clear"
    /\ f \in job.todo
    /\ Clear(f)
    /\ job' = [job EXCEPT !.todo = @ \ {f}]
    /\ UNCHANGED <<present, epoch, caches, stray, request, acked, shown, torn, budgets>>

\* Mistake: a reset that writes the session back unchanged.
SameEpoch == epoch

\* The evidenceEpoch of the reset session: a new one.
NextEpoch == epoch + 1

\* All are written: forget the sequence and publish the new epoch.
PublishEpoch ==
    /\ job.at = "clear"
    /\ job.todo = {}
    /\ lastSeq' = Unloaded
    /\ epoch' = NextEpoch
    /\ job' = Idle
    /\ torn' = (stray # {})
    /\ UNCHANGED <<present, events, diagnostics, spool, cursor, knownEvents, knownDiags,
                   stray, request, acked, shown, budgets>>

\* clean removes the session directory.
RemoveSession ==
    /\ Free
    /\ present
    /\ present' = FALSE
    /\ events' = <<>>
    /\ diagnostics' = <<>>
    /\ spool' = <<>>
    /\ cursor' = 0
    /\ lastSeq' = Unloaded
    /\ stray' = {}
    /\ acked' = {}
    /\ UNCHANGED <<epoch, knownEvents, knownDiags, job, request, shown, torn, budgets>>

\* status, or the first page of logs or query: a reader sees the evidence while
\* no other operation holds the session, and remembers the epoch in its cursor.
Read ==
    /\ Free
    /\ present
    /\ reads < MaxReads
    /\ reads' = reads + 1
    /\ shown' = [epoch |-> epoch, events |-> events]
    /\ UNCHANGED <<disk, caches, job, stray, request, acked, torn,
                   resets, crashes, faults>>

-----------------------------------------------------------------------------
(***************************************************************************)
(* Failed writes and crashes.                                              *)
(***************************************************************************)

\* An error ends the operation: a POST is answered 500, a tick is given up.
Abort ==
    /\ job' = Idle
    /\ request' = IF job.kind = "http"
                  THEN [request EXCEPT ![job.from].reply = "500"] ELSE request

Fault == faults < MaxFaults /\ faults' = faults + 1 /\ UNCHANGED <<resets, crashes, reads>>

\* Mistake: the id is remembered before the append, which then fails.
IdsAfterAdd == LoadedEvents \cup {RecordId}

\* What the id cache holds when the append has failed.
IdsAfterFailure == LoadedEvents

\* Appending the event or the diagnostic of a record fails: nothing is written,
\* but the caches are loaded, and a sequence number is used up.
AppendFails ==
    /\ Fault
    /\ \/ AtRecord /\ RecordId \notin IF Valid(What) THEN LoadedEvents ELSE LoadedDiags
       \/ job.at = "redacted"
    /\ IF job.at = "record" /\ Valid(What)
       THEN knownEvents' = IdsAfterFailure /\ lastSeq' = NextSeq /\ UNCHANGED knownDiags
       ELSE knownDiags' = LoadedDiags /\ UNCHANGED <<knownEvents, lastSeq>>
    /\ Abort
    /\ UNCHANGED <<disk, stray, acked, shown, torn>>

StoreCursorFails ==
    /\ Fault
    /\ job.at = "cursor"
    /\ Abort
    /\ UNCHANGED <<disk, caches, stray, acked, shown, torn>>

\* One file of a reset cannot be written: Promise.all rejects and the session
\* is released, while the writes of the other files go on.
ClearFileFails(f) ==
    /\ Fault
    /\ job.at = "clear"
    /\ f \in job.todo
    /\ stray' = stray \cup (job.todo \ {f})
    /\ torn' = TRUE
    /\ Abort
    /\ UNCHANGED <<disk, caches, acked, shown>>

StrayWriteLands(f) ==
    /\ f \in stray
    /\ Clear(f)
    /\ stray' = stray \ {f}
    /\ UNCHANGED <<present, epoch, caches, job, request, acked, shown, torn, budgets>>

PublishEpochFails ==
    /\ Fault
    /\ job.at = "clear"
    /\ job.todo = {}
    /\ lastSeq' = Unloaded
    /\ torn' = TRUE
    /\ Abort
    /\ UNCHANGED <<disk, knownEvents, knownDiags, stray, acked, shown>>

\* incoming.cursor.json is missing or is not JSON: readCursor starts over.
LoseCursor ==
    /\ Fault
    /\ present
    /\ cursor # 0
    /\ cursor' = 0
    /\ UNCHANGED <<present, epoch, events, diagnostics, spool, caches, job, stray,
                   request, acked, shown, torn>>

\* The daemon's process dies, and a later one, with empty caches, takes over the
\* files.  Its clients never hear how their requests ended.
CrashAndRestart ==
    /\ crashes < MaxCrashes
    /\ crashes' = crashes + 1
    /\ knownEvents' = Unloaded
    /\ knownDiags' = Unloaded
    /\ lastSeq' = Unloaded
    /\ job' = Idle
    /\ stray' = {}
    /\ request' = [c \in Clients |->
           IF request[c].reply = "pending" THEN [request[c] EXCEPT !.reply = "lost"]
           ELSE request[c]]
    /\ torn' = (torn \/ job.kind = "reset")
    /\ UNCHANGED <<disk, acked, shown, resets, faults, reads>>

-----------------------------------------------------------------------------
Ingest == RejectRecord \/ AcceptKnown \/ AcceptNew \/ ReportRedaction
Tick == StartTick \/ RewindCursor \/ StoreCursor
Reset == StartReset \/ (\E f \in ResetFiles : ClearFile(f)) \/ PublishEpoch
Post == \E c \in Clients :
    StartRequest(c) \/ TakeRecordTooLate(c) \/ \E what \in Contents : TakeRecord(c, what)
Faults ==
    \/ AppendFails \/ StoreCursorFails \/ PublishEpochFails \/ LoseCursor \/ CrashAndRestart
    \/ \E f \in ResetFiles : ClearFileFails(f) \/ StrayWriteLands(f)

Next ==
    \/ \E what \in Contents : AppendToSpool(what)
    \/ Post \/ Tick \/ Ingest \/ Reset \/ RemoveSession \/ Faults

Spec == Init /\ [][Next]_vars

\* The same beside a reader.
ReadingSpec == Init /\ [][Next \/ Read]_vars

-----------------------------------------------------------------------------
(***************************************************************************)
(* Properties.                                                             *)
(***************************************************************************)
\* Every variable holds a value the daemon or the disk can hold.
TypeOK ==
    /\ present \in BOOLEAN
    /\ epoch \in Nat
    /\ events \in Seq([id : RecordIds, seq : Nat])
    /\ diagnostics \in Seq([about : RecordIds, reason : {"rejected", "redacted"}])
    /\ spool \in Seq(Contents)
    /\ cursor \in Nat
    /\ knownEvents \in {Unloaded} \cup SUBSET RecordIds
    /\ knownDiags \in {Unloaded} \cup SUBSET RecordIds
    /\ lastSeq \in {Unloaded} \cup Nat
    /\ job \in [kind : {"none", "http", "tick", "reset"},
                at : {"none", "record", "redacted", "cursor", "clear"},
                from : Clients \cup {Spool}, base : Nat, batch : Seq(Contents),
                done : Nat, todo : SUBSET ResetFiles]
    /\ stray \in SUBSET ResetFiles
    /\ request \in [Clients -> [reply : {"unsent", "pending", "202", "404", "413",
                                         "500", "lost"},
                                left : Nat, posted : Nat]]
    /\ acked \in SUBSET RecordIds
    /\ shown \in [epoch : Nat, events : Seq([id : RecordIds, seq : Nat])]
    /\ torn \in BOOLEAN
    /\ {resets, crashes, faults, reads} \subseteq Nat

\* Sequence numbers grow strictly along events.ndjson, whatever crashed or
\* failed: a number handed out for a failed append is never reused in the file,
\* and a restarted daemon continues after the largest one it finds.
SequencesIncrease ==
    \A i, j \in DOMAIN events : i < j => events[i].seq < events[j].seq

\* No record is stored twice, however often the observer replays the spool
\* after a failed cursor write, a lost cursor or a crash: one event per record
\* and one rejection per record.
NothingTwice ==
    ~torn =>
        /\ \A i, j \in DOMAIN events : events[i].id = events[j].id => i = j
        /\ \A i, j \in DOMAIN diagnostics : diagnostics[i] = diagnostics[j] => i = j

Handled(i) ==
    LET id == [from |-> Spool, at |-> i - 1, what |-> spool[i]]
    IN IF Valid(spool[i]) THEN id \in EventIds ELSE id \in DiagnosedFor("rejected")

\* The cursor never runs ahead: every spool line before it has left an event or
\* a diagnostic.  Only an interrupted reset can break this.
NoRecordSkipped ==
    (~torn /\ ~InReset) =>
        cursor <= Len(spool) /\ \A i \in 1 .. cursor : Handled(i)

\* What was reported accepted is in events.ndjson and stays there, across
\* crashes, until a reset or a clean.
AckedIsDurable == (~torn /\ ~InReset) => acked \subseteq EventIds

\* A loaded cache says exactly what the file says, in particular after a failed
\* append and after a reset: a stale entry would swallow a new record.
CachesAreExact ==
    (~torn /\ ~InReset /\ present) =>
        /\ knownEvents # Unloaded => knownEvents = EventIds
        /\ knownDiags # Unloaded => knownDiags = DiagnosedFor("rejected")

\* A redacted record that was reported accepted has its SECRET_REDACTED
\* diagnostic: status never presents altered evidence as unaltered.
RedactionIsReported ==
    (~torn /\ ~InReset) =>
        \A id \in acked : Kind[id.what] = "secret" => id \in DiagnosedFor("redacted")

\* Evidence under one epoch only grows, so a cursor that still carries the
\* current epoch continues the evidence it was drawn from.
EpochPinsEvidence ==
    (Free /\ present /\ shown.epoch = epoch) => IsPrefix(shown.events, events)

\* While no write fails and nothing crashes, the files and caches of a session
\* implement EvidenceLog.  A reset takes effect the moment it holds the session:
\* nobody else can look until every file is empty and the epoch is published.
Log == INSTANCE EvidenceLog WITH
    open <- present,
    cycle <- IF InReset THEN epoch + 1 ELSE epoch,
    accepted <- IF InReset THEN <<>> ELSE [i \in DOMAIN events |-> events[i].id],
    rejected <- IF InReset THEN {} ELSE DiagnosedFor("rejected")

ImplementsLog == Log!LogSpec
=============================================================================
