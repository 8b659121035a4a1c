------------------------ MODULE SnapshotReadsProofs ------------------------
(***************************************************************************)
(* Proofs about SnapshotReads, for any records, clients, readers' wishes   *)
(* and page sizes, and any number of resets.  The daemon does not fail     *)
(* there, so every reset completes (~torn) and what EvidenceProofs makes   *)
(* depend on that holds of every state.                                    *)
(***************************************************************************)
EXTENDS OutputProofs

\* A step of the commands that read: it changes nothing they read.
Reading ==
    /\ UNCHANGED evidenceVars
    /\ UNCHANGED <<resets, crashes, faults>>
    /\ reads' \in {reads, reads + 1}
    /\ shown' = shown \/ (Free /\ shown' = [epoch |-> epoch, events |-> events])

\* A step of what changes the evidence.
Changing ==
    \/ \E what \in Contents : AppendToSpool(what)
    \/ Post \/ Tick \/ Ingest \/ Reset \/ RemoveSession

\* There are no other steps.
LEMMA ReadsSteps == [ReadsNext]_<<vars, readVars>> => Changing \/ Reading
<1> USE DEF Reading, evidenceVars, budgets, vars
<1>1. Writers \/ ResetSpools \/ RemoveSpools => Changing
  BY DEF Writers, ResetSpools, RemoveSpools, Changing, Reset
<1>2. Logs => Reading
  BY DEF Logs, StartLogs, ReadDiagnostics, ReadLogPage, RefuseLogPage, Free
<1>3. Queries => Reading
  <2>1. ASSUME NEW kind \in {"stream", "slurp"}, StartQuery(kind) \/ ContinueQuery PROVE Reading
    BY <2>1 DEF StartQuery, ContinueQuery, Read
  <2>2. ContinueGone \/ ReadStream \/ MakeSpoolDir \/ CollectSlurp \/ StoreSpool \/ ReadSpoolPage
        => Reading
    BY DEF ContinueGone, ReadStream, MakeSpoolDir, CollectSlurp, StoreSpool, ReadSpoolPage
  <2>3. AnswerStale \/ AnswerPage \/ AnswerError => Reading
    BY DEF AnswerStale, AnswerPage, AnswerError
  <2> QED BY <2>1, <2>2, <2>3 DEF Queries
<1>4. UNCHANGED vars => Reading
  OBVIOUS
<1> QED BY <1>1, <1>2, <1>3, <1>4 DEF ReadsNext

-----------------------------------------------------------------------------
(***************************************************************************)
(* The evidence.                                                           *)
(***************************************************************************)

\* A reader disturbs nothing.
LEMMA ReadingKeeps ==
  ASSUME DurabilityInv, Reading
  PROVE  DurabilityInv' /\ torn' = torn
<1> USE DEF Reading, evidenceVars, disk, caches, DurabilityInv
<1>1. EvidenceInv'
  <2>1. HistoryTyped'
    <3>1. [epoch |-> epoch, events |-> events] \in [epoch : Nat, events : Seq(EventRecords)]
      BY EpochTyped
    <3> QED BY <3>1 DEF EvidenceInv, Typed, HistoryTyped
  <2>2. BudgetsTyped'
    BY DEF EvidenceInv, Typed, BudgetsTyped
  <2>3. FilesTyped' /\ NumbersTyped' /\ CachesTyped' /\ JobTyped' /\ RequestTyped'
    BY DEF EvidenceInv, Typed, FilesTyped, NumbersTyped, CachesTyped, JobTyped, RequestTyped
  <2>4. JobShape' /\ RequestShape' /\ SequencesIncrease' /\ LastSeqCovers'
    BY DEF EvidenceInv, JobShape, RequestShape, SequencesIncrease, LastSeqCovers
  <2> QED BY <2>1, <2>2, <2>3, <2>4 DEF EvidenceInv, Typed
<1>2. FrameInv'
  BY DEF FrameInv, Places, ResetClears, Guards, InReset, Free
<1>3. UNCHANGED <<EventIds, RecordId, What>> /\ \A r : DiagnosedFor(r)' = DiagnosedFor(r)
  BY DEF EventIds, DiagnosedFor, RecordId, What
<1>4. StoreInv'
  <2>1. NothingTwice'
    BY DEF StoreInv, NothingTwice
  <2> QED BY <1>3, <2>1 DEF StoreInv, AckedIsDurable, CachesAreExact, RedactionsOfEvents,
             AwaitsDiagnostic, Quiet, InReset
<1>5. SpoolInv'
  <2>1. \A i : Handled(i)' <=> Handled(i)
    BY <1>3 DEF Handled, Valid
  <2> QED BY <2>1 DEF SpoolInv, NoRecordSkipped, TickReads, InReset
<1>6. EpochInv'
  <2>1. CASE shown' = shown
    BY <2>1 DEF EpochInv, ShownIsKept, Quiet, InReset
  <2>2. CASE shown' = [epoch |-> epoch, events |-> events]
    <3>1. shown'.epoch = epoch /\ shown'.events = events
      BY <2>2
    <3> QED BY <3>1, EpochTyped DEF EpochInv, ShownIsKept
  <2> QED BY <2>1, <2>2
<1> QED BY <1>1, <1>2, <1>4, <1>5, <1>6

\* The daemon neither fails nor looks.
LEMMA ChangingLeaves == Changing => UNCHANGED <<shown, crashes, faults>>
<1>1. ASSUME NEW what \in Contents, AppendToSpool(what) PROVE UNCHANGED <<shown, crashes, faults>>
  BY <1>1 DEF AppendToSpool, budgets
<1>2. Post \/ Tick => UNCHANGED <<shown, crashes, faults>>
  BY DEF Post, StartRequest, TakeRecord, TakeRecordTooLate, Tick, StartTick, RewindCursor,
         StoreCursor, budgets
<1>3. Ingest => UNCHANGED <<shown, crashes, faults>>
  BY DEF Ingest, RejectRecord, AcceptKnown, AcceptNew, ReportRedaction, budgets
<1>4. Reset \/ RemoveSession => UNCHANGED <<shown, crashes, faults>>
  BY DEF Reset, StartReset, ClearFile, PublishEpoch, RemoveSession, budgets
<1> QED BY <1>1, <1>2, <1>3, <1>4 DEF Changing

\* Nothing fails, so no reset is ever torn.
LEMMA ChangingKeeps ==
  ASSUME DurabilityInv, ~torn, Changing
  PROVE  DurabilityInv' /\ ~torn' /\ shown' = shown
<1>1. Next
  BY DEF Changing, Next
<1>2. DurabilityInv'
  BY <1>1, NextEvidenceInv, NextFrameInv, NextStoreInv, NextSpoolInv, NextEpochInv
     DEF DurabilityInv
<1>3. CASE PublishEpoch
  BY <1>2, <1>3 DEF PublishEpoch, DurabilityInv, FrameInv, Guards
<1>4. CASE ~PublishEpoch
  <2>1. torn' = torn
    BY <1>4 DEF Changing, AppendToSpool, Post, StartRequest, TakeRecord, TakeRecordTooLate, Tick,
           StartTick, RewindCursor, StoreCursor, Ingest, RejectRecord, AcceptKnown, AcceptNew,
           ReportRedaction, Reset, StartReset, ClearFile, RemoveSession
  <2> QED BY <1>2, <2>1, ChangingLeaves
<1> QED BY <1>3, <1>4

\* A redacted record that was acknowledged keeps its diagnostic.
LEMMA ReadsKeepRedactions ==
  ASSUME DurabilityInv, RedactInv, Changing \/ Reading
  PROVE  RedactInv'
<1>1. CASE Changing
  <2>1. crashes \in Nat /\ faults \in Nat
    BY DEF DurabilityInv, EvidenceInv, Typed, BudgetsTyped
  <2>2. ~AppendFails /\ ~CrashAndRestart
    BY <1>1, <2>1, ChangingLeaves DEF AppendFails, Fault, CrashAndRestart
  <2>3. Next /\ ~RedactionLost
    BY <1>1, <2>2 DEF Changing, Next, RedactionLost
  <2> QED BY <2>3, NextRedactInv DEF DurabilityInv
<1>2. CASE Reading
  BY <1>2, RedactKept DEF Reading, evidenceVars, disk, Quiet, InReset
<1> QED BY <1>1, <1>2

EvidenceKept == DurabilityInv /\ RedactInv /\ ~torn

\* The readers and the resets that complete keep all that is known of the evidence of
\* a session.
THEOREM ReadsInvariant == ReadsSpec => []EvidenceKept
<1>1. ReadsInit => EvidenceKept
  BY InitEvidenceInv, InitFrameInv, InitStoreInv, InitSpoolInv, InitEpochInv, RedactInitially
     DEF ReadsInit, Init, EvidenceKept, DurabilityInv
<1>2. EvidenceKept /\ [ReadsNext]_<<vars, readVars>> => EvidenceKept'
  BY ReadsSteps, ReadingKeeps, ChangingKeeps, ReadsKeepRedactions DEF EvidenceKept
<1> QED BY <1>1, <1>2, PTL DEF ReadsSpec

\* What a command has shown under the present epoch is a prefix of the events
\* that are there: nothing it has seen changes or goes away while its cursor is
\* good.
THEOREM EpochPinsEvidenceHolds == ReadsSpec => []EpochPinsEvidence
<1>1. EvidenceKept => EpochPinsEvidence
  BY ShownIsPrefix DEF EvidenceKept
<1> QED BY <1>1, ReadsInvariant, PTL

\* While nothing fails, whoever is told that a redacted record was accepted finds
\* its SECRET_REDACTED diagnostic.
THEOREM RedactionIsReportedHolds == ReadsSpec => []RedactionIsReported
<1>1. EvidenceKept => RedactionIsReported
  BY AckedIsReported DEF EvidenceKept, DurabilityInv
<1> QED BY <1>1, ReadsInvariant, PTL

-----------------------------------------------------------------------------
(***************************************************************************)
(* The evidence of a session implements EvidenceLog.                       *)
(***************************************************************************)

\* Empty files make an empty log.
LEMMA NoEvents ==
  ASSUME events = <<>>, diagnostics = <<>>
  PROVE  [i \in DOMAIN events |-> events[i].id] = <<>> /\ DiagnosedFor("rejected") = {}
<1>1. DOMAIN events = {}
  OBVIOUS
<1>2. [i \in DOMAIN events |-> events[i].id] = <<>>
  BY <1>1
<1>3. Range(diagnostics) = {}
  BY DEF Range
<1> QED BY <1>2, <1>3 DEF DiagnosedFor

\* The same after a step.
LEMMA NoEventsThen ==
  ASSUME events' = <<>>, diagnostics' = <<>>
  PROVE  [i \in DOMAIN events' |-> events'[i].id] = <<>> /\ DiagnosedFor("rejected")' = {}
<1>1. DOMAIN events' = {}
  OBVIOUS
<1>2. [i \in DOMAIN events' |-> events'[i].id] = <<>>
  BY <1>1
<1>3. Range(diagnostics') = {}
  BY DEF Range
<1> QED BY <1>2, <1>3 DEF DiagnosedFor

\* The log of a session that is not reset holds the ids of its events.
LEMMA LogAppends ==
  ASSUME EvidenceInv, NEW id \in RecordIds, NEW n \in Nat,
         events' = Append(events, [id |-> id, seq |-> n])
  PROVE  [i \in DOMAIN events' |-> events'[i].id]
           = Append([i \in DOMAIN events |-> events[i].id], id)
<1> DEFINE e == [id |-> id, seq |-> n]
<1> DEFINE s == [i \in DOMAIN events |-> events[i].id]
<1> DEFINE t == [i \in DOMAIN events' |-> events'[i].id]
<1>1. events \in Seq(EventRecords) /\ e \in EventRecords /\ e.id = id
  BY DEF EvidenceInv, Typed, FilesTyped, EventRecords
<1>2. events' = Append(events, e)
  OBVIOUS
<1> HIDE DEF e
<1>3. /\ DOMAIN events' = 1 .. Len(events) + 1 /\ DOMAIN events = 1 .. Len(events)
      /\ Len(events) \in Nat /\ events'[Len(events) + 1] = e
      /\ \A i \in 1 .. Len(events) : events'[i] = events[i]
  BY <1>1, <1>2
<1>4. \A i \in 1 .. Len(events) : events[i].id \in RecordIds
  <2>1. \A i \in 1 .. Len(events) : events[i] \in EventRecords
    BY <1>1
  <2> QED BY <2>1 DEF EventRecords
<1>5. s \in Seq(RecordIds) /\ Len(s) = Len(events)
  BY <1>3, <1>4
<1>6. t \in Seq(RecordIds) /\ Len(t) = Len(events) + 1
  BY <1>1, <1>3, <1>4
<1>7. Append(s, id) \in Seq(RecordIds) /\ Len(Append(s, id)) = Len(events) + 1
  BY <1>5
<1>8. ASSUME NEW i \in 1 .. Len(events) + 1 PROVE t[i] = Append(s, id)[i]
  BY <1>1, <1>3, <1>5, <1>8
<1> HIDE DEF s, t
<1>9. t = Append(s, id)
  BY <1>6, <1>7, <1>8, SeqEqual
<1> QED BY <1>9 DEF s, t

\* A step after which the session has the same events and rejections, and is in
\* a reset if it was in one, is not seen.
LEMMA LogUnseen ==
  ASSUME UNCHANGED <<present, epoch, events>>, InReset' <=> InReset,
         DiagnosedFor("rejected")' = DiagnosedFor("rejected")
  PROVE  UNCHANGED Log!logVars
  BY DEF Log!logVars

\* A new event is a record the log accepts.
LEMMA AcceptIsAccept ==
  ASSUME DurabilityInv, ~torn, AcceptNew
  PROVE  Log!Accept
<1> DEFINE log == [i \in DOMAIN events |-> events[i].id]
<1>1. /\ job.at = "record" /\ present /\ ~InReset /\ RecordId \in RecordIds /\ NextSeq \in Nat
      /\ LoadedEvents = EventIds
  BY AtARecord, CachesAtARecord, RecordTyped, NextSeqIsLarger
     DEF AcceptNew, AtRecord, DurabilityInv
<1>2. /\ RecordId \notin EventIds
      /\ events' = Append(events, [id |-> RecordId, seq |-> NextSeq])
      /\ UNCHANGED <<present, epoch, diagnostics>>
  BY <1>1 DEF AcceptNew
<1>3. ~InReset'
  <2>1. CASE HasDiagnostics(What)
    <3>1. job' = [job EXCEPT !.at = "redacted"]
      BY <2>1 DEF AcceptNew
    <3> QED BY <1>1, <3>1, JobIsTyped DEF Jobs, InReset, DurabilityInv
  <2>2. CASE ~HasDiagnostics(What)
    BY <1>1, <2>2, AdvanceLeaves DEF AcceptNew, DurabilityInv
  <2> QED BY <2>1, <2>2
<1>4. EventIds' = EventIds \cup {RecordId}
  BY <1>1, <1>2, EventAdded DEF DurabilityInv
<1>5. log' = Append(log, RecordId)
  BY <1>1, <1>2, LogAppends DEF DurabilityInv
<1>6. Range(log) = EventIds /\ Range(log)' = EventIds'
  BY DEF Range, EventIds
<1>7. DiagnosedFor("rejected")' = DiagnosedFor("rejected")
  BY <1>2 DEF DiagnosedFor
<1> DEFINE accepted == IF InReset THEN <<>> ELSE log
<1> DEFINE rejected == IF InReset THEN {} ELSE DiagnosedFor("rejected")
<1> DEFINE cycle == IF InReset THEN epoch + 1 ELSE epoch
<1>8. Log!Accept <=> /\ present
                     /\ \E id \in Range(accepted)' \ Range(accepted) :
                           accepted' = Append(accepted, id)
                     /\ UNCHANGED <<present, cycle, rejected>>
  BY Zenon DEF Log!Accept, Log!Range, Range
<1> HIDE DEF log
<1>9. /\ accepted = log /\ accepted' = log' /\ cycle = epoch /\ cycle' = epoch'
      /\ rejected' = rejected
  BY <1>1, <1>3, <1>7
<1> HIDE DEF accepted, rejected, cycle
<1>10. RecordId \in Range(log)' \ Range(log)
  BY <1>2, <1>4, <1>6
<1> QED BY <1>1, <1>2, <1>5, <1>8, <1>9, <1>10

\* A new diagnostic is a record the log rejects.
LEMMA RejectIsReject ==
  ASSUME DurabilityInv, ~torn, RejectRecord
  PROVE  Log!Reject \/ UNCHANGED Log!logVars
<1>1. /\ job.at = "record" /\ present /\ ~InReset /\ ~InReset' /\ RecordId \in RecordIds
      /\ LoadedDiags = DiagnosedFor("rejected")
  BY AtARecord, CachesAtARecord, RecordTyped, AdvanceLeaves
     DEF RejectRecord, AtRecord, DurabilityInv
<1>2. UNCHANGED <<present, epoch, events>>
  BY DEF RejectRecord
<1>3. CASE RecordId \in LoadedDiags
  <2>1. DiagnosedFor("rejected")' = DiagnosedFor("rejected")
    BY <1>3 DEF RejectRecord, DiagnosedFor
  <2> QED BY <1>1, <1>2, <2>1, LogUnseen
<1>4. CASE RecordId \notin LoadedDiags
  <2>1. diagnostics' = Append(diagnostics, [about |-> RecordId, reason |-> "rejected"])
    BY <1>4 DEF RejectRecord
  <2>2. DiagnosedFor("rejected")' = DiagnosedFor("rejected") \cup {RecordId}
    BY <1>1, <2>1, DiagnosticAdded DEF DurabilityInv
  <2> QED BY <1>1, <1>2, <1>4, <2>2 DEF Log!Reject
<1> QED BY <1>3, <1>4

\* Every other step of the daemon is a step of the log's life or none of it.
LEMMA LogStep ==
  ASSUME DurabilityInv, ~torn, Changing \/ Reading
  PROVE  [Log!LogNext]_(Log!logVars)
<1>1. ASSUME UNCHANGED <<present, epoch, events, diagnostics>>, InReset' <=> InReset
      PROVE  UNCHANGED Log!logVars
  BY <1>1, LogUnseen DEF DiagnosedFor
<1>2. CASE (\E what \in Contents : AppendToSpool(what)) \/ RewindCursor \/ Reading
  BY <1>1, <1>2 DEF AppendToSpool, RewindCursor, Reading, evidenceVars, disk, InReset
<1>3. CASE Post \/ StartTick
  BY <1>1, <1>3 DEF Post, StartRequest, TakeRecord, TakeRecordTooLate, StartTick, disk, Idle,
                    Free, InReset
<1>4. CASE StoreCursor
  <2>1. ~InReset /\ ~InReset'
    BY <1>4 DEF StoreCursor, Idle, InReset, DurabilityInv, FrameInv, Places
  <2> QED BY <1>1, <1>4, <2>1 DEF StoreCursor
<1>5. CASE RejectRecord
  BY <1>5, RejectIsReject DEF Log!LogNext
<1>6. CASE AcceptKnown
  <2>1. ~InReset /\ ~InReset'
    BY <1>6, AdvanceLeaves, AtARecord DEF AcceptKnown, AtRecord, DurabilityInv
  <2> QED BY <1>1, <1>6, <2>1 DEF AcceptKnown, disk
<1>7. CASE AcceptNew
  BY <1>7, AcceptIsAccept DEF Log!LogNext
<1>8. CASE ReportRedaction
  <2>1. ~InReset /\ ~InReset' /\ RecordId \in RecordIds
    BY <1>8, AdvanceLeaves, AtARecord, RecordTyped DEF ReportRedaction, DurabilityInv
  <2>2. DiagnosedFor("rejected")' = DiagnosedFor("rejected")
    BY <1>8, <2>1, DiagnosticAdded DEF ReportRedaction, DurabilityInv
  <2> QED BY <1>8, <2>1, <2>2, LogUnseen DEF ReportRedaction
<1>9. CASE StartReset
  <2>1. present /\ ~InReset /\ InReset' /\ UNCHANGED <<present, epoch>>
    BY <1>9 DEF StartReset, Free, Idle, InReset, disk
  <2>2. Log!StartCycle
    BY <2>1 DEF Log!StartCycle
  <2> QED BY <2>2 DEF Log!LogNext
<1>10. ASSUME NEW f \in ResetFiles, ClearFile(f) PROVE UNCHANGED Log!logVars
  <2>1. InReset /\ job' = [job EXCEPT !.todo = job.todo \ {f}]
    BY <1>10 DEF ClearFile, DurabilityInv, FrameInv, Places, InReset
  <2>2. InReset' /\ UNCHANGED <<present, epoch>>
    BY <1>10, <2>1, JobIsTyped DEF ClearFile, Jobs, InReset, DurabilityInv
  <2> QED BY <2>1, <2>2 DEF Log!logVars
<1>11. CASE PublishEpoch
  <2>1. InReset /\ job.todo = {}
    BY <1>11 DEF PublishEpoch, DurabilityInv, FrameInv, Places, InReset
  <2>2. events' = <<>> /\ diagnostics' = <<>>
    BY <1>11, <2>1 DEF PublishEpoch, DurabilityInv, FrameInv, ResetClears
  <2>3. ~InReset' /\ present' = present /\ epoch' = epoch + 1
    BY <1>11 DEF PublishEpoch, Idle, InReset, NextEpoch
  <2>4. [i \in DOMAIN events' |-> events'[i].id] = <<>> /\ DiagnosedFor("rejected")' = {}
    BY <2>2, Zenon, NoEventsThen
  <2> QED BY <2>1, <2>3, <2>4 DEF Log!logVars
<1>12. CASE RemoveSession
  <2>1. present /\ ~InReset /\ ~InReset' /\ ~present' /\ epoch' = epoch
        /\ events' = <<>> /\ diagnostics' = <<>>
    BY <1>12 DEF RemoveSession, Free, InReset
  <2>2. [i \in DOMAIN events' |-> events'[i].id] = <<>> /\ DiagnosedFor("rejected")' = {}
    BY <2>1, NoEventsThen
  <2>3. Log!Close
    BY <2>1, <2>2 DEF Log!Close
  <2> QED BY <2>3 DEF Log!LogNext
<1> QED BY <1>2, <1>3, <1>4, <1>5, <1>6, <1>7, <1>8, <1>9, <1>10, <1>11, <1>12
        DEF Changing, Tick, Ingest, Reset

\* While nothing fails, the files, the caches and the job of a session, beside any
\* readers, implement EvidenceLog: an accepted record is in the log once, a
\* rejected one leaves one diagnostic, and a reset empties both at once.
THEOREM ImplementsLogHolds == ReadsSpec => ImplementsLog
<1>1. ReadsInit => Log!LogInit
  <2> SUFFICES ASSUME ReadsInit PROVE Log!LogInit
    OBVIOUS
  <2> QED BY NoEvents DEF ReadsInit, Init, Log!LogInit, InReset, Idle
<1>2. EvidenceKept /\ [ReadsNext]_<<vars, readVars>> => [Log!LogNext]_(Log!logVars)
  BY ReadsSteps, LogStep DEF EvidenceKept
<1> QED BY <1>1, <1>2, ReadsInvariant, PTL DEF ReadsSpec, ImplementsLog, Log!LogSpec

-----------------------------------------------------------------------------
(***************************************************************************)
(* The reader.  ReaderInv says where a command and its spool can be, Pages what*)
(* its pages amount to so far.  Neither needs to look at the daemon: of a step*)
(* of the daemon, and of the programs it serves, only WorldStep matters.   *)
(***************************************************************************)
IsQuery == Query.kind \in {"stream", "slurp"}
Slurping == {"mkdir", "collect", "store", "paging"}

\* The evidence a cursor is about is still there.
Live(place) == present /\ ~InReset /\ place.epoch = epoch

\* A cursor that goes on with the reader's query.
Continues(place) ==
    /\ place.kind # "none" /\ place.kind = Query.kind
    /\ place.epoch = Query.epoch /\ place.mark = Query.mark
    /\ place.kind = "slurp" => place.line > 0

Cursors == [kind : {"none", "logs", "stream", "slurp"}, epoch : Nat, mark : Nat,
            line : Nat, ordinal : Nat]
Readers == [at : {"rest", "diagnostics", "page", "native", "mkdir", "collect", "store",
                  "paging", "postflight"},
            query : Cursors, first : BOOLEAN,
            reply : {"none", "page", "failed", "timeout", "malformed", "unavailable",
                     "stale", "404", "500"},
            rows : Seq(OutRecords), next : Cursors, lapsed : BOOLEAN]

ReaderTyped ==
    /\ reader \in Readers
    /\ token \in Cursors
    /\ spoolDir \in BOOLEAN
    /\ querySpool \in Seq(OutRecords) \cup {NoSpool}

\* The cursor the reader holds, the query under way and where it has come to.
ReaderShape ==
    /\ reader.at \in {"diagnostics", "page"} => Query.kind = "logs"
    /\ reader.at = "native" => Query.kind = "stream"
    /\ reader.at \in Slurping => Query.kind = "slurp"
    /\ reader.at = "postflight" => IsQuery
    /\ Query.epoch <= epoch
    /\ token = NoToken \/ Continues(token)
    /\ IsQuery /\ ~AtRest =>
          (token = NoToken /\ Query.line = 0 /\ Query.ordinal = 0) \/ token = Query
    /\ reader.at = "postflight" =>
          /\ reader.next = NoToken \/ Continues(reader.next)
          /\ reader.reply \in {"page", "failed", "timeout", "malformed", "unavailable"}

\* As long as its evidence lives, the spool of a slurp stays unless a timeout
\* takes it.
SpoolStays ==
    /\ token.kind = "slurp" /\ Live(token) => querySpool # NoSpool \/ reader.lapsed
    /\ reader.at \in {"collect", "store"} /\ Live(Query) => spoolDir
    /\ reader.at = "paging" /\ Live(Query) => querySpool # NoSpool
    /\ reader.at = "postflight" /\ Live(Query) =>
          /\ reader.reply = "unavailable" => reader.lapsed
          /\ Query.kind = "slurp" /\ reader.next # NoToken => querySpool # NoSpool

\* When there is no spool.
SpoolGone ==
    /\ Query.kind # "slurp" => querySpool = NoSpool
    /\ AtRest /\ querySpool # NoSpool => token.kind = "slurp" /\ present /\ token.epoch = epoch
    /\ AtRest /\ InReset /\ "query-spools" \notin job.todo => querySpool = NoSpool
    /\ reader.at \in {"mkdir", "collect"} /\ Query.line = 0 => querySpool = NoSpool
    /\ reader.at = "store" => querySpool = NoSpool /\ Query.line = 0
    /\ reader.at = "postflight" /\ reader.reply \in {"failed", "unavailable", "malformed"} =>
          querySpool = NoSpool
    /\ reader.at = "postflight" /\ reader.reply = "malformed" /\ Query.kind = "slurp" =>
          token = NoToken
    /\ AtRest /\ reader.reply = "unavailable" => querySpool = NoSpool

Refusals ==
    AtRest =>
        /\ reader.reply = "stale" => ~present \/ Query.epoch < epoch
        /\ reader.reply \in {"404", "500"} => ~present
        /\ reader.reply = "unavailable" => reader.lapsed

\* What the reader has got of some output is what its cursor has behind it.
Reached(whole, rows, place) ==
    LET n == IF place.kind = "slurp" THEN place.line ELSE Passed(whole, place)
    IN n <= Len(whole) /\ rows = SubSeq(whole, 1, n)

\* The output of a query over the evidence its reader last saw.
Whole(mark) == AllOutputs(shown.events, mark)

MarkIn(mark, evts) == mark = 0 \/ \E e \in Range(evts) : e.seq = mark

Pages ==
    /\ IsQuery /\ (AtRest => token # NoToken \/ reader.reply = "page") =>
          Query.epoch = shown.epoch /\ MarkIn(Query.mark, shown.events)
    /\ IsQuery /\ ~AtRest => Reached(Whole(Query.mark), got, Query)
    /\ IsQuery /\ AtRest /\ token # NoToken => Reached(Whole(token.mark), got, token)
    /\ IsQuery /\ AtRest /\ token = NoToken /\ reader.reply = "page" => got = Whole(Query.mark)
    /\ reader.at = "postflight" /\ reader.reply = "page" /\ Live(Query) =>
          IF reader.next = NoToken THEN got \o reader.rows = Whole(Query.mark)
          ELSE Reached(Whole(Query.mark), got \o reader.rows, reader.next)
    /\ reader.at = "store" /\ Live(Query) => reader.rows = Whole(Query.mark)
    /\ Query.kind = "slurp" /\ Live(Query) /\ querySpool # NoSpool =>
          querySpool = Whole(Query.mark)

\* Sequence numbers start at one.
FromOne == \A i \in DOMAIN events : events[i].seq > 0

ReaderInv == ReaderTyped /\ ReaderShape /\ SpoolStays /\ SpoolGone /\ Refusals

\* What the daemon, and the programs it serves, may change beside a reader.
WorldStep ==
    /\ UNCHANGED <<reader, token, got, shown>>
    /\ present' => present
    /\ epoch' \in Nat /\ epoch <= epoch'
    /\ present' /\ ~InReset' /\ epoch' = epoch => ~InReset
    /\ \/ UNCHANGED <<spoolDir, querySpool>>
       \/ spoolDir' = FALSE /\ querySpool' = NoSpool /\ (InReset' \/ ~present')
    /\ \/ UNCHANGED <<present, epoch>>
       \/ InReset /\ "query-spools" \notin job.todo
       \/ querySpool' = NoSpool
    /\ \/ querySpool' = NoSpool
       \/ InReset' /\ "query-spools" \notin job'.todo => InReset /\ "query-spools" \notin job.todo

\* What the programs and the ingest of their spools do is such a step.
LEMMA WritersAreWorld ==
  ASSUME DurabilityInv, Writers
  PROVE  WorldStep
<1>1. UNCHANGED <<reader, token, got, spoolDir, querySpool>>
  BY DEF Writers, readVars
<1>2. epoch \in Nat
  BY DEF DurabilityInv, EvidenceInv, Typed, NumbersTyped
<1>3. ASSUME UNCHANGED <<present, epoch, shown>>, InReset' => InReset /\ job' = job,
             InReset => InReset'
      PROVE  WorldStep
  BY <1>1, <1>2, <1>3 DEF WorldStep
<1>4. CASE \E what \in Contents : AppendToSpool(what)
  <2>1. UNCHANGED <<present, epoch, shown, job>>
    BY <1>4 DEF AppendToSpool
  <2> QED BY <1>3, <2>1 DEF InReset
<1>5. CASE Post \/ Tick
  <2>1. UNCHANGED <<present, epoch, shown>>
    BY <1>5 DEF Post, StartRequest, TakeRecord, TakeRecordTooLate, Tick, StartTick,
                RewindCursor, StoreCursor, disk
  <2>2. ~InReset
    BY <1>5 DEF Post, StartRequest, TakeRecord, TakeRecordTooLate, Tick, StartTick,
                RewindCursor, StoreCursor, Free, InReset, DurabilityInv, FrameInv, Places
  <2>3. job'.kind \in {job.kind, "http", "tick", "none"}
    <3>1. ASSUME NEW c \in Clients,
                 \/ StartRequest(c) \/ TakeRecordTooLate(c)
                 \/ \E what \in Contents : TakeRecord(c, what)
          PROVE  job'.kind \in {job.kind, "http"}
      BY <3>1 DEF StartRequest, TakeRecord, TakeRecordTooLate, Idle
    <3>2. ASSUME StartTick PROVE job'.kind = "tick"
      BY <3>2 DEF StartTick, Idle
    <3>3. ASSUME RewindCursor \/ StoreCursor PROVE job'.kind \in {job.kind, "none"}
      BY <3>3 DEF RewindCursor, StoreCursor, Idle
    <3> QED BY <1>5, <3>1, <3>2, <3>3 DEF Post, Tick
  <2> QED BY <1>3, <2>1, <2>2, <2>3 DEF InReset
<1>6. CASE Ingest
  <2>1. UNCHANGED <<present, epoch, shown>>
    BY <1>6 DEF Ingest, RejectRecord, AcceptKnown, AcceptNew, ReportRedaction, disk
  <2>2. ~InReset /\ job.at \in {"record", "redacted"}
    BY <1>6 DEF Ingest, RejectRecord, AcceptKnown, AcceptNew, ReportRedaction, InReset, AtRecord,
                DurabilityInv, EvidenceInv, JobShape
  <2>3. ~InReset'
    <3>1. ASSUME NEW reply \in {"202", "413"}, Advance(reply) PROVE ~InReset'
      BY <2>2, <3>1, AdvanceLeaves DEF DurabilityInv
    <3>2. CASE job' = [job EXCEPT !.at = "redacted"]
      BY <2>2, <3>2, JobIsTyped DEF Jobs, InReset, DurabilityInv
    <3> QED BY <1>6, <3>1, <3>2 DEF Ingest, RejectRecord, AcceptKnown, AcceptNew, ReportRedaction
  <2> QED BY <1>3, <2>1, <2>2, <2>3
<1> QED BY <1>4, <1>5, <1>6 DEF Writers

\* So is every step of a reset or a removal: the query spools are gone before the
\* session is released.
LEMMA ResetsAreWorld ==
  ASSUME DurabilityInv, ResetSpools \/ RemoveSpools
  PROVE  WorldStep
<1>1. UNCHANGED <<reader, token, got, shown>>
  BY DEF ResetSpools, RemoveSpools, readVars, StartReset, PublishEpoch, ClearFile, RemoveSession
<1>2. epoch \in Nat /\ job \in Jobs
  BY DEF DurabilityInv, EvidenceInv, Typed, NumbersTyped, JobTyped
<1>3. CASE StartReset /\ UNCHANGED readVars
  <2>1. UNCHANGED <<present, epoch, spoolDir, querySpool>> /\ ~InReset
    BY <1>3 DEF StartReset, disk, readVars, Free, InReset
  <2>2. InReset' /\ "query-spools" \in job'.todo
    BY <1>3 DEF StartReset, InReset, Idle, ResetFiles
  <2> QED BY <1>1, <1>2, <2>1, <2>2 DEF WorldStep
<1>4. CASE PublishEpoch /\ UNCHANGED readVars
  <2>1. UNCHANGED <<present, spoolDir, querySpool>> /\ epoch' = epoch + 1 /\ job' = Idle
        /\ job.at = "clear" /\ job.todo = {}
    BY <1>4 DEF PublishEpoch, readVars, NextEpoch
  <2>2. InReset /\ ~InReset'
    BY <2>1 DEF InReset, Idle, DurabilityInv, FrameInv, Places
  <2> QED BY <1>1, <1>2, <2>1, <2>2 DEF WorldStep
<1>5. ASSUME NEW f \in ResetFiles, ClearFile(f),
             IF f = "query-spools" THEN spoolDir' = FALSE /\ querySpool' = NoSpool
             ELSE UNCHANGED <<spoolDir, querySpool>>
      PROVE  WorldStep
  <2>1. UNCHANGED <<present, epoch>> /\ job.at = "clear" /\ job' = [job EXCEPT !.todo = @ \ {f}]
    BY <1>5 DEF ClearFile
  <2>2. InReset /\ InReset' /\ job'.todo = job.todo \ {f}
    BY <1>2, <2>1 DEF InReset, Jobs, DurabilityInv, FrameInv, Places
  <2>3. CASE f = "query-spools"
    BY <1>1, <1>2, <1>5, <2>1, <2>2, <2>3 DEF WorldStep
  <2>4. CASE f # "query-spools"
    <3>1. "query-spools" \notin job'.todo => "query-spools" \notin job.todo
      BY <2>2, <2>4
    <3> QED BY <1>1, <1>2, <1>5, <2>1, <2>2, <2>4, <3>1 DEF WorldStep
  <2> QED BY <2>3, <2>4
<1>6. CASE RemoveSpools
  BY <1>1, <1>2, <1>6 DEF RemoveSpools, RemoveSession, WorldStep, InReset, Free
<1> QED BY <1>3, <1>4, <1>5, <1>6 DEF ResetSpools

\* The reader's invariant does not notice it.
LEMMA WorldKeepsReader ==
  ASSUME DurabilityInv, ReaderInv, WorldStep
  PROVE  ReaderInv'
<1>1. epoch \in Nat /\ present \in BOOLEAN /\ reader \in Readers /\ token \in Cursors
  BY DEF DurabilityInv, EvidenceInv, Typed, NumbersTyped, ReaderInv, ReaderTyped
<1>2. Query \in Cursors
  BY <1>1 DEF Readers, Query
<1>3. epoch' \in Int /\ epoch' \in Nat /\ epoch <= epoch'
  BY DEF WorldStep
<1>4. /\ reader' = reader /\ token' = token /\ Query' = Query
      /\ AtRest' <=> AtRest
      /\ IsQuery' <=> IsQuery
  BY DEF WorldStep, Query, AtRest, IsQuery
<1>5. Query.epoch \in Nat /\ Query.epoch <= epoch /\ (token = NoToken \/ Continues(token))
  BY <1>2 DEF ReaderInv, ReaderShape, Cursors
<1>6. Live(Query)' => Live(Query)
  <2>1. Query.epoch = epoch' => epoch' = epoch
    BY <1>1, <1>3, <1>5
  <2>2. (Query.epoch)' = Query.epoch
    BY <1>4
  <2> QED BY <2>1, <2>2 DEF WorldStep, Live
<1>7. token.kind = "slurp" /\ Live(token)' => Live(token)
  <2>1. token.kind = "slurp" => token.epoch = Query.epoch
    BY <1>5 DEF NoToken, Cursor, Continues
  <2>2. token.kind = "slurp" => (Live(token) <=> Live(Query)) /\ (Live(token)' <=> Live(Query)')
    BY <1>4, <2>1 DEF Live
  <2> QED BY <1>6, <2>2
<1>8. ReaderTyped'
  <2>1. spoolDir' \in BOOLEAN
    BY DEF WorldStep, ReaderInv, ReaderTyped
  <2>2. querySpool' \in Seq(OutRecords) \cup {NoSpool}
    BY DEF WorldStep, ReaderInv, ReaderTyped
  <2>3. reader' \in Readers /\ token' \in Cursors
    BY <1>1, <1>4
  <2> QED BY <2>1, <2>2, <2>3 DEF ReaderTyped
<1>9. ReaderShape'
  <2>1. \A place : Continues(place)' <=> Continues(place)
    BY <1>4 DEF Continues
  <2>2. Query.epoch <= epoch'
    BY <1>3, <1>5, <1>1
  <2> QED BY <1>4, <2>1, <2>2 DEF ReaderInv, ReaderShape
<1>10. SpoolStays'
  BY <1>1, <1>4, <1>6, <1>7 DEF ReaderInv, SpoolStays, WorldStep, Live
<1>11. SpoolGone'
  BY <1>1, <1>4 DEF ReaderInv, SpoolGone, WorldStep
<1>12. Refusals'
  BY <1>1, <1>3, <1>4, <1>5 DEF ReaderInv, Refusals, WorldStep
<1> QED BY <1>8, <1>9, <1>10, <1>11, <1>12 DEF ReaderInv

\* Nor do the pages: they are about the evidence that was shown, not the one there is.
LEMMA WorldKeepsPages ==
  ASSUME DurabilityInv, ReaderInv, Pages, WorldStep
  PROVE  Pages'
<1>1. epoch \in Nat /\ reader \in Readers
  BY DEF DurabilityInv, EvidenceInv, Typed, NumbersTyped, ReaderInv, ReaderTyped
<1>2. Query.epoch \in Nat /\ Query.epoch <= epoch
  BY <1>1 DEF Readers, Query, Cursors, ReaderInv, ReaderShape
<1>3. /\ reader' = reader /\ token' = token /\ Query' = Query /\ got' = got /\ shown' = shown
      /\ AtRest' <=> AtRest
      /\ IsQuery' <=> IsQuery
  BY DEF WorldStep, Query, AtRest, IsQuery
<1>4. Live(Query)' => Live(Query)
  <2>1. Query.epoch = epoch' => epoch' = epoch
    BY <1>1, <1>2 DEF WorldStep
  <2>2. (Query.epoch)' = Query.epoch
    BY <1>3
  <2> QED BY <2>1, <2>2 DEF WorldStep, Live
<1>5. querySpool' = NoSpool \/ querySpool' = querySpool
  BY DEF WorldStep
<1> QED BY <1>3, <1>4, <1>5 DEF Pages, Whole

\* What a step does to the events.
LEMMA EventsStep ==
  ASSUME Changing \/ Reading
  PROVE  \/ events' = events \/ events' = <<>>
         \/ events' = Append(events, [id |-> RecordId, seq |-> NextSeq]) /\ AcceptNew
<1>1. CASE AcceptNew
  BY <1>1 DEF AcceptNew
<1>2. ASSUME NEW f \in ResetFiles, ClearFile(f) PROVE events' \in {events, <<>>}
  BY <1>2 DEF ClearFile, Clear
<1>3. CASE RemoveSession
  BY <1>3 DEF RemoveSession
<1>4. CASE (\E what \in Contents : AppendToSpool(what)) \/ Post \/ Tick \/ Reading
  BY <1>4 DEF AppendToSpool, Post, StartRequest, TakeRecord, TakeRecordTooLate, Tick, StartTick,
              RewindCursor, StoreCursor, Reading, evidenceVars, disk
<1>5. CASE RejectRecord \/ AcceptKnown \/ ReportRedaction \/ StartReset \/ PublishEpoch
  BY <1>5 DEF RejectRecord, AcceptKnown, ReportRedaction, StartReset, PublishEpoch, disk
<1> QED BY <1>1, <1>2, <1>3, <1>4, <1>5 DEF Changing, Ingest, Reset

\* Every event is given a number after the last one, so none has number zero.
LEMMA FromOneKept ==
  ASSUME DurabilityInv, FromOne, Changing \/ Reading
  PROVE  FromOne'
<1>1. CASE events' = events
  BY <1>1 DEF FromOne
<1>2. CASE events' = <<>>
  BY <1>2 DEF FromOne
<1>3. CASE events' = Append(events, [id |-> RecordId, seq |-> NextSeq]) /\ AcceptNew
  <2> DEFINE e == [id |-> RecordId, seq |-> NextSeq]
  <2>1. NextSeq > 0 /\ e \in EventRecords /\ events \in Seq(EventRecords)
    BY <1>3, NextSeqIsLarger, RecordTyped, SequenceNumbers
       DEF DurabilityInv, AcceptNew, AtRecord, EventRecords
  <2>2. e.seq > 0 /\ events' = Append(events, e)
    BY <1>3, <2>1
  <2> HIDE DEF e
  <2>3. DOMAIN events' = 1 .. Len(events) + 1 /\ DOMAIN events = 1 .. Len(events)
        /\ Len(events) \in Nat
        /\ \A i \in 1 .. Len(events) + 1 : events'[i] = IF i = Len(events) + 1 THEN e ELSE events[i]
    BY <2>1, <2>2
  <2>4. ASSUME NEW i \in 1 .. Len(events) + 1 PROVE events'[i].seq > 0
    <3>1. CASE i = Len(events) + 1
      BY <2>2, <2>3, <3>1
    <3>2. CASE i # Len(events) + 1
      BY <2>3, <3>2 DEF FromOne
    <3> QED BY <3>1, <3>2
  <2> QED BY <2>3, <2>4 DEF FromOne
<1> QED BY <1>1, <1>2, <1>3, EventsStep

\* A first page is about the events there are: its watermark is one of theirs.
LEMMA WatermarkIsIn ==
  ASSUME EvidenceInv
  PROVE  Watermark(events) \in Nat /\ MarkIn(Watermark(events), events)
<1> DEFINE S == {0} \cup {e.seq : e \in Range(events)}
<1>1. Watermark(events) = Max(S) /\ Max(S) \in S /\ Max(S) \in Nat
  BY SequenceNumbers DEF Watermark
<1> QED BY <1>1 DEF MarkIn

\* As long as a cursor is good, the evidence up to its watermark is what its reader
\* last saw of it.
LEMMA EventsAreShown ==
  ASSUME DurabilityInv, ~torn, FromOne, present, ~InReset, shown.epoch = epoch,
         NEW mark \in Nat, MarkIn(mark, shown.events)
  PROVE  AllOutputs(events, mark) = AllOutputs(shown.events, mark) /\ MarkIn(mark, events)
<1> DEFINE few == shown.events
<1>1. Len(few) <= Len(events) /\ \A i \in 1 .. Len(few) : few[i] = events[i]
  BY DEF DurabilityInv, EpochInv, ShownIsKept, Quiet
<1>2. /\ events \in Seq(EventRecords) /\ Len(events) \in Nat /\ DOMAIN events = 1 .. Len(events)
      /\ few \in Seq(EventRecords) /\ Len(few) \in Nat /\ DOMAIN few = 1 .. Len(few)
  BY EpochTyped DEF DurabilityInv
<1>3. MarkIn(mark, few)
  OBVIOUS
<1>4. \A i \in 1 .. Len(events) : events[i].seq \in Nat
  BY <1>2, SequenceNumbers DEF DurabilityInv
<1> HIDE DEF few
<1>5. CASE mark = 0
  <2>1. \A i \in 1 .. Len(events) : events[i].seq > mark
    BY <1>2, <1>5 DEF FromOne
  <2>2. AllOutputs(events, mark) = AllOutputs(few, mark)
    BY <1>1, <1>2, <2>1, AllOutputsPinned
  <2> QED BY <1>5, <2>2 DEF few, MarkIn
<1>6. CASE mark # 0
  <2>1. PICK k \in 1 .. Len(few) : few[k].seq = mark
    BY <1>2, <1>3, <1>6 DEF MarkIn, Range
  <2>2. k \in 1 .. Len(events) /\ events[k].seq = mark
    BY <1>1, <1>2, <2>1
  <2>3. ASSUME NEW i \in 1 .. Len(events), i > Len(few) PROVE events[i].seq > mark
    <3>1. k < i
      BY <1>2, <2>3
    <3>2. events[k].seq < events[i].seq
      BY <1>2, <2>2, <3>1 DEF DurabilityInv, EvidenceInv, SequencesIncrease
    <3> QED BY <1>4, <2>2, <3>2
  <2>4. AllOutputs(events, mark) = AllOutputs(few, mark)
    BY <1>1, <1>2, <2>3, AllOutputsPinned
  <2>5. MarkIn(mark, events)
    BY <1>2, <2>2 DEF MarkIn, Range
  <2> QED BY <2>4, <2>5 DEF few
<1> QED BY <1>5, <1>6

CommandInv == ReaderInv /\ Pages

\* The types of what a command keeps.
LEMMA ReaderIsTyped ==
  ASSUME ReaderInv
  PROVE  /\ reader \in Readers /\ token \in Cursors /\ Query \in Cursors
         /\ Query.epoch \in Nat /\ Query.mark \in Nat /\ Query.line \in Nat /\ Query.ordinal \in Nat
         /\ reader.first \in BOOLEAN /\ reader.lapsed \in BOOLEAN
         /\ reader.rows \in Seq(OutRecords) /\ reader.next \in Cursors
         /\ spoolDir \in BOOLEAN /\ querySpool \in Seq(OutRecords) \cup {NoSpool}
<1>1. reader \in Readers /\ token \in Cursors
      /\ spoolDir \in BOOLEAN /\ querySpool \in Seq(OutRecords) \cup {NoSpool}
  BY DEF ReaderInv, ReaderTyped
<1>2. /\ Query \in Cursors /\ reader.first \in BOOLEAN /\ reader.lapsed \in BOOLEAN
      /\ reader.rows \in Seq(OutRecords) /\ reader.next \in Cursors
  BY <1>1 DEF Readers, Query
<1>3. Query.epoch \in Nat /\ Query.mark \in Nat /\ Query.line \in Nat /\ Query.ordinal \in Nat
  BY <1>2 DEF Cursors
<1> QED BY <1>1, <1>2, <1>3

\* A cursor that a command makes is one of Cursors.
LEMMA CursorTyped ==
  ASSUME NEW kind \in {"none", "logs", "stream", "slurp"}, NEW asOf \in Nat, NEW mark \in Nat,
         NEW line \in Nat, NEW ordinal \in Nat
  PROVE  /\ Cursor(kind, asOf, mark, line, ordinal) \in Cursors
         /\ Cursor(kind, asOf, mark, line, ordinal).kind = kind
         /\ Cursor(kind, asOf, mark, line, ordinal).epoch = asOf
         /\ Cursor(kind, asOf, mark, line, ordinal).mark = mark
         /\ Cursor(kind, asOf, mark, line, ordinal).line = line
         /\ Cursor(kind, asOf, mark, line, ordinal).ordinal = ordinal
  BY DEF Cursor, Cursors

\* A step that leaves the evidence alone.
LEMMA StillLive ==
  ASSUME UNCHANGED evidenceVars
  PROVE  present' = present /\ epoch' = epoch /\ events' = events /\ job' = job
         /\ (InReset' <=> InReset) /\ (Free' <=> Free)
  BY DEF evidenceVars, disk, InReset, Free

-----------------------------------------------------------------------------
\* A first page of the logs is asked for.
LEMMA StartLogsKeeps ==
  ASSUME DurabilityInv, CommandInv, StartLogs
  PROVE  CommandInv'
<1> DEFINE query == IF token = NoToken THEN Cursor("logs", 0, 0, 0, 0) ELSE token
<1> DEFINE first == token = NoToken
<1>1. ReaderInv /\ Pages /\ epoch \in Nat
  BY DEF CommandInv, DurabilityInv, EvidenceInv, Typed, NumbersTyped
<1>2. AtRest /\ token.kind \in {"none", "logs"} /\ UNCHANGED <<spoolDir, querySpool, shown>>
      /\ present' = present /\ epoch' = epoch /\ (InReset' <=> InReset)
  BY StillLive DEF StartLogs
<1>3. /\ query.kind = "logs" /\ query \in Cursors /\ query.epoch <= epoch
      /\ token = NoToken \/ (token = query /\ token.kind = "logs")
  <2>1. CASE token = NoToken
    BY <1>1, <2>1, CursorTyped
  <2>2. CASE token # NoToken
    BY <1>1, <1>2, <2>2, ReaderIsTyped DEF ReaderInv, ReaderShape, Continues
  <2> QED BY <2>1, <2>2
<1>4. querySpool = NoSpool
  BY <1>1, <1>2, <1>3 DEF ReaderInv, SpoolGone, NoToken, Cursor
<1>5. CASE present
  <2>1. reader' = [reader EXCEPT !.at = "diagnostics", !.query = query, !.first = first,
                                 !.lapsed = FALSE] /\ token' = token
    BY <1>5 DEF StartLogs
  <2> HIDE DEF query, first
  <2>2. /\ reader' \in Readers /\ reader'.at = "diagnostics" /\ reader'.query = query
        /\ reader'.lapsed = FALSE
    BY <1>1, <1>3, <2>1, ReaderIsTyped DEF Readers, first
  <2>3. ReaderTyped'
    BY <1>1, <1>2, <2>1, <2>2, ReaderIsTyped DEF ReaderTyped
  <2>4. ReaderShape'
    BY <1>2, <1>3, <2>1, <2>2 DEF ReaderShape, Slurping, IsQuery, AtRest, Query, Continues
  <2>5. SpoolStays' /\ SpoolGone' /\ Refusals'
    BY <1>2, <1>3, <1>4, <2>1, <2>2
       DEF SpoolStays, SpoolGone, Refusals, AtRest, Query, NoToken, Cursor
  <2>6. Pages'
    BY <1>3, <2>2 DEF Pages, IsQuery, Query
  <2> QED BY <2>3, <2>4, <2>5, <2>6 DEF CommandInv, ReaderInv
<1>6. CASE ~present
  <2>1. reader' = [reader EXCEPT !.query = query, !.reply = "404"] /\ token' = NoToken
    BY <1>6 DEF StartLogs
  <2> HIDE DEF query, first
  <2>2. reader' \in Readers /\ reader'.at = "rest" /\ reader'.query = query /\ reader'.reply = "404"
    BY <1>1, <1>2, <1>3, <2>1, ReaderIsTyped DEF Readers, AtRest
  <2>3. ReaderTyped'
    BY <1>1, <1>2, <2>1, <2>2, ReaderIsTyped, CursorTyped DEF ReaderTyped, NoToken
  <2>4. ReaderShape'
    BY <1>2, <1>3, <2>1, <2>2 DEF ReaderShape, Slurping, IsQuery, AtRest, Query
  <2>5. SpoolStays' /\ SpoolGone' /\ Refusals'
    BY <1>2, <1>3, <1>4, <1>6, <2>1, <2>2
       DEF SpoolStays, SpoolGone, Refusals, AtRest, Query, NoToken, Cursor
  <2>6. Pages'
    BY <1>3, <2>2 DEF Pages, IsQuery, Query
  <2> QED BY <2>3, <2>4, <2>5, <2>6 DEF CommandInv, ReaderInv
<1> QED BY <1>5, <1>6

\* A command that ends early drops its cursor.
LEMMA Ended ==
  ASSUME ReaderInv, NEW reply \in {"page", "stale", "404", "500"}, NEW held \in Cursors,
         End(reply, held)
  PROVE  /\ reader' \in Readers /\ reader'.at = "rest" /\ reader'.query = Query
         /\ reader'.reply = reply /\ reader'.lapsed = reader.lapsed /\ token' = held
<1>1. reader' = [reader EXCEPT !.at = "rest", !.reply = reply, !.rows = <<>>, !.next = NoToken]
  BY DEF End
<1>2. NoToken \in Cursors
  BY CursorTyped DEF NoToken
<1>3. <<>> \in Seq(OutRecords) /\ reader \in Readers
  BY ReaderIsTyped
<1>4. reader' \in Readers
  BY <1>1, <1>2, <1>3 DEF Readers
<1>5. /\ reader'.at = "rest" /\ reader'.query = Query
      /\ reader'.reply = reply /\ reader'.lapsed = reader.lapsed
  BY <1>1, <1>3 DEF Readers, Query
<1> QED BY <1>4, <1>5 DEF End

\* A command that moves on to another place.
LEMMA Gone ==
  ASSUME ReaderInv, NEW place \in {"page", "collect", "paging"}, Goto(place)
  PROVE  /\ reader' \in Readers /\ reader'.at = place /\ reader'.query = Query
         /\ reader'.reply = reader.reply /\ reader'.lapsed = reader.lapsed
<1>1. reader' = [reader EXCEPT !.at = place]
  BY DEF Goto
<1> QED BY <1>1, ReaderIsTyped DEF Readers, Query

\* The addon returns.
LEMMA Returned ==
  ASSUME ReaderInv, NEW result, Return(result), result.rows \in Seq(OutRecords),
         result.reply \in {"page", "failed", "timeout", "malformed", "unavailable"},
         result.next \in Cursors
  PROVE  /\ reader' \in Readers /\ reader'.at = "postflight" /\ reader'.query = Query
         /\ reader'.reply = result.reply /\ reader'.rows = result.rows
         /\ reader'.next = result.next /\ reader'.lapsed = reader.lapsed
<1>1. reader' = [reader EXCEPT !.at = "postflight", !.reply = result.reply,
                               !.rows = result.rows, !.next = result.next]
  BY DEF Return
<1> QED BY <1>1, ReaderIsTyped DEF Readers, Query

\* The cursor and the query of a command that is turned away.
LEMMA EndedShape ==
  ASSUME CommandInv, DurabilityInv, NEW reply \in {"stale", "404", "500"}, End(reply, NoToken),
         UNCHANGED <<present, epoch, spoolDir>>, InReset' <=> InReset,
         ~present \/ (Query.epoch # epoch /\ reply = "stale"),
         querySpool' = NoSpool
  PROVE  CommandInv'
<1>1. ReaderInv /\ epoch \in Nat /\ Query.epoch \in Nat /\ Query.epoch <= epoch
  BY ReaderIsTyped DEF CommandInv, DurabilityInv, EvidenceInv, Typed, NumbersTyped,
                       ReaderInv, ReaderShape
<1>2. NoToken \in Cursors /\ NoToken.kind = "none"
  BY CursorTyped DEF NoToken
<1>3. /\ reader' \in Readers /\ reader'.at = "rest" /\ reader'.query = Query
      /\ reader'.reply = reply /\ token' = NoToken
  BY <1>1, <1>2, Ended
<1>4. ReaderTyped'
  BY <1>1, <1>2, <1>3, ReaderIsTyped DEF ReaderTyped
<1>5. ReaderShape'
  BY <1>1, <1>2, <1>3 DEF ReaderShape, Slurping, AtRest, Query
<1>6. SpoolStays' /\ SpoolGone'
  BY <1>2, <1>3 DEF SpoolStays, SpoolGone, AtRest, Query
<1>7. Refusals'
  <2>1. ~present' \/ (reply = "stale" /\ Query.epoch < epoch')
    BY <1>1
  <2> QED BY <1>3, <2>1 DEF Refusals, AtRest, Query
<1>8. Pages'
  BY <1>1, <1>3 DEF Pages, AtRest, Query
<1> QED BY <1>4, <1>5, <1>6, <1>7, <1>8 DEF CommandInv, ReaderInv

\* The diagnostics of a page of the logs are read.
LEMMA ReadDiagnosticsKeeps ==
  ASSUME DurabilityInv, CommandInv, ReadDiagnostics
  PROVE  CommandInv'
<1>1. ReaderInv /\ Query.kind = "logs" /\ Query.kind # "slurp" /\ reader.at = "diagnostics"
      /\ querySpool = NoSpool
  BY DEF CommandInv, ReaderInv, ReaderShape, SpoolGone, ReadDiagnostics
<1>2. /\ UNCHANGED <<spoolDir, querySpool, shown>>
      /\ present' = present /\ epoch' = epoch /\ (InReset' <=> InReset)
  BY StillLive DEF ReadDiagnostics
<1>3. CASE present
  <2>1. token' = token /\ Goto("page")
    BY <1>3 DEF ReadDiagnostics
  <2>2. /\ reader' \in Readers /\ reader'.at = "page" /\ reader'.query = Query
        /\ reader'.lapsed = reader.lapsed
    BY <1>1, <2>1, Gone
  <2>3. ReaderTyped'
    BY <1>1, <1>2, <2>1, <2>2, ReaderIsTyped DEF ReaderTyped
  <2>4. ReaderShape'
    BY <1>1, <1>2, <2>1, <2>2
       DEF ReaderInv, ReaderShape, Slurping, IsQuery, AtRest, Query, Continues
  <2>5. SpoolStays' /\ SpoolGone' /\ Refusals'
    <3>1. token.kind # "slurp"
      BY <1>1 DEF ReaderInv, ReaderShape, Continues, NoToken, Cursor
    <3> QED BY <1>1, <1>2, <2>1, <2>2, <3>1 DEF SpoolStays, SpoolGone, Refusals, AtRest, Query
  <2>6. Pages'
    BY <1>1, <2>2 DEF Pages, IsQuery, Query
  <2> QED BY <2>3, <2>4, <2>5, <2>6 DEF CommandInv, ReaderInv
<1>4. CASE ~present
  BY <1>1, <1>2, <1>4, EndedShape DEF ReadDiagnostics
<1> QED BY <1>3, <1>4

\* A page of the logs is refused because its session is gone or reset.
LEMMA RefuseLogPageKeeps ==
  ASSUME DurabilityInv, CommandInv, RefuseLogPage
  PROVE  CommandInv'
<1>1. Query.kind # "slurp" /\ querySpool = NoSpool
  BY DEF CommandInv, ReaderInv, ReaderShape, SpoolGone, RefuseLogPage
<1>2. UNCHANGED <<present, epoch, spoolDir, querySpool>> /\ (InReset' <=> InReset)
  BY StillLive DEF RefuseLogPage
<1> QED BY <1>1, <1>2, EndedShape DEF RefuseLogPage

\* A page of the logs is answered.
LEMMA ReadLogPageKeeps ==
  ASSUME DurabilityInv, CommandInv, ReadLogPage
  PROVE  CommandInv'
<1> DEFINE mark == IF reader.first THEN Watermark(events) ELSE Query.mark
           query == Cursor("logs", epoch, mark, Query.line, 0)
<1>1. ReaderInv /\ Query.kind = "logs" /\ Query.kind # "slurp" /\ reader.at = "page"
      /\ querySpool = NoSpool
  BY DEF CommandInv, ReaderInv, ReaderShape, SpoolGone, ReadLogPage
<1>2. /\ UNCHANGED <<spoolDir, querySpool>>
      /\ present' = present /\ epoch' = epoch /\ (InReset' <=> InReset)
  BY StillLive DEF ReadLogPage
<1>3. epoch \in Nat /\ mark \in Nat /\ Query.line \in Nat /\ LogLimit \in Nat
  BY <1>1, WatermarkIsIn, ReaderIsTyped, ReadsAssumption
     DEF DurabilityInv, EvidenceInv, Typed, NumbersTyped
<1>4. /\ reader' = [reader EXCEPT !.at = "rest", !.query = query, !.reply = "page"]
      /\ token' \in {NoToken, [query EXCEPT !.line = @ + LogLimit]}
  BY DEF ReadLogPage
<1> HIDE DEF mark
<1>5. /\ query \in Cursors /\ query.kind = "logs" /\ query.epoch = epoch
      /\ query.mark = mark /\ query.line = Query.line
  BY <1>3 DEF Cursor, Cursors
<1> HIDE DEF query
<1>6. /\ reader' \in Readers /\ reader'.at = "rest" /\ reader'.query = query
      /\ reader'.reply = "page"
  BY <1>1, <1>4, <1>5, ReaderIsTyped DEF Readers
<1>7. NoToken \in Cursors /\ NoToken.kind = "none"
  BY CursorTyped DEF NoToken
<1>8. \/ token' = NoToken
      \/ /\ token' \in Cursors /\ token'.kind = "logs" /\ token'.epoch = epoch
         /\ token'.mark = query.mark
  BY <1>3, <1>4, <1>5 DEF Cursors
<1>9. ReaderTyped'
  BY <1>1, <1>2, <1>6, <1>7, <1>8, ReaderIsTyped DEF ReaderTyped
<1>10. ReaderShape'
  BY <1>2, <1>3, <1>5, <1>6, <1>8 DEF ReaderShape, Slurping, IsQuery, AtRest, Query, Continues
<1>11. SpoolStays' /\ SpoolGone' /\ Refusals'
  BY <1>1, <1>2, <1>6, <1>7, <1>8 DEF SpoolStays, SpoolGone, Refusals, AtRest, Query
<1>12. Pages'
  BY <1>5, <1>6 DEF Pages, IsQuery, Query
<1> QED BY <1>9, <1>10, <1>11, <1>12 DEF CommandInv, ReaderInv

\* A new cursor has nothing behind it.
LEMMA NothingReached ==
  ASSUME NEW n \in Nat, NEW whole, InOrder(whole, n), NEW place, place.line = 0, place.ordinal = 0
  PROVE  Reached(whole, <<>>, place)
<1>1. whole \in Seq(OutRecords) /\ Len(whole) \in Nat
  BY DEF InOrder
<1>2. \A i \in 1 .. Len(whole) : ~Before(whole[i], place)
  <2>1. \A i \in 1 .. Len(whole) : whole[i] \in OutRecords
    BY <1>1
  <2>2. \A i \in 1 .. Len(whole) : whole[i].line \in Nat /\ whole[i].ordinal \in Nat
    BY <2>1 DEF OutRecords
  <2> QED BY <2>2 DEF Before
<1>3. Passed(whole, place) = 0
  <2>1. 0 \in 0 .. Len(whole) /\ (\A i \in 1 .. 0 : Before(whole[i], place)) /\ 0 + 1 = 1
    BY <1>1
  <2> QED BY <1>1, <1>2, <2>1, PassedIs
<1>4. 0 <= Len(whole) /\ SubSeq(whole, 1, 0) = <<>>
  BY <1>1
<1> QED BY <1>3, <1>4 DEF Reached

\* A query starts at the sequence number the session has then.
LEMMA StartQueryKeeps ==
  ASSUME DurabilityInv, CommandInv, NEW kind \in {"stream", "slurp"}, StartQuery(kind)
  PROVE  CommandInv'
<1> DEFINE mark == Watermark(events)
           query == Cursor(kind, epoch, mark, 0, 0)
<1>1. ReaderInv /\ Pages /\ epoch \in Nat /\ mark \in Nat /\ MarkIn(mark, events)
  BY WatermarkIsIn DEF CommandInv, DurabilityInv, EvidenceInv, Typed, NumbersTyped
<1>2. /\ UNCHANGED <<spoolDir, querySpool>> /\ token' = NoToken /\ got' = <<>>
      /\ epoch' = epoch /\ shown' = [epoch |-> epoch, events |-> events]
  BY DEF StartQuery, Read, disk
<1>3. /\ query \in Cursors /\ query.kind = kind /\ query.epoch = epoch /\ query.mark = mark
      /\ query.line = 0 /\ query.ordinal = 0
  BY <1>1 DEF Cursor, Cursors
<1>4. querySpool = NoSpool
  BY <1>1 DEF StartQuery, ReaderInv, SpoolGone, NoToken, Cursor
<1>5. reader' = [reader EXCEPT !.at = Entry(kind), !.first = TRUE, !.lapsed = FALSE,
                               !.query = query]
  BY DEF StartQuery
<1>6. shown'.epoch = epoch /\ shown'.events = events
  BY <1>2
<1>7. \E n \in Nat : InOrder(AllOutputs(events, mark), n)
  <2>1. events \in Seq(EventRecords) /\ Len(events) \in Nat
    BY EpochTyped DEF DurabilityInv
  <2> QED BY <1>1, <2>1, AllOutputsInOrder
<1>8. Reached(AllOutputs(events, mark), <<>>, query)
  BY <1>3, <1>7, NothingReached
<1> HIDE DEF query, mark
<1>9. /\ reader' \in Readers /\ reader'.query = query
      /\ reader'.at = IF kind = "slurp" THEN "mkdir" ELSE "native"
  BY <1>1, <1>3, <1>5, ReaderIsTyped DEF Readers, Entry
<1>10. NoToken \in Cursors /\ NoToken.kind = "none"
  BY CursorTyped DEF NoToken
<1>11. ReaderTyped'
  BY <1>1, <1>2, <1>9, <1>10, ReaderIsTyped DEF ReaderTyped
<1>12. ReaderShape'
  BY <1>1, <1>2, <1>3, <1>9 DEF ReaderShape, Slurping, IsQuery, AtRest, Query, Continues
<1>13. SpoolStays' /\ SpoolGone' /\ Refusals'
  BY <1>2, <1>3, <1>4, <1>9, <1>10 DEF SpoolStays, SpoolGone, Refusals, AtRest, Query
<1>14. Pages'
  BY <1>1, <1>2, <1>3, <1>4, <1>6, <1>8, <1>9 DEF Pages, IsQuery, AtRest, Query, Whole
<1> QED BY <1>11, <1>12, <1>13, <1>14 DEF CommandInv, ReaderInv

\* What a cursor that is still good is about.
LEMMA LiveIsShown ==
  ASSUME DurabilityInv, ~torn, FromOne, CommandInv, IsQuery,
         AtRest => token # NoToken, Live(Query)
  PROVE  /\ AllOutputs(events, Query.mark) = Whole(Query.mark)
         /\ MarkIn(Query.mark, events)
<1>1. Query.epoch = shown.epoch /\ MarkIn(Query.mark, shown.events)
  BY DEF CommandInv, Pages
<1>2. Query.mark \in Nat
  BY ReaderIsTyped DEF CommandInv
<1> QED BY <1>1, <1>2, EventsAreShown DEF Live, Whole

\* A query goes on from its cursor.
LEMMA ContinueQueryKeeps ==
  ASSUME DurabilityInv, ~torn, FromOne, CommandInv, ContinueQuery
  PROVE  CommandInv'
<1>1. ReaderInv /\ Pages /\ epoch \in Nat
  BY DEF CommandInv, DurabilityInv, EvidenceInv, Typed, NumbersTyped
<1>2. /\ UNCHANGED <<spoolDir, querySpool>> /\ got' = got
      /\ epoch' = epoch /\ present' = present /\ shown' = [epoch |-> epoch, events |-> events]
      /\ (InReset' <=> InReset) /\ ~InReset /\ present
  BY DEF ContinueQuery, Read, disk, InReset, Free
<1>3. AtRest /\ token \in Cursors /\ token.kind \in {"stream", "slurp"} /\ token # NoToken
  BY <1>1, ReaderIsTyped DEF ContinueQuery, NoToken, Cursor
<1>4. /\ Query.kind = token.kind /\ Query.epoch = token.epoch /\ Query.mark = token.mark
      /\ (token.kind = "slurp" => token.line > 0)
      /\ IsQuery /\ Query.epoch <= epoch /\ Query.epoch \in Nat
  BY <1>1, <1>3, ReaderIsTyped DEF ReaderInv, ReaderShape, Continues, IsQuery
<1>5. CASE token.epoch = epoch
  <2>1. reader' = [reader EXCEPT !.at = Entry(token.kind), !.first = FALSE, !.query = token]
        /\ token' = token
    BY <1>5 DEF ContinueQuery
  <2>2. /\ reader' \in Readers /\ reader'.query = token /\ reader'.lapsed = reader.lapsed
        /\ reader'.at = IF token.kind = "slurp" THEN "mkdir" ELSE "native"
    BY <1>1, <1>3, <2>1, ReaderIsTyped DEF Readers, Entry
  <2>3. Live(Query) /\ Live(token)
    BY <1>2, <1>4, <1>5 DEF Live
  <2>4. AllOutputs(events, token.mark) = Whole(token.mark) /\ MarkIn(token.mark, events)
    BY <1>3, <1>4, <2>3, LiveIsShown
  <2>5. shown'.epoch = epoch /\ shown'.events = events
    BY <1>2
  <2>6. Reached(AllOutputs(events, token.mark), got, token)
    BY <1>1, <1>3, <1>4, <2>4 DEF Pages
  <2>7. ReaderTyped'
    BY <1>1, <1>2, <2>1, <2>2, ReaderIsTyped DEF ReaderTyped
  <2>8. ReaderShape'
    BY <1>2, <1>3, <1>4, <2>1, <2>2 DEF ReaderShape, Slurping, IsQuery, AtRest, Query, Continues
  <2>9. SpoolStays'
    BY <1>1, <1>2, <1>3, <1>4, <2>1, <2>2, <2>3
       DEF ReaderInv, SpoolStays, AtRest, Query, Live
  <2>10. SpoolGone' /\ Refusals'
    <3>1. token.kind = "stream" => querySpool = NoSpool
      BY <1>1, <1>4 DEF ReaderInv, SpoolGone
    <3>2. token.kind = "slurp" => token.line # 0
      BY <1>3, <1>4 DEF Cursors
    <3> QED BY <1>2, <1>3, <2>1, <2>2, <3>1, <3>2 DEF SpoolGone, Refusals, AtRest, Query
  <2>11. Pages'
    <3>1. Query.kind = "slurp" /\ querySpool # NoSpool =>
            querySpool = AllOutputs(events, token.mark)
      BY <1>1, <1>4, <2>3, <2>4 DEF Pages
    <3> QED BY <1>2, <1>3, <1>4, <1>5, <2>1, <2>2, <2>4, <2>5, <2>6, <3>1
            DEF Pages, IsQuery, AtRest, Query, Whole
  <2> QED BY <2>7, <2>8, <2>9, <2>10, <2>11 DEF CommandInv, ReaderInv
<1>6. CASE token.epoch # epoch
  <2>1. End("stale", NoToken)
    BY <1>6 DEF ContinueQuery
  <2>2. querySpool = NoSpool
    BY <1>1, <1>3, <1>6 DEF ReaderInv, SpoolGone
  <2> QED BY <1>2, <1>4, <1>6, <2>1, <2>2, EndedShape
<1> QED BY <1>5, <1>6

\* A cursor of a session that is gone is turned away.
LEMMA ContinueGoneKeeps ==
  ASSUME DurabilityInv, CommandInv, ContinueGone
  PROVE  CommandInv'
<1>1. querySpool = NoSpool
  BY DEF ContinueGone, CommandInv, ReaderInv, SpoolGone
<1>2. UNCHANGED <<present, epoch, spoolDir, querySpool>> /\ (InReset' <=> InReset)
  BY StillLive DEF ContinueGone
<1> QED BY <1>1, <1>2, EndedShape DEF ContinueGone

\* A step of the addon leaves the evidence and the reader's cursor alone.
Beside == UNCHANGED evidenceVars /\ UNCHANGED <<shown, token, got>>

\* Then neither does what the cursor is about.
LEMMA BesideLeaves ==
  ASSUME Beside
  PROVE  /\ present' = present /\ epoch' = epoch /\ events' = events /\ (InReset' <=> InReset)
         /\ token' = token /\ got' = got /\ shown' = shown
  BY StillLive DEF Beside

\* What is known of a query under way.
LEMMA UnderWay ==
  ASSUME CommandInv, reader.at \in Slurping \cup {"native", "postflight"}
  PROVE  /\ ReaderInv /\ Pages /\ IsQuery /\ ~AtRest
         /\ Query.epoch <= epoch /\ Query.kind # "none"
         /\ reader.at \in Slurping => Query.kind = "slurp"
         /\ reader.at = "native" => Query.kind = "stream"
         /\ (token = NoToken /\ Query.line = 0 /\ Query.ordinal = 0) \/ token = Query
         /\ token = NoToken \/ Continues(token)
         /\ token.kind \in {"none", Query.kind} /\ (token = NoToken <=> token.kind = "none")
         /\ Query.epoch = shown.epoch /\ MarkIn(Query.mark, shown.events)
         /\ Reached(Whole(Query.mark), got, Query)
         /\ Query.kind = "stream" => querySpool = NoSpool
<1>1. ReaderInv /\ Pages
  BY DEF CommandInv
<1>2. IsQuery /\ ~AtRest
  BY <1>1 DEF ReaderInv, ReaderShape, IsQuery, Slurping, AtRest
<1>3. NoToken.kind = "none"
  BY DEF NoToken, Cursor
<1> QED BY <1>1, <1>2, <1>3 DEF ReaderInv, ReaderShape, SpoolGone, Pages, Continues, IsQuery

\* The addon fails.
LEMMA AddonFails ==
  ASSUME CommandInv, reader.at \in {"native", "collect", "store", "paging"},
         NEW reply \in {"failed", "timeout", "malformed", "unavailable"},
         Return(Error(reply)), Beside, UNCHANGED <<spoolDir, querySpool>>,
         reply # "timeout" => querySpool = NoSpool,
         reply = "unavailable" /\ Live(Query) => reader.lapsed,
         reply = "malformed" /\ Query.kind = "slurp" => token = NoToken
  PROVE  CommandInv'
<1>1. /\ ReaderInv /\ Pages /\ IsQuery /\ ~AtRest /\ Query.epoch <= epoch
      /\ (token = NoToken /\ Query.line = 0 /\ Query.ordinal = 0) \/ token = Query
      /\ token = NoToken \/ Continues(token)
  BY UnderWay DEF Slurping
<1>2. /\ present' = present /\ epoch' = epoch /\ events' = events /\ (InReset' <=> InReset)
      /\ token' = token /\ got' = got /\ shown' = shown /\ UNCHANGED <<spoolDir, querySpool>>
  BY BesideLeaves
<1>3. /\ Error(reply).rows = <<>> /\ Error(reply).rows \in Seq(OutRecords)
      /\ Error(reply).next = NoToken /\ NoToken \in Cursors /\ Error(reply).reply = reply
  BY CursorTyped DEF Error, NoToken
<1>4. /\ reader' \in Readers /\ reader'.at = "postflight" /\ reader'.query = Query
      /\ reader'.reply = reply /\ reader'.next = NoToken /\ reader'.lapsed = reader.lapsed
  BY <1>1, <1>3, Returned
<1>5. ReaderTyped'
  BY <1>1, <1>2, <1>4, ReaderIsTyped DEF ReaderTyped
<1>6. ReaderShape'
  BY <1>1, <1>2, <1>4 DEF ReaderShape, Slurping, IsQuery, AtRest, Query, Continues
<1>7. SpoolStays'
  BY <1>1, <1>2, <1>4 DEF ReaderInv, SpoolStays, Query, Live
<1>8. SpoolGone' /\ Refusals'
  BY <1>1, <1>2, <1>4 DEF ReaderInv, SpoolGone, Refusals, AtRest, Query
<1>9. Pages'
  BY <1>1, <1>2, <1>4 DEF Pages, IsQuery, AtRest, Query, Whole, Live
<1> QED BY <1>5, <1>6, <1>7, <1>8, <1>9 DEF CommandInv, ReaderInv

\* A slurp query makes its directory of spools.
LEMMA MakeSpoolDirKeeps ==
  ASSUME CommandInv, MakeSpoolDir
  PROVE  CommandInv'
<1>1. /\ ReaderInv /\ Pages /\ IsQuery /\ ~AtRest /\ Query.kind = "slurp" /\ Query.epoch <= epoch
      /\ (token = NoToken /\ Query.line = 0 /\ Query.ordinal = 0) \/ token = Query
      /\ token = NoToken \/ Continues(token)
  BY UnderWay DEF Slurping, MakeSpoolDir
<1>2. /\ present' = present /\ epoch' = epoch /\ events' = events /\ (InReset' <=> InReset)
      /\ token' = token /\ got' = got /\ shown' = shown
      /\ spoolDir' = TRUE /\ querySpool' = querySpool
  BY BesideLeaves DEF MakeSpoolDir, Beside
<1>3. /\ reader' \in Readers /\ reader'.at = "collect" /\ reader'.query = Query
      /\ reader'.reply = reader.reply /\ reader'.lapsed = reader.lapsed
  BY <1>1, Gone DEF MakeSpoolDir
<1>4. ReaderTyped'
  BY <1>1, <1>2, <1>3, ReaderIsTyped DEF ReaderTyped
<1>5. ReaderShape'
  BY <1>1, <1>2, <1>3 DEF ReaderShape, Slurping, IsQuery, AtRest, Query, Continues
<1>6. SpoolStays'
  BY <1>1, <1>2, <1>3 DEF ReaderInv, SpoolStays, Query, Live
<1>7. SpoolGone' /\ Refusals'
  BY <1>1, <1>2, <1>3 DEF ReaderInv, SpoolGone, Refusals, AtRest, Query, MakeSpoolDir
<1>8. Pages'
  BY <1>1, <1>2, <1>3 DEF Pages, IsQuery, AtRest, Query, Whole, Live
<1> QED BY <1>4, <1>5, <1>6, <1>7, <1>8 DEF CommandInv, ReaderInv

\* A slurp query stores its output.
LEMMA StoreSpoolKeeps ==
  ASSUME CommandInv, StoreSpool
  PROVE  CommandInv'
<1>1. /\ ReaderInv /\ Pages /\ IsQuery /\ ~AtRest /\ Query.kind = "slurp" /\ Query.epoch <= epoch
      /\ (token = NoToken /\ Query.line = 0 /\ Query.ordinal = 0) \/ token = Query
      /\ token = NoToken \/ Continues(token)
      /\ reader.at = "store"
  BY UnderWay DEF Slurping, StoreSpool
<1>2. querySpool = NoSpool /\ Query.line = 0
  BY <1>1 DEF ReaderInv, SpoolGone
<1>3. /\ present' = present /\ epoch' = epoch /\ events' = events /\ (InReset' <=> InReset)
      /\ token' = token /\ got' = got /\ shown' = shown /\ spoolDir' = spoolDir
  BY BesideLeaves DEF StoreSpool, Beside
<1>4. CASE spoolDir
  <2>1. querySpool' = reader.rows /\ reader' = [reader EXCEPT !.at = "paging", !.rows = <<>>]
    BY <1>4 DEF StoreSpool
  <2>2. querySpool' \in Seq(OutRecords) /\ querySpool' # NoSpool
    BY <1>1, <2>1, ReaderIsTyped, ReadsAssumption
  <2>3. <<>> \in Seq(OutRecords)
    OBVIOUS
  <2>4. /\ reader' \in Readers /\ reader'.at = "paging" /\ reader'.query = Query
        /\ reader'.lapsed = reader.lapsed
    BY <1>1, <2>1, <2>3, ReaderIsTyped DEF Readers, Query
  <2>5. ReaderTyped'
    BY <1>1, <1>3, <2>2, <2>4, ReaderIsTyped DEF ReaderTyped
  <2>6. ReaderShape'
    BY <1>1, <1>3, <2>4 DEF ReaderShape, Slurping, IsQuery, AtRest, Query, Continues
  <2>7. SpoolStays'
    BY <1>1, <1>3, <2>2, <2>4 DEF SpoolStays, Query, Live
  <2>8. SpoolGone' /\ Refusals'
    BY <1>1, <1>3, <2>4 DEF SpoolGone, Refusals, AtRest, Query
  <2>9. Pages'
    BY <1>1, <1>3, <2>1, <2>4 DEF Pages, IsQuery, AtRest, Query, Whole, Live
  <2> QED BY <2>5, <2>6, <2>7, <2>8, <2>9 DEF CommandInv, ReaderInv
<1>5. CASE ~spoolDir
  <2>1. Return(Error("unavailable")) /\ UNCHANGED <<spoolDir, querySpool>> /\ Beside
    BY <1>5 DEF StoreSpool, Beside
  <2>2. ~Live(Query)
    BY <1>1, <1>5 DEF ReaderInv, SpoolStays
  <2> QED BY <1>1, <1>2, <2>1, <2>2, AddonFails
<1> QED BY <1>4, <1>5

\* The answers.
LEMMA AnswerStaleKeeps ==
  ASSUME DurabilityInv, CommandInv, AnswerStale
  PROVE  CommandInv'
<1>1. ReaderInv /\ querySpool' = NoSpool
  BY UnderWay DEF AnswerStale, DropStaleSpool, DropSpool, IsQuery
<1>2. UNCHANGED <<present, epoch, spoolDir>> /\ (InReset' <=> InReset)
  BY StillLive DEF AnswerStale
<1> QED BY <1>1, <1>2, EndedShape DEF AnswerStale, SnapshotIsStale

\* A query answers its page.
LEMMA AnswerPageKeeps ==
  ASSUME CommandInv, AnswerPage
  PROVE  CommandInv'
<1> DEFINE next == reader.next
<1>1. /\ ReaderInv /\ Pages /\ IsQuery /\ ~AtRest /\ Query.epoch <= epoch
      /\ Query.epoch = shown.epoch /\ MarkIn(Query.mark, shown.events)
      /\ Query.kind = "stream" => querySpool = NoSpool
      /\ reader.at = "postflight" /\ reader.reply = "page"
  BY UnderWay DEF AnswerPage
<1>2. /\ present' = present /\ epoch' = epoch /\ (InReset' <=> InReset)
      /\ shown' = shown /\ spoolDir' = spoolDir /\ got' = got \o reader.rows
      /\ querySpool' \in {querySpool, NoSpool}
      /\ next = NoToken => querySpool' = NoSpool
      /\ next # NoToken => querySpool' = querySpool
  BY <1>1, StillLive DEF AnswerPage, DropSpool, IsQuery
<1>3. Live(Query) /\ present /\ ~InReset /\ Query.epoch = epoch
  BY DEF AnswerPage, SnapshotIsStale, Live, Free, InReset
<1>4. next \in Cursors /\ End("page", next)
  BY <1>1, ReaderIsTyped DEF AnswerPage
<1>5. /\ reader' \in Readers /\ reader'.at = "rest" /\ reader'.query = Query
      /\ reader'.reply = "page" /\ reader'.lapsed = reader.lapsed /\ token' = next
  BY <1>1, <1>4, Ended
<1>6. /\ next = NoToken \/ Continues(next)
      /\ NoToken.kind = "none"
  BY <1>1 DEF ReaderInv, ReaderShape, NoToken, Cursor
<1>7. Query.kind = "slurp" /\ next # NoToken => querySpool # NoSpool
  BY <1>1, <1>3 DEF ReaderInv, SpoolStays
<1>8. IF next = NoToken THEN got \o reader.rows = Whole(Query.mark)
      ELSE Reached(Whole(Query.mark), got \o reader.rows, next)
  BY <1>1, <1>3 DEF Pages
<1> HIDE DEF next
<1>9. ReaderTyped'
  BY <1>1, <1>2, <1>4, <1>5, ReaderIsTyped DEF ReaderTyped
<1>10. ReaderShape'
  BY <1>1, <1>2, <1>5, <1>6 DEF ReaderShape, Slurping, IsQuery, AtRest, Query, Continues
<1>11. SpoolStays'
  BY <1>2, <1>5, <1>6, <1>7 DEF SpoolStays, Continues, Query
<1>12. SpoolGone' /\ Refusals'
  BY <1>1, <1>2, <1>3, <1>5, <1>6 DEF SpoolGone, Refusals, AtRest, Query, Continues, IsQuery
<1>13. Pages'
  BY <1>1, <1>2, <1>3, <1>5, <1>6, <1>8 DEF Pages, IsQuery, AtRest, Query, Whole, Live, Continues
<1> QED BY <1>9, <1>10, <1>11, <1>12, <1>13 DEF CommandInv, ReaderInv

\* A query answers with the addon's error; a slurp drops its spool unless it timed out.
LEMMA AnswerErrorKeeps ==
  ASSUME CommandInv, AnswerError
  PROVE  CommandInv'
<1> DEFINE lapsed == reader.lapsed \/ (Query.kind = "slurp" /\ reader.reply = "timeout")
<1>1. /\ ReaderInv /\ Pages /\ IsQuery /\ ~AtRest /\ Query.epoch <= epoch
      /\ Query.epoch = shown.epoch /\ MarkIn(Query.mark, shown.events)
      /\ token = NoToken \/ token = Query
      /\ token = NoToken \/ Continues(token)
      /\ token.kind \in {"none", Query.kind} /\ (token = NoToken <=> token.kind = "none")
      /\ Reached(Whole(Query.mark), got, Query)
      /\ Query.kind = "stream" => querySpool = NoSpool
      /\ reader.at = "postflight"
  BY UnderWay DEF AnswerError
<1>2. /\ present' = present /\ epoch' = epoch /\ (InReset' <=> InReset)
      /\ shown' = shown /\ spoolDir' = spoolDir /\ got' = got /\ token' = token
      /\ querySpool' = IF reader.reply \in {"timeout", "malformed"} THEN NoSpool ELSE querySpool
  BY <1>1, StillLive DEF AnswerError, DropSpool, IsQuery
<1>3. Live(Query) /\ present /\ ~InReset /\ Query.epoch = epoch
  BY DEF AnswerError, SnapshotIsStale, Live, Free, InReset
<1>4. reader.reply \in {"failed", "timeout", "malformed", "unavailable"}
  BY <1>1 DEF AnswerError, ReaderInv, ReaderShape
<1>5. reader' = [reader EXCEPT !.at = "rest", !.lapsed = lapsed]
  BY DEF AnswerError
<1>6. lapsed \in BOOLEAN
  OBVIOUS
<1>7. /\ reader.reply = "unavailable" => lapsed
      /\ reader.reply = "timeout" /\ Query.kind = "slurp" => lapsed
      /\ reader.lapsed => lapsed
  BY <1>1, <1>3 DEF ReaderInv, SpoolStays
<1> HIDE DEF lapsed
<1>8. /\ reader' \in Readers /\ reader'.at = "rest" /\ reader'.query = Query
      /\ reader'.reply = reader.reply /\ reader'.lapsed = lapsed
  BY <1>1, <1>5, <1>6, ReaderIsTyped DEF Readers, Query
<1>9. ReaderTyped'
  BY <1>1, <1>2, <1>8, ReaderIsTyped DEF ReaderTyped
<1>10. ReaderShape'
  BY <1>1, <1>2, <1>8 DEF ReaderShape, Slurping, IsQuery, AtRest, Query, Continues
<1>11. token.kind = "slurp" => querySpool' # NoSpool \/ lapsed
  <2>1. SUFFICES ASSUME token.kind = "slurp" PROVE querySpool' # NoSpool \/ lapsed
    OBVIOUS
  <2>2. token = Query /\ Query.kind = "slurp" /\ token # NoToken /\ Live(token)
    BY <1>1, <1>3, <2>1
  <2>3. querySpool # NoSpool \/ reader.lapsed
    BY <1>1, <2>1, <2>2 DEF ReaderInv, SpoolStays
  <2>4. reader.reply # "malformed"
    BY <1>1, <2>2 DEF ReaderInv, SpoolGone
  <2> QED BY <1>2, <1>4, <1>7, <2>2, <2>3, <2>4
<1>12. SpoolStays'
  BY <1>2, <1>8, <1>11 DEF SpoolStays
<1>13. querySpool' = NoSpool
  BY <1>1, <1>2, <1>4 DEF ReaderInv, SpoolGone
<1>14. SpoolGone' /\ Refusals'
  BY <1>4, <1>7, <1>8, <1>13 DEF SpoolGone, Refusals, AtRest, Query
<1>15. Pages'
  BY <1>1, <1>2, <1>3, <1>4, <1>8, <1>13 DEF Pages, IsQuery, AtRest, Query, Whole
<1> QED BY <1>9, <1>10, <1>12, <1>14, <1>15 DEF CommandInv, ReaderInv

\* The addon reads the events, and perhaps half a line.
LEMMA TailsTyped ==
  ASSUME EvidenceInv, NEW tail \in Tails, NEW mark \in Nat
  PROVE  StreamOf(AllOutputs(events, mark), Len(events), tail)
<1>1. events \in Seq(EventRecords) /\ Len(events) \in Nat
  BY EpochTyped
<1>2. InOrder(AllOutputs(events, mark), Len(events))
  BY <1>1, AllOutputsInOrder
<1>3. CASE tail # <<>>
  <2> DEFINE m == [line |-> Len(events), ordinal |-> 0, of |-> RecordId, is |-> "malformed"]
  <2>1. AppendUnderWay /\ tail = <<m>>
    BY <1>3 DEF Tails
  <2>2. RecordId \in RecordIds
    BY <2>1, RecordTyped DEF AppendUnderWay, AtRecord
  <2>3. m \in OutRecords
    BY <1>1, <2>2 DEF OutRecords
  <2>4. m.line = Len(events) /\ m.ordinal = 0 /\ m.is = "malformed"
    OBVIOUS
  <2> HIDE DEF m
  <2> QED BY <1>2, <2>1, <2>3, <2>4 DEF StreamOf
<1>4. CASE tail = <<>>
  BY <1>2, <1>4 DEF StreamOf
<1> QED BY <1>3, <1>4

\* A page that is not one: the addon returns an error.
LEMMA FailureIsError ==
  ASSUME NEW outs
  PROVE  \E reply \in {"failed", "malformed"} : Failure(outs) = Error(reply)
  BY DEF Failure

\* All the values and no half line are the program's output.
LEMMA ValuesOnly ==
  ASSUME NEW n \in Nat, NEW outs, NEW tail, StreamOf(outs, n, tail), AllValues(outs \o tail)
  PROVE  outs \o tail = outs /\ outs \in Seq(OutRecords)
<1>1. outs \in Seq(OutRecords) /\ Len(outs) \in Nat
  BY DEF StreamOf, InOrder
<1>2. CASE tail = <<>>
  BY <1>1, <1>2
<1>3. CASE tail # <<>>
  <2>1. PICK m \in OutRecords : tail = <<m>> /\ m.is = "malformed"
    BY <1>3 DEF StreamOf
  <2>2. /\ Len(outs) + 1 \in DOMAIN (outs \o tail)
        /\ (outs \o tail)[Len(outs) + 1] = m
    BY <1>1, <2>1
  <2> QED BY <2>1, <2>2 DEF AllValues
<1> QED BY <1>2, <1>3

\* A slurp query collects the program's output, all of it or none.
LEMMA CollectSlurpKeeps ==
  ASSUME DurabilityInv, ~torn, FromOne, CommandInv, CollectSlurp
  PROVE  CommandInv'
<1>1. /\ ReaderInv /\ Pages /\ IsQuery /\ ~AtRest /\ Query.kind = "slurp" /\ Query.epoch <= epoch
      /\ (token = NoToken /\ Query.line = 0 /\ Query.ordinal = 0) \/ token = Query
      /\ token = NoToken \/ Continues(token)
      /\ reader.at = "collect" /\ Query.line \in Nat /\ Query.mark \in Nat
  BY UnderWay, ReaderIsTyped DEF Slurping, CollectSlurp
<1>2. /\ present' = present /\ epoch' = epoch /\ events' = events /\ (InReset' <=> InReset)
      /\ token' = token /\ got' = got /\ shown' = shown
      /\ spoolDir' = spoolDir /\ querySpool' = querySpool
      /\ Beside
  BY BesideLeaves DEF CollectSlurp, Beside
<1>3. CASE querySpool # NoSpool /\ Goto("paging")
  <2>1. /\ reader' \in Readers /\ reader'.at = "paging" /\ reader'.query = Query
        /\ reader'.lapsed = reader.lapsed
    BY <1>1, <1>3, Gone
  <2>2. ReaderTyped'
    BY <1>1, <1>2, <2>1, ReaderIsTyped DEF ReaderTyped
  <2>3. ReaderShape'
    BY <1>1, <1>2, <2>1 DEF ReaderShape, Slurping, IsQuery, AtRest, Query, Continues
  <2>4. SpoolStays'
    BY <1>1, <1>2, <1>3, <2>1 DEF ReaderInv, SpoolStays, Query, Live
  <2>5. SpoolGone' /\ Refusals'
    BY <1>1, <1>2, <2>1 DEF ReaderInv, SpoolGone, Refusals, AtRest, Query
  <2>6. Pages'
    BY <1>1, <1>2, <2>1 DEF Pages, IsQuery, AtRest, Query, Whole, Live
  <2> QED BY <2>2, <2>3, <2>4, <2>5, <2>6 DEF CommandInv, ReaderInv
<1>4. CASE querySpool = NoSpool /\ Query.line > 0 /\ Return(Error("unavailable"))
  <2>1. token = Query /\ token.kind = "slurp"
    BY <1>1, <1>4
  <2>2. Live(Query) => reader.lapsed
    BY <1>1, <1>4, <2>1 DEF ReaderInv, SpoolStays
  <2> QED BY <1>1, <1>2, <1>4, <2>2, AddonFails
<1>5. ASSUME querySpool = NoSpool, Query.line = 0,
             NEW reply \in {"failed", "timeout", "malformed"}, Return(Error(reply))
      PROVE  CommandInv'
  <2>1. token = NoToken
    BY <1>1, <1>5 DEF Continues
  <2> QED BY <1>1, <1>2, <1>5, <2>1, AddonFails
<1>6. ASSUME querySpool = NoSpool, Query.line = 0, present, NEW tail \in Tails,
             AllValues(AllOutputs(events, Query.mark) \o tail),
             reader' = [reader EXCEPT !.at = "store",
                                      !.rows = AllOutputs(events, Query.mark) \o tail]
      PROVE  CommandInv'
  <2> DEFINE outs == AllOutputs(events, Query.mark)
  <2>1. Len(events) \in Nat /\ StreamOf(outs, Len(events), tail)
    BY <1>1, TailsTyped, EpochTyped DEF DurabilityInv
  <2>2. outs \o tail = outs /\ outs \in Seq(OutRecords)
    BY <1>6, <2>1, ValuesOnly
  <2>3. Live(Query) => outs = Whole(Query.mark)
    BY <1>1, LiveIsShown
  <2>4. reader' = [reader EXCEPT !.at = "store", !.rows = outs]
    BY <1>6, <2>2
  <2> HIDE DEF outs
  <2>5. /\ reader' \in Readers /\ reader'.at = "store" /\ reader'.query = Query
        /\ reader'.lapsed = reader.lapsed /\ reader'.rows = outs
    BY <1>1, <2>2, <2>4, ReaderIsTyped DEF Readers, Query
  <2>6. ReaderTyped'
    BY <1>1, <1>2, <2>5, ReaderIsTyped DEF ReaderTyped
  <2>7. ReaderShape'
    BY <1>1, <1>2, <2>5 DEF ReaderShape, Slurping, IsQuery, AtRest, Query, Continues
  <2>8. SpoolStays'
    BY <1>1, <1>2, <2>5 DEF ReaderInv, SpoolStays, Query, Live
  <2>9. SpoolGone' /\ Refusals'
    BY <1>1, <1>2, <1>6, <2>5 DEF SpoolGone, Refusals, AtRest, Query
  <2>10. Pages'
    BY <1>1, <1>2, <1>6, <2>3, <2>5 DEF Pages, IsQuery, AtRest, Query, Whole, Live
  <2> QED BY <2>6, <2>7, <2>8, <2>9, <2>10 DEF CommandInv, ReaderInv
<1>7. ASSUME querySpool = NoSpool, Query.line = 0, NEW outs, Return(Failure(outs))
      PROVE  CommandInv'
  BY <1>5, <1>7, FailureIsError
<1> QED BY <1>3, <1>4, <1>5, <1>6, <1>7 DEF CollectSlurp

\* A page of the spool and what came before it.
LEMMA NextSlice ==
  ASSUME NEW S, NEW s \in Seq(S), NEW m \in Nat, NEW n \in Nat, m <= n, n <= Len(s)
  PROVE  SubSeq(s, 1, m) \o SubSeq(s, m + 1, n) = SubSeq(s, 1, n)
<1>1. Len(s) \in Nat /\ 1 \in 1 .. Len(s) + 1 /\ m \in 1 - 1 .. Len(s) /\ n \in m .. Len(s)
  OBVIOUS
<1> QED BY ONLY <1>1, s \in Seq(S), ConcatAdjacentSubSeq

\* The addon returns a page.
LEMMA AddonPage ==
  ASSUME CommandInv, reader.at \in {"native", "paging"},
         NEW rows \in Seq(OutRecords), NEW next \in Cursors,
         Return([reply |-> "page", rows |-> rows, next |-> next]), Beside,
         UNCHANGED <<spoolDir, querySpool>>, next = NoToken \/ Continues(next),
         Query.kind = "slurp" => querySpool # NoSpool,
         Live(Query) => IF next = NoToken THEN got \o rows = Whole(Query.mark)
                        ELSE Reached(Whole(Query.mark), got \o rows, next)
  PROVE  CommandInv'
<1>1. /\ ReaderInv /\ Pages /\ IsQuery /\ ~AtRest /\ Query.epoch <= epoch
      /\ (token = NoToken /\ Query.line = 0 /\ Query.ordinal = 0) \/ token = Query
      /\ token = NoToken \/ Continues(token)
  BY UnderWay DEF Slurping
<1>2. /\ present' = present /\ epoch' = epoch /\ events' = events /\ (InReset' <=> InReset)
      /\ token' = token /\ got' = got /\ shown' = shown /\ UNCHANGED <<spoolDir, querySpool>>
  BY BesideLeaves
<1> DEFINE result == [reply |-> "page", rows |-> rows, next |-> next]
<1>3. result.reply = "page" /\ result.rows = rows /\ result.next = next /\ Return(result)
  OBVIOUS
<1> HIDE DEF result
<1>4. /\ reader' \in Readers /\ reader'.at = "postflight" /\ reader'.query = Query
      /\ reader'.reply = "page" /\ reader'.rows = rows /\ reader'.next = next
      /\ reader'.lapsed = reader.lapsed
  BY <1>1, <1>3, Returned
<1>5. ReaderTyped'
  BY <1>1, <1>2, <1>4, ReaderIsTyped DEF ReaderTyped
<1>6. ReaderShape'
  BY <1>1, <1>2, <1>4 DEF ReaderShape, Slurping, IsQuery, AtRest, Query, Continues
<1>7. SpoolStays'
  BY <1>1, <1>2, <1>4 DEF ReaderInv, SpoolStays, Query, Live
<1>8. SpoolGone' /\ Refusals'
  BY <1>1, <1>2, <1>4 DEF ReaderInv, SpoolGone, Refusals, AtRest, Query
<1>9. Pages'
  BY <1>1, <1>2, <1>4 DEF Pages, IsQuery, AtRest, Query, Whole, Live
<1> QED BY <1>5, <1>6, <1>7, <1>8, <1>9 DEF CommandInv, ReaderInv

\* A slurp query reads a page of its spool.
LEMMA ReadSpoolPageKeeps ==
  ASSUME CommandInv, ReadSpoolPage
  PROVE  CommandInv'
<1>1. /\ ReaderInv /\ Pages /\ Query.kind = "slurp" /\ reader.at = "paging"
      /\ Reached(Whole(Query.mark), got, Query)
      /\ Query.kind # "none" /\ Query \in Cursors
  BY UnderWay, ReaderIsTyped DEF Slurping, ReadSpoolPage
<1>2. Beside /\ UNCHANGED <<spoolDir, querySpool>>
  BY DEF ReadSpoolPage, Beside
<1>3. CASE querySpool = NoSpool /\ Return(Error("unavailable"))
  <2>1. ~Live(Query)
    BY <1>1, <1>3 DEF ReaderInv, SpoolStays
  <2> QED BY <1>1, <1>2, <1>3, <2>1, AddonFails
<1>4. CASE Return(Error("timeout"))
  BY <1>1, <1>2, <1>4, AddonFails
<1>5. CASE querySpool # NoSpool /\ ~Return(Error("timeout"))
  <2> DEFINE q == querySpool
             k == Query.line
             upto == Min({k + PageSize, Len(q)})
             rows == SubSeq(q, k + 1, upto)
             next == IF upto = Len(q) THEN NoToken ELSE [Query EXCEPT !.line = upto]
  <2>1. Return([reply |-> "page", rows |-> rows, next |-> next])
    BY <1>5 DEF ReadSpoolPage
  <2>2. q \in Seq(OutRecords) /\ Len(q) \in Nat /\ k \in Nat /\ PageSize \in Nat /\ PageSize > 0
    BY <1>1, <1>5, ReaderIsTyped, ReadsAssumption
  <2>3. q # NoSpool /\ (Live(Query) => q = Whole(Query.mark))
    BY <1>1, <1>5 DEF Pages
  <2>4. Live(Query) => k <= Len(q) /\ got = SubSeq(q, 1, k)
    BY <1>1, <2>3 DEF Reached
  <2> HIDE DEF q, k
  <2>5. upto = IF k + PageSize <= Len(q) THEN k + PageSize ELSE Len(q)
    BY <2>2, LeastOf
  <2>6. upto \in Nat /\ upto <= Len(q) /\ (upto # Len(q) => upto > 0) /\ (k <= Len(q) => k <= upto)
    BY <2>2, <2>5
  <2> HIDE DEF upto
  <2>7. rows \in Seq(OutRecords)
    <3>1. CASE k <= upto
      BY <2>2, <2>6, <3>1, Slice
    <3>2. CASE k > upto
      <4>1. rows = <<>>
        BY <2>2, <2>6, <3>2
      <4>2. <<>> \in Seq(OutRecords)
        OBVIOUS
      <4> HIDE DEF rows
      <4> QED BY <4>1, <4>2
    <3> QED BY <2>2, <2>6, <3>1, <3>2
  <2>8. /\ next \in Cursors
        /\ next = NoToken \/ Continues(next)
        /\ upto # Len(q) => next.kind = "slurp" /\ next.line = upto /\ next # NoToken
        /\ upto = Len(q) => next = NoToken
    <3>1. CASE upto = Len(q)
      BY <3>1, CursorTyped DEF NoToken
    <3>2. CASE upto # Len(q)
      <4>1. /\ next \in Cursors /\ next.kind = Query.kind /\ next.epoch = Query.epoch
            /\ next.mark = Query.mark /\ next.line = upto
        BY <1>1, <2>6, <3>2 DEF Cursors
      <4> HIDE DEF next
      <4> QED BY <1>1, <2>6, <3>2, <4>1 DEF Continues, NoToken, Cursor
    <3> QED BY <3>1, <3>2
  <2>9. Live(Query) => got \o rows = SubSeq(q, 1, upto)
    BY <2>2, <2>4, <2>6, NextSlice
  <2> HIDE DEF rows, next
  <2>10. Live(Query) => IF next = NoToken THEN got \o rows = Whole(Query.mark)
                        ELSE Reached(Whole(Query.mark), got \o rows, next)
    <3> SUFFICES ASSUME Live(Query)
                 PROVE  IF next = NoToken THEN got \o rows = q ELSE Reached(q, got \o rows, next)
      BY <2>3
    <3>1. CASE upto = Len(q)
      <4>1. SubSeq(q, 1, Len(q)) = q
        BY <2>2
      <4> QED BY <2>8, <2>9, <3>1, <4>1
    <3>2. CASE upto # Len(q)
      BY <2>6, <2>8, <2>9, <3>2 DEF Reached
    <3> QED BY <3>1, <3>2
  <2>11. querySpool # NoSpool
    BY <1>5
  <2> QED BY <1>1, <1>2, <2>1, <2>7, <2>8, <2>10, <2>11, AddonPage
<1> QED BY <1>3, <1>4, <1>5 DEF ReadSpoolPage

\* A stream query runs the program again and skips what its cursor has behind it.
LEMMA ReadStreamKeeps ==
  ASSUME DurabilityInv, ~torn, FromOne, CommandInv, ReadStream
  PROVE  CommandInv'
<1>1. /\ ReaderInv /\ Pages /\ IsQuery /\ ~AtRest /\ Query.kind = "stream" /\ reader.at = "native"
      /\ Reached(Whole(Query.mark), got, Query) /\ querySpool = NoSpool
      /\ Query.epoch \in Nat /\ Query.mark \in Nat /\ Query.line \in Nat /\ Query.ordinal \in Nat
  BY UnderWay, ReaderIsTyped DEF ReadStream
<1>2. Beside /\ UNCHANGED <<spoolDir, querySpool>>
  BY DEF ReadStream, Beside
<1>3. ASSUME NEW reply \in {"failed", "timeout", "malformed"}, Return(Error(reply))
      PROVE  CommandInv'
  BY <1>1, <1>2, <1>3, AddonFails
<1>4. ASSUME NEW tail \in Tails, NEW next,
             LET outs == FromCursor(AllOutputs(events, Query.mark) \o tail)
                 full == SubSeq(outs, 1, Min({PageSize, Len(outs)}))
                 left == SubSeq(outs, PageSize + 1, Len(outs))
             IN /\ AllValues(full)
                /\ Return([reply |-> "page", rows |-> full, next |-> next])
                /\ IF Len(full) < PageSize THEN next = NoToken ELSE next \in Stops(full, left)
      PROVE  CommandInv'
  <2> DEFINE made == AllOutputs(events, Query.mark)
             all == made \o tail
             rest == SubSeq(all, Passed(all, Query) + 1, Len(all))
             full == SubSeq(rest, 1, Min({PageSize, Len(rest)}))
             left == SubSeq(rest, PageSize + 1, Len(rest))
             n == Len(events)
             p == Passed(made, Query)
             l == Len(full)
  <2>1. /\ AllValues(full)
        /\ Return([reply |-> "page", rows |-> full, next |-> next])
        /\ IF l < PageSize THEN next = NoToken ELSE next \in Stops(full, left)
    BY <1>4 DEF FromCursor
  <2>2. n \in Nat /\ StreamOf(made, n, tail)
    BY <1>1, TailsTyped, EpochTyped DEF DurabilityInv
  <2>3. /\ InOrder(made, n) /\ made \in Seq(OutRecords) /\ Len(made) \in Nat
    BY <2>2 DEF StreamOf, InOrder
  <2>4. /\ l \in Nat /\ p \in 0 .. Len(made) /\ p + l <= Len(made)
        /\ full = SubSeq(made, p + 1, p + l)
        /\ l < PageSize => p + l = Len(made)
        /\ l = PageSize \/ l < PageSize
        /\ l = PageSize =>
              /\ full[l] = made[p + l]
              /\ left = <<>> => p + l = Len(made)
              /\ left # <<>> /\ p + l < Len(made) => left[1] = made[p + l + 1]
              /\ left # <<>> /\ p + l = Len(made) => left[1].line = n /\ left[1].ordinal = 0
    <3>1. /\ Query.line \in Nat /\ Query.ordinal \in Nat
          /\ n \in Nat /\ StreamOf(made, n, tail) /\ AllValues(full)
      BY <1>1, <2>1, <2>2
    <3> HIDE DEF made, n
    <3>2. PageOfStream(made, n, tail, Query)
      BY ONLY <3>1, StreamPage
    <3> QED BY ONLY <3>2 DEF PageOfStream
  <2>5. Live(Query) => made = Whole(Query.mark)
    BY <1>1, LiveIsShown
  <2>6. PageSize \in Nat /\ PageSize > 0
    BY ReadsAssumption
  <2> HIDE DEF full, left, made, n, p, l
  <2>7. full \in Seq(OutRecords)
    <3> DEFINE m == p + l
    <3>1. p \in Nat /\ m \in Nat /\ p <= m /\ m <= Len(made)
      BY <2>3, <2>4
    <3> HIDE DEF m
    <3>2. SubSeq(made, p + 1, m) \in Seq(OutRecords)
      BY ONLY <2>3, <3>1, Slice
    <3> QED BY <2>4, <3>2 DEF m
  <2>8. Live(Query) => got \o full = SubSeq(made, 1, p + l)
    <3>1. Live(Query) => got = SubSeq(made, 1, p)
      BY <1>1, <2>5 DEF Reached, p
    <3> DEFINE m == p + l
    <3>2. p \in Nat /\ m \in Nat /\ p <= m /\ m <= Len(made)
      BY <2>3, <2>4
    <3> HIDE DEF m
    <3>3. SubSeq(made, 1, p) \o SubSeq(made, p + 1, m) = SubSeq(made, 1, m)
      BY ONLY <2>3, <3>2, NextSlice
    <3> QED BY <2>4, <3>1, <3>3 DEF m
  <2>9. p + l = Len(made) => SubSeq(made, 1, p + l) = made
    BY <2>3
  <2>10. CASE next = NoToken
    <3>1. p + l = Len(made)
      <4>1. CASE l < PageSize
        BY <2>4, <4>1
      <4>2. CASE ~(l < PageSize)
        <5>1. next \in Stops(full, left)
          BY <2>1, <4>2
        <5>2. left = <<>>
          BY <2>10, <5>1 DEF Stops, NoToken, Cursor
        <5> QED BY <2>4, <4>2, <5>2
      <4> QED BY <4>1, <4>2
    <3>2. NoToken \in Cursors
      BY CursorTyped DEF NoToken
    <3>3. Live(Query) => got \o full = Whole(Query.mark)
      BY <2>5, <2>8, <2>9, <3>1
    <3> QED BY <1>1, <1>2, <2>1, <2>7, <2>10, <3>2, <3>3, AddonPage
  <2>11. CASE next # NoToken
    <3> DEFINE P == p + l
               end == IF left = <<>> THEN n ELSE left[1].line
    <3>1. l = PageSize /\ next \in Stops(full, left)
      BY <2>1, <2>4, <2>11
    <3>2. P \in 1 .. Len(made) /\ full[l] = made[P]
      <4>1. full[l] = made[P]
        BY <2>4, <3>1
      <4>2. p \in Nat /\ l \in Nat /\ l > 0 /\ p + l <= Len(made)
        BY <2>3, <2>4, <2>6, <3>1
      <4>3. P \in 1 .. Len(made)
        BY <2>3, <4>2
      <4> QED BY <4>1, <4>3
    <3>3. /\ P = Len(made) \/ (P < Len(made) /\ P + 1 \in 1 .. Len(made))
          /\ left # <<>> /\ P < Len(made) => left[1] = made[P + 1]
          /\ left # <<>> /\ P = Len(made) => left[1].line = n /\ left[1].ordinal = 0
          /\ left = <<>> => P = Len(made)
      BY <2>3, <2>4, <3>1
    <3>4. \A i \in 1 .. Len(made) :
             made[i].line \in Nat /\ made[i].ordinal \in Nat /\ made[i].line < n
      <4>1. \A i \in 1 .. Len(made) : made[i] \in OutRecords
        BY <2>3
      <4> QED BY <2>3, <4>1 DEF InOrder, OutRecords
    <3> HIDE DEF P
    <3>5. end = (IF P = Len(made) THEN n ELSE made[P + 1].line) /\ end \in Nat
      <4>1. CASE P = Len(made)
        BY <2>2, <3>3, <4>1
      <4>2. CASE P # Len(made)
        BY <3>3, <3>4, <4>2
      <4> QED BY <4>1, <4>2
    <3> HIDE DEF end
    <3>6. /\ next.kind = "stream" /\ next.epoch = Query.epoch /\ next.mark = Query.mark
          /\ next \in Cursors
          /\ \/ next.line \in made[P].line + 1 .. end /\ next.ordinal = 0
             \/ next.line = made[P].line /\ next.ordinal = made[P].ordinal + 1
             \/ P < Len(made) /\ next.line = made[P + 1].line /\ next.ordinal = made[P + 1].ordinal
      <4>1. CASE \E x \in made[P].line + 1 .. end :
                    next = Cursor("stream", Query.epoch, Query.mark, x, 0)
        <5>1. PICK x \in made[P].line + 1 .. end :
                     next = Cursor("stream", Query.epoch, Query.mark, x, 0)
          BY <4>1
        <5>2. x \in Nat
          BY <3>2, <3>4, <3>5
        <5> QED BY <1>1, <5>1, <5>2 DEF Cursor, Cursors
      <4>2. CASE next = Cursor("stream", Query.epoch, Query.mark, made[P].line, made[P].ordinal + 1)
        BY <1>1, <3>2, <3>4, <4>2 DEF Cursor, Cursors
      <4>3. CASE /\ left # <<>>
                 /\ next = Cursor("stream", Query.epoch, Query.mark, left[1].line, left[1].ordinal)
        <5>1. CASE P < Len(made)
          BY <1>1, <3>3, <3>4, <4>3, <5>1 DEF Cursor, Cursors
        <5>2. CASE P = Len(made)
          <6>1. left[1].line = n /\ left[1].ordinal = 0 /\ end = n
            BY <3>3, <3>5, <4>3, <5>2
          <6>2. n \in made[P].line + 1 .. end
            BY <2>2, <3>2, <3>4, <6>1
          <6> QED BY <1>1, <2>2, <4>3, <6>1, <6>2 DEF Cursor, Cursors
        <5> QED BY <3>3, <5>1, <5>2
      <4> QED BY <2>11, <3>1, <3>2, <4>1, <4>2, <4>3 DEF Stops, end, n
    <3>7. Passed(made, next) = P
      BY <2>2, <2>3, <3>2, <3>5, <3>6, StopsPassed
    <3>8. Live(Query) => Reached(Whole(Query.mark), got \o full, next)
      BY <2>5, <2>8, <3>2, <3>6, <3>7 DEF Reached, P
    <3>9. Continues(next)
      BY <1>1, <3>6 DEF Continues
    <3> QED BY <1>1, <1>2, <2>1, <2>7, <2>11, <3>6, <3>8, <3>9, AddonPage
  <2> QED BY <2>10, <2>11
<1>5. ASSUME NEW outs, Return(Failure(outs)) PROVE CommandInv'
  BY <1>3, <1>5, FailureIsError
<1> QED BY <1>3, <1>4, <1>5 DEF ReadStream

QueryInv == EvidenceKept /\ FromOne /\ CommandInv

\* It holds before the first command.
LEMMA InitQueryInv == ReadsInit => FromOne /\ CommandInv
<1> SUFFICES ASSUME ReadsInit PROVE FromOne /\ CommandInv
  OBVIOUS
<1>1. FromOne
  BY DEF ReadsInit, Init, FromOne
<1>2. NoToken \in Cursors /\ NoToken.kind = "none" /\ NoToken.epoch = 0
  BY CursorTyped DEF NoToken
<1>3. /\ reader \in Readers /\ reader.at = "rest" /\ reader.query = NoToken /\ reader.reply = "none"
      /\ reader.lapsed = FALSE /\ token = NoToken
      /\ ~spoolDir /\ spoolDir \in BOOLEAN /\ querySpool = NoSpool /\ epoch = 0
  <2>1. <<>> \in Seq(OutRecords)
    OBVIOUS
  <2>2. reader = [at |-> "rest", query |-> NoToken, first |-> TRUE, reply |-> "none",
                  rows |-> <<>>, next |-> NoToken, lapsed |-> FALSE]
    BY DEF ReadsInit
  <2>3. reader \in Readers
    BY <1>2, <2>1, <2>2 DEF Readers
  <2>4. /\ reader.at = "rest" /\ reader.query = NoToken /\ reader.reply = "none"
        /\ reader.lapsed = FALSE
    BY <2>2
  <2>5. token = NoToken /\ ~spoolDir /\ spoolDir \in BOOLEAN /\ querySpool = NoSpool
    BY DEF ReadsInit
  <2>6. epoch = 0
    BY DEF ReadsInit, Init
  <2> QED BY <2>3, <2>4, <2>5, <2>6
<1>4. ReaderTyped /\ ReaderShape
  BY <1>2, <1>3 DEF ReaderTyped, ReaderShape, Slurping, AtRest, Query
<1>5. SpoolStays /\ SpoolGone /\ Refusals
  BY <1>2, <1>3 DEF SpoolStays, SpoolGone, Refusals, AtRest, Query
<1>6. Pages
  BY <1>2, <1>3 DEF Pages, IsQuery, Query
<1> QED BY <1>1, <1>4, <1>5, <1>6 DEF CommandInv, ReaderInv

\* A step of the daemon beside a command keeps it.
LEMMA StillKeeps ==
  ASSUME DurabilityInv, CommandInv, UNCHANGED <<vars, readVars>>
  PROVE  CommandInv'
<1>1. epoch \in Nat
  BY DEF DurabilityInv, EvidenceInv, Typed, NumbersTyped
<1>2. WorldStep
  BY <1>1 DEF WorldStep, vars, disk, readVars, InReset
<1> QED BY <1>2, WorldKeepsReader, WorldKeepsPages DEF CommandInv

\* Every step of a command keeps it.
LEMMA CommandsKeep ==
  ASSUME DurabilityInv, ~torn, FromOne, CommandInv, [ReadsNext]_<<vars, readVars>>
  PROVE  CommandInv'
<1>1. CASE Writers \/ ResetSpools \/ RemoveSpools
  <2>1. WorldStep
    BY <1>1, WritersAreWorld, ResetsAreWorld
  <2> QED BY <2>1, WorldKeepsReader, WorldKeepsPages DEF CommandInv
<1>2. CASE Logs
  BY <1>2, StartLogsKeeps, ReadDiagnosticsKeeps, ReadLogPageKeeps, RefuseLogPageKeeps DEF Logs
<1>3. CASE \E kind \in {"stream", "slurp"} : StartQuery(kind)
  BY <1>3, StartQueryKeeps
<1>4. CASE ContinueQuery \/ ContinueGone \/ ReadStream
  BY <1>4, ContinueQueryKeeps, ContinueGoneKeeps, ReadStreamKeeps
<1>5. CASE MakeSpoolDir \/ CollectSlurp \/ StoreSpool \/ ReadSpoolPage
  BY <1>5, MakeSpoolDirKeeps, CollectSlurpKeeps, StoreSpoolKeeps, ReadSpoolPageKeeps
<1>6. CASE AnswerStale \/ AnswerPage \/ AnswerError
  BY <1>6, AnswerStaleKeeps, AnswerPageKeeps, AnswerErrorKeeps
<1>7. CASE UNCHANGED <<vars, readVars>>
  BY <1>7, StillKeeps
<1> QED BY <1>1, <1>2, <1>3, <1>4, <1>5, <1>6, <1>7 DEF ReadsNext, Queries

\* In every state a query's cursor, spool and pages fit the evidence it is about, so
\* whatever happens beside it leaves them fitting.
THEOREM QueryInvariant == ReadsSpec => []QueryInv
<1>1. ReadsInit => FromOne /\ CommandInv
  BY InitQueryInv
<1>2. EvidenceKept /\ FromOne /\ CommandInv /\ [ReadsNext]_<<vars, readVars>>
        => (FromOne /\ CommandInv)'
  BY ReadsSteps, FromOneKept, CommandsKeep DEF EvidenceKept
<1>3. ReadsSpec => [](FromOne /\ CommandInv)
  BY <1>1, <1>2, ReadsInvariant, PTL DEF ReadsSpec
<1>4. EvidenceKept /\ FromOne /\ CommandInv => QueryInv
  BY DEF QueryInv
<1> QED BY <1>3, <1>4, ReadsInvariant, PTL

\* Who has got as far as its cursor has a first part of the output.
LEMMA ReachedIsPrefix ==
  ASSUME NEW n \in Nat, NEW whole, InOrder(whole, n), NEW rows,
         NEW place \in Cursors, Reached(whole, rows, place)
  PROVE  IsPrefix(rows, whole)
<1> DEFINE m == IF place.kind = "slurp" THEN place.line ELSE Passed(whole, place)
<1>1. whole \in Seq(OutRecords) /\ Len(whole) \in Nat /\ place.line \in Nat /\ place.ordinal \in Nat
  BY DEF InOrder, Cursors
<1>2. Passed(whole, place) \in 0 .. Len(whole)
  BY <1>1, PassedDivides
<1>3. m \in Nat /\ m <= Len(whole) /\ rows = SubSeq(whole, 1, m)
  BY <1>1, <1>2 DEF Reached
<1> HIDE DEF m
<1>4. Len(rows) = m /\ SubSeq(rows, 1, m) = rows
  BY <1>1, <1>3
<1> QED BY <1>3, <1>4 DEF IsPrefix

\* The pages a reader has got are a first part of the program's output over the
\* evidence of its first page, and with the last page they are all of it: resets,
\* timeouts and events that come in between pages neither lose nor repeat an output.
THEOREM QueryPagesAreTheOutputHolds == ReadsSpec => []QueryPagesAreTheOutput
<1>1. QueryInv => QueryPagesAreTheOutput
  <2> SUFFICES ASSUME QueryInv, Answered({"stream", "slurp"})
               PROVE  IF token = NoToken THEN got = Whole(Query.mark)
                      ELSE IsPrefix(got, Whole(Query.mark))
    BY DEF QueryPagesAreTheOutput, Whole
  <2>1. ReaderInv /\ Pages /\ AtRest /\ IsQuery /\ reader.reply = "page" /\ EvidenceInv
    BY DEF QueryInv, CommandInv, Answered, IsQuery, EvidenceKept, DurabilityInv
  <2>2. CASE token = NoToken
    BY <2>1, <2>2 DEF Pages
  <2>3. CASE token # NoToken
    <3>1. Reached(Whole(token.mark), got, token) /\ token.mark = Query.mark
      BY <2>1, <2>3 DEF Pages, ReaderInv, ReaderShape, Continues
    <3>2. Query.mark \in Nat /\ token \in Cursors
      BY <2>1, ReaderIsTyped
    <3>3. shown.events \in Seq(EventRecords) /\ Len(shown.events) \in Nat
      BY <2>1, EpochTyped
    <3>4. InOrder(Whole(Query.mark), Len(shown.events))
      BY <3>2, <3>3, AllOutputsInOrder DEF Whole
    <3> QED BY <2>3, <3>1, <3>2, <3>3, <3>4, ReachedIsPrefix
  <2> QED BY <2>2, <2>3
<1> QED BY <1>1, QueryInvariant, PTL

\* A query spool is there only while a slurp runs or its reader holds a cursor into it,
\* and none is left of a removed session or from before a reset.
THEOREM NoStaleSpoolHolds == ReadsSpec => []NoStaleSpool
<1>1. QueryInv => NoStaleSpool
  BY DEF QueryInv, CommandInv, ReaderInv, SpoolGone, NoStaleSpool
<1> QED BY <1>1, QueryInvariant, PTL

\* A reader is told its snapshot is stale, its session unknown or its spool gone only
\* when that is so.
THEOREM RefusedForCauseHolds == ReadsSpec => []RefusedForCause
<1>1. QueryInv => RefusedForCause
  <2> SUFFICES ASSUME QueryInv PROVE RefusedForCause
    OBVIOUS
  <2>1. ReaderInv /\ Query.epoch \in Nat /\ epoch \in Nat
    BY ReaderIsTyped DEF QueryInv, CommandInv, EvidenceKept, DurabilityInv, EvidenceInv, Typed,
                         NumbersTyped
  <2> QED BY <2>1 DEF ReaderInv, Refusals, RefusedForCause
<1> QED BY <1>1, QueryInvariant, PTL

-----------------------------------------------------------------------------
(***************************************************************************)
(* The pages of a logs.  LogPages says what the rows of its pages are: the *)
(* first of the records it is about, as many as its cursor says.  Only     *)
(* ReadLogPage has anything to do for it; the world beside the reader does *)
(* not change what was shown, and the other commands are not about logs.   *)
(***************************************************************************)
IsLogs == Query.kind = "logs"

\* The records the reader of a logs has been promised.
Promised == Wants(shown.events, Query.mark)

\* A logs has begun: there was a page of it, and its cursor is not lost.
Begun == IsLogs /\ (token # NoToken \/ (AtRest /\ reader.reply = "page"))

LogPages ==
    /\ IsLogs /\ ~AtRest /\ reader.first => token = NoToken /\ Query.line = 0 /\ got = <<>>
    /\ IsLogs /\ ~AtRest /\ ~reader.first => token = Query /\ token # NoToken
    /\ Begun =>
          /\ Query.epoch = shown.epoch /\ MarkIn(Query.mark, shown.events)
          /\ OnTop(got, Promised)
          /\ IF token = NoToken THEN Promised \subseteq Range(got) ELSE Len(got) = token.line

\* The events are numbered as they come.
LEMMA EventsAreNumbered == ASSUME EvidenceInv PROVE Numbered(events)
<1>1. events \in Seq(EventRecords) /\ DOMAIN events = 1 .. Len(events)
  BY DEF EvidenceInv, Typed, FilesTyped
<1> QED BY <1>1 DEF EvidenceInv, SequencesIncrease, Numbered

\* As long as a cursor is good, the records up to its watermark are the ones its
\* reader was promised.
LEMMA WantedAreShown ==
  ASSUME DurabilityInv, ~torn, FromOne, present, ~InReset, shown.epoch = epoch,
         NEW mark \in Nat, MarkIn(mark, shown.events)
  PROVE  Wants(events, mark) = Wants(shown.events, mark) /\ MarkIn(mark, events)
<1> DEFINE few == shown.events
<1>1. Len(few) <= Len(events) /\ \A i \in 1 .. Len(few) : few[i] = events[i]
  BY DEF DurabilityInv, EpochInv, ShownIsKept, Quiet
<1>2. /\ events \in Seq(EventRecords) /\ Len(events) \in Nat /\ DOMAIN events = 1 .. Len(events)
      /\ few \in Seq(EventRecords) /\ Len(few) \in Nat /\ DOMAIN few = 1 .. Len(few)
  BY EpochTyped DEF DurabilityInv
<1>3. MarkIn(mark, few) /\ MarkIn(mark, events)
  BY EventsAreShown
<1>4. \A i \in 1 .. Len(events) : events[i].seq \in Nat
  BY <1>2, SequenceNumbers DEF DurabilityInv
<1> HIDE DEF few
<1>5. ASSUME NEW i \in 1 .. Len(events), events[i].seq <= mark PROVE i <= Len(few)
  <2> SUFFICES ASSUME i > Len(few) PROVE FALSE
    BY <1>2
  <2>1. mark # 0
    BY <1>2, <1>4, <1>5 DEF FromOne
  <2>2. PICK k \in 1 .. Len(few) : few[k].seq = mark
    BY <1>2, <1>3, <2>1 DEF MarkIn, Range
  <2>3. k \in 1 .. Len(events) /\ events[k].seq = mark /\ k < i
    BY <1>1, <1>2, <2>2
  <2>4. events[k].seq < events[i].seq
    BY <1>2, <2>3 DEF DurabilityInv, EvidenceInv, SequencesIncrease
  <2> QED BY <1>4, <1>5, <2>3, <2>4
<1>6. Wants(events, mark) \subseteq Wants(few, mark)
  <2> SUFFICES ASSUME NEW e \in Range(events), e.seq <= mark PROVE e \in Range(few)
    BY DEF Wants
  <2>1. PICK i \in 1 .. Len(events) : events[i] = e
    BY <1>2 DEF Range
  <2>2. i \in 1 .. Len(few) /\ few[i] = e
    BY <1>1, <1>2, <1>5, <2>1
  <2> QED BY <1>2, <2>2 DEF Range
<1>7. Wants(few, mark) \subseteq Wants(events, mark)
  <2>1. \A i \in 1 .. Len(few) : i \in 1 .. Len(events) /\ few[i] = events[i]
    BY <1>1, <1>2
  <2> QED BY <1>2, <2>1 DEF Wants, Range
<1> QED BY <1>3, <1>6, <1>7 DEF few

\* A command that is not a logs has nothing to do with it.
LEMMA NotLogs == ASSUME (Query.kind)' # "logs" PROVE LogPages'
  BY DEF LogPages, Begun, IsLogs

\* No step of a query makes one.
LEMMA QueriesAreNotLogs ==
  ASSUME ReaderInv, Queries
  PROVE  (Query.kind)' # "logs"
<1>1. reader \in Readers /\ Query \in Cursors /\ token \in Cursors /\ NoToken.kind = "none"
  BY ReaderIsTyped DEF NoToken, Cursor
<1>2. token.kind \in {"stream", "slurp"} => Query.kind = token.kind
  BY <1>1 DEF ReaderInv, ReaderShape, Continues
<1>3. ASSUME NEW kind \in {"stream", "slurp"}, StartQuery(kind) PROVE (Query.kind)' # "logs"
  <2> DEFINE query == Cursor(kind, epoch, Watermark(events), 0, 0)
  <2>1. query.kind = kind
    BY DEF Cursor
  <2> HIDE DEF query
  <2>2. reader' = [reader EXCEPT !.at = Entry(kind), !.first = TRUE, !.lapsed = FALSE,
                                 !.query = query]
    BY <1>3 DEF StartQuery, query
  <2> QED BY <1>1, <2>1, <2>2 DEF Readers, Query
<1>4. ASSUME reader' = [reader EXCEPT !.query = token], token.kind \in {"stream", "slurp"}
      PROVE (Query.kind)' # "logs"
  BY <1>1, <1>4 DEF Readers, Query
<1>5. ASSUME Query' = Query, IsQuery PROVE (Query.kind)' # "logs"
  BY <1>5 DEF IsQuery
<1>6. \A reply, held : End(reply, held) => Query' = Query
  BY <1>1 DEF End, Readers, Query
<1>7. \A result : Return(result) => Query' = Query
  BY <1>1 DEF Return, Readers, Query
<1>8. \A place : Goto(place) => Query' = Query
  BY <1>1 DEF Goto, Readers, Query
<1>9. CASE ContinueQuery
  <2>1. token.kind \in {"stream", "slurp"} /\ IsQuery
    BY <1>2, <1>9 DEF ContinueQuery, IsQuery
  <2>2. CASE token.epoch = epoch
    <3>1. reader' = [reader EXCEPT !.at = Entry(token.kind), !.first = FALSE, !.query = token]
      BY <1>9, <2>2 DEF ContinueQuery
    <3> QED BY <1>1, <2>1, <3>1 DEF Readers, Query
  <2>3. CASE token.epoch # epoch
    BY <1>5, <1>6, <1>9, <2>1, <2>3 DEF ContinueQuery
  <2> QED BY <2>2, <2>3
<1>10. CASE ContinueGone
  BY <1>2, <1>5, <1>6, <1>10 DEF ContinueGone, IsQuery
<1>11. CASE ReadStream
  <2>1. Query' = Query
    BY <1>7, <1>11 DEF ReadStream
  <2> QED BY <1>5, <1>11, <2>1 DEF ReadStream, ReaderInv, ReaderShape, IsQuery
<1>12. CASE MakeSpoolDir \/ StoreSpool \/ ReadSpoolPage
  <2>1. Query' = Query
    <3>1. StoreSpool /\ spoolDir => Query' = Query
      BY <1>1 DEF StoreSpool, Readers, Query
    <3> QED BY <1>7, <1>8, <1>12, <3>1 DEF MakeSpoolDir, StoreSpool, ReadSpoolPage
  <2>2. reader.at \in Slurping
    BY <1>12 DEF MakeSpoolDir, StoreSpool, ReadSpoolPage, Slurping
  <2> QED BY <1>5, <2>1, <2>2 DEF ReaderInv, ReaderShape, IsQuery
<1>13. CASE CollectSlurp
  <2>1. \A outs : reader' = [reader EXCEPT !.at = "store", !.rows = outs] => Query' = Query
    BY <1>1 DEF Readers, Query
  <2>2. Query' = Query
    BY <1>7, <1>8, <1>13, <2>1 DEF CollectSlurp
  <2>3. reader.at \in Slurping
    BY <1>13 DEF CollectSlurp, Slurping
  <2> QED BY <1>5, <2>2, <2>3 DEF ReaderInv, ReaderShape, IsQuery
<1>14. CASE AnswerStale \/ AnswerPage \/ AnswerError
  <2>1. AnswerError => Query' = Query
    BY <1>1 DEF AnswerError, Readers, Query
  <2>2. Query' = Query
    BY <1>6, <1>14, <2>1 DEF AnswerStale, AnswerPage
  <2>3. reader.at = "postflight"
    BY <1>14 DEF AnswerStale, AnswerPage, AnswerError
  <2> QED BY <1>5, <2>2, <2>3 DEF ReaderInv, ReaderShape
<1> QED BY <1>3, <1>9, <1>10, <1>11, <1>12, <1>13, <1>14 DEF Queries

\* What the daemon and the programs do beside a reader leaves its rows as they are.
LEMMA BesideLogs ==
  ASSUME UNCHANGED <<reader, token, got, shown>>, LogPages
  PROVE  LogPages'
  BY DEF LogPages, Begun, IsLogs, Promised, AtRest, Query

\* A logs begins, or goes on behind the rows its reader has.
LEMMA StartLogsKeepsRows ==
  ASSUME ReaderInv, LogPages, StartLogs
  PROVE  LogPages'
<1> DEFINE query == IF token = NoToken THEN Cursor("logs", 0, 0, 0, 0) ELSE token
<1> DEFINE first == token = NoToken
<1>1. AtRest /\ token.kind \in {"none", "logs"} /\ shown' = shown /\ reader \in Readers
      /\ reader.at = "rest" /\ (first => got' = <<>>) /\ (~first => got' = got)
  BY ReaderIsTyped DEF StartLogs, AtRest
<1>2. first => query.line = 0
  BY DEF Cursor
<1>3. ~first => Begun /\ query = token /\ token.epoch = Query.epoch /\ token.mark = Query.mark
  BY <1>1 DEF ReaderInv, ReaderShape, Continues, Begun, IsLogs
<1>4. CASE present
  <2>1. reader' = [reader EXCEPT !.at = "diagnostics", !.query = query, !.first = first,
                                 !.lapsed = FALSE] /\ token' = token
    BY <1>4 DEF StartLogs
  <2> HIDE DEF query
  <2>2. /\ reader'.at = "diagnostics" /\ reader'.query = query /\ (reader'.first <=> first)
        /\ token' = token
    BY <1>1, <2>1 DEF Readers
  <2>3. ~AtRest' /\ Query' = query
    BY <2>2 DEF AtRest, Query
  <2>4. CASE first
    BY <1>1, <1>2, <2>2, <2>3, <2>4 DEF LogPages, Begun
  <2>5. CASE ~first
    <3>1. Query' = token /\ got' = got
      BY <1>1, <1>3, <2>3, <2>5
    <3>2. Promised' = Promised /\ (Query.epoch)' = Query.epoch /\ (Query.mark)' = Query.mark
      BY <1>1, <1>3, <2>5, <3>1 DEF Promised
    <3> QED BY <1>1, <1>3, <2>2, <2>3, <2>5, <3>1, <3>2 DEF LogPages, Begun
  <2> QED BY <2>4, <2>5
<1>5. CASE ~present
  <2>1. reader' = [reader EXCEPT !.query = query, !.reply = "404"] /\ token' = NoToken
    BY <1>5 DEF StartLogs
  <2> HIDE DEF query
  <2>2. reader'.at = "rest" /\ reader'.reply = "404" /\ token' = NoToken
    BY <1>1, <2>1 DEF Readers
  <2> QED BY <2>2 DEF LogPages, Begun, AtRest
<1> QED BY <1>4, <1>5

\* A logs that is turned away has lost its cursor.
LEMMA EndedLogs ==
  ASSUME ReaderInv, NEW reply \in {"stale", "500"}, End(reply, NoToken)
  PROVE  LogPages'
<1>1. NoToken \in Cursors
  BY CursorTyped DEF NoToken
<1>2. reader'.at = "rest" /\ reader'.reply = reply /\ token' = NoToken
  BY <1>1, Ended
<1> QED BY <1>2 DEF LogPages, Begun, AtRest

\* The diagnostics are read before the page.
LEMMA ReadDiagnosticsKeepsRows ==
  ASSUME ReaderInv, LogPages, ReadDiagnostics
  PROVE  LogPages'
<1>1. CASE ~present
  BY <1>1, EndedLogs DEF ReadDiagnostics
<1>2. CASE present
  <2>1. Goto("page") /\ UNCHANGED <<token, got, shown>> /\ reader.at = "diagnostics"
    BY <1>2 DEF ReadDiagnostics
  <2>2. reader'.at = "page" /\ reader'.query = Query /\ reader'.first = reader.first
    BY <2>1, ReaderIsTyped DEF Goto, Readers, Query
  <2>3. ~AtRest /\ ~AtRest' /\ Query' = Query /\ Promised' = Promised /\ (IsLogs' <=> IsLogs)
    BY <2>1, <2>2 DEF AtRest, Query, Promised, IsLogs
  <2> QED BY <2>1, <2>2, <2>3 DEF LogPages, Begun
<1> QED BY <1>1, <1>2

\* A page of the logs has what comes next of the records promised with the first.
LEMMA ReadLogPageKeepsRows ==
  ASSUME DurabilityInv, ~torn, FromOne, ReaderInv, LogPages, ReadLogPage
  PROVE  LogPages'
<1> DEFINE mark == IF reader.first THEN Watermark(events) ELSE Query.mark
           query == Cursor("logs", epoch, mark, Query.line, 0)
           all == Selected(events, mark)
           page == Sort!SortedPage(all, Query.line, LogLimit)
           U == Wants(events, mark)
<1>1. /\ reader \in Readers /\ Query.line \in Nat /\ Query.mark \in Nat /\ reader.first \in BOOLEAN
      /\ LogLimit \in Nat \ {0}
      /\ reader.at = "page" /\ ~AtRest /\ IsLogs /\ present /\ ~InReset /\ EvidenceInv
  BY ReaderIsTyped, ReadsAssumption
     DEF ReadLogPage, AtRest, IsLogs, ReaderInv, ReaderShape, Free, InReset, DurabilityInv,
         FrameInv, Places
<1>2. /\ got' = got \o page
      /\ reader' = [reader EXCEPT !.at = "rest", !.query = query, !.reply = "page"]
      /\ token' = IF Query.line + Len(page) < Len(all)
                  THEN [query EXCEPT !.line = @ + LogLimit] ELSE NoToken
      /\ shown' = [epoch |-> epoch, events |-> events]
      /\ reader.first \/ Query.epoch = epoch
  BY DEF ReadLogPage
<1>3. mark \in Nat /\ MarkIn(mark, events) /\ OnTop(got, U) /\ Len(got) = Query.line
  <2>1. CASE reader.first
    <3>1. got = <<>> /\ Query.line = 0
      BY <1>1, <2>1 DEF LogPages
    <3> QED BY <1>1, <2>1, <3>1, WatermarkIsIn, NothingOnTop
  <2>2. CASE ~reader.first
    <3>1. token = Query /\ token # NoToken
      BY <1>1, <2>2 DEF LogPages
    <3>2. /\ Query.epoch = shown.epoch /\ MarkIn(Query.mark, shown.events)
          /\ OnTop(got, Promised) /\ Len(got) = Query.line
      BY <1>1, <3>1 DEF LogPages, Begun
    <3>3. Promised = U /\ MarkIn(Query.mark, events)
      <4>1. shown.epoch = epoch
        BY <1>2, <2>2, <3>2
      <4> QED BY <1>1, <2>2, <3>2, <4>1, WantedAreShown DEF Promised
    <3> QED BY <1>1, <2>2, <3>2, <3>3
  <2> QED BY <2>1, <2>2
<1>4. Advances(got, page, Len(all), LogLimit, U)
  BY <1>1, <1>3, EventsAreNumbered, LogPageAfter
<1>5. query.kind = "logs" /\ query.epoch = epoch /\ query.mark = mark /\ query.line = Query.line
  BY DEF Cursor
<1>6. /\ reader'.at = "rest" /\ reader'.query = query /\ reader'.reply = "page"
      /\ shown'.epoch = epoch /\ shown'.events = events
  BY <1>1, <1>2 DEF Readers
<1>7. /\ Query.line + Len(page) < Len(all) => token'.line = Query.line + LogLimit
      /\ ~(Query.line + Len(page) < Len(all)) => token' = NoToken
  <2>1. query \in [kind : {"logs"}, epoch : {epoch}, mark : {mark}, line : {Query.line},
                   ordinal : {0}]
    BY DEF Cursor
  <2> HIDE DEF query, page, all
  <2> QED BY <1>2, <1>5, <2>1
<1> HIDE DEF query, page, all, mark
<1>8. AtRest' /\ Query' = query /\ Promised' = U
  BY <1>5, <1>6 DEF AtRest, Query, Promised
<1>9. OnTop(got', U)
  BY <1>2, <1>4 DEF Advances
<1>10. IF token' = NoToken THEN U \subseteq Range(got') ELSE Len(got') = token'.line
  <2>1. CASE Query.line + Len(page) < Len(all)
    <3>1. token'.line # 0 /\ NoToken.line = 0
      BY <1>1, <1>7, <2>1 DEF NoToken, Cursor
    <3> QED BY <1>2, <1>3, <1>4, <1>7, <2>1, <3>1 DEF Advances
  <2>2. CASE ~(Query.line + Len(page) < Len(all))
    BY <1>2, <1>3, <1>4, <1>7, <2>2 DEF Advances
  <2> QED BY <2>1, <2>2
<1> HIDE DEF U
<1>11. /\ MarkIn(mark, events) /\ query.mark = mark
       /\ shown'.events = events /\ query.epoch = shown'.epoch
  BY <1>3, <1>5, <1>6
<1> QED BY <1>8, <1>9, <1>10, <1>11 DEF LogPages, Begun

\* No step loses the order of the rows.
LEMMA LogPagesKept ==
  ASSUME QueryInv, LogPages, [ReadsNext]_<<vars, readVars>>
  PROVE  LogPages'
<1>1. ReaderInv /\ DurabilityInv /\ ~torn /\ FromOne
  BY DEF QueryInv, CommandInv, EvidenceKept
<1>2. CASE Writers \/ ResetSpools \/ RemoveSpools
  <2>1. WorldStep
    BY <1>1, <1>2, WritersAreWorld, ResetsAreWorld
  <2> QED BY <2>1, BesideLogs DEF WorldStep
<1>3. CASE StartLogs
  BY <1>1, <1>3, StartLogsKeepsRows
<1>4. CASE ReadDiagnostics
  BY <1>1, <1>4, ReadDiagnosticsKeepsRows
<1>5. CASE ReadLogPage
  BY <1>1, <1>5, ReadLogPageKeepsRows
<1>6. CASE RefuseLogPage
  BY <1>1, <1>6, EndedLogs DEF RefuseLogPage
<1>7. CASE Queries
  BY <1>1, <1>7, QueriesAreNotLogs, NotLogs
<1>8. CASE UNCHANGED <<vars, readVars>>
  <2>1. UNCHANGED <<reader, token, got, shown>>
    BY <1>8 DEF vars, readVars
  <2> QED BY <2>1, BesideLogs
<1> QED BY <1>2, <1>3, <1>4, <1>5, <1>6, <1>7, <1>8 DEF ReadsNext, Logs

\* In every state the rows a logs has shown are the first of the records its first
\* page was about, as many as its cursor says.
THEOREM LogsInvariant == ReadsSpec => []LogPages
<1>1. ReadsInit => LogPages
  <2> SUFFICES ASSUME ReadsInit PROVE LogPages
    OBVIOUS
  <2>1. Query.kind = "none"
    BY DEF ReadsInit, Query, NoToken, Cursor
  <2> QED BY <2>1 DEF LogPages, Begun, IsLogs
<1> QED BY <1>1, LogPagesKept, QueryInvariant, PTL DEF ReadsSpec

\* Whatever was appended, and however the records were cut into chunks and merged, the
\* pages of a logs are the wanted records of its first page by timestamp: none twice,
\* none passed over, and with the last page all of them.
THEOREM LogPagesAreSortedHolds == ReadsSpec => []LogPagesAreSorted
<1>1. LogPages => LogPagesAreSorted
  <2> SUFFICES ASSUME LogPages, Answered({"logs"}) PROVE LogPagesAreSorted
    BY DEF LogPagesAreSorted
  <2> DEFINE wanted == {e \in Range(shown.events) : e.seq <= Query.mark /\ e.id.what \in Wanted}
  <2>1. /\ OnTop(got, wanted)
        /\ token = NoToken => wanted \subseteq Range(got)
        /\ token # NoToken => Len(got) = token.line
    BY DEF LogPages, Begun, IsLogs, Answered, Promised, Wants
  <2> HIDE DEF wanted
  <2>2. /\ Range(got) \subseteq wanted
        /\ \A i, j \in DOMAIN got : i < j => Earlier(got[i], got[j])
        /\ \A e \in Range(got), f \in wanted \ Range(got) : Earlier(e, f)
    BY <2>1 DEF OnTop, Ascending
  <2> QED BY <2>1, <2>2 DEF LogPagesAreSorted, wanted
<1> QED BY <1>1, LogsInvariant, PTL
=============================================================================
