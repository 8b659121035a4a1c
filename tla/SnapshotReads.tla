--------------------------- MODULE SnapshotReads ---------------------------
(***************************************************************************)
(* Reading the evidence of a session page by page: the commands `logs`,    *)
(* `query` and `query --slurp` beside everything that changes the          *)
(* evidence.                                                               *)
(*                                                                         *)
(* `logs` asks the daemon, which holds the session while it sorts a page   *)
(* (LogSort).  `query` asks the daemon only for the status, before and     *)
(* after: in between the command itself runs the jaq program over          *)
(* events.ndjson, in the native addon, while the daemon may append to the  *)
(* file, replace it or remove it.  What makes that safe is the watermark,  *)
(* the last sequence number the first status reported, and the evidence    *)
(* epoch the second status must still report.  A slurp query writes all    *)
(* its output to a spool of its own and pages through that.                *)
(*                                                                         *)
(* A page that is not the last comes with a cursor, here `token`, signed   *)
(* by the control token so that only its own content matters.  One reader  *)
(* runs one command at a time; the daemon does not fail.                   *)
(***************************************************************************)
EXTENDS Evidence

CONSTANTS
    Stamp,     \* [Contents -> Nat]: the timestamp a program gave a record
    Outputs,   \* [Contents -> Seq({"value", "error"})]: the jaq program's
    Wanted,    \* the contents of the hypotheses a `logs` asks for
    PageSize,  \* --limit of a query
    LogLimit,  \* --limit of a logs
    SortChunk, \* see LogSort
    FanIn,
    NoSpool    \* there is no spool file

\* One output of the jaq program, or of the half line that does not parse.
OutRecords == [line : Nat, ordinal : Nat, of : RecordIds, is : {"value", "error", "malformed"}]

ASSUME ReadsAssumption ==
    /\ Stamp \in [Contents -> Nat]
    /\ Outputs \in [Contents -> Seq({"value", "error"})]
    /\ Wanted \subseteq Contents
    /\ {PageSize, LogLimit, SortChunk} \subseteq Nat \ {0}
    /\ FanIn \in Nat \ {0, 1}
    /\ NoSpool \notin Seq(OutRecords)

VARIABLES
    reader,    \* the command under way, or how the last one ended
    token,     \* the cursor the reader holds for its next command
    got,       \* the rows of all pages since the query began
    spoolDir,  \* sessions/<id>/query-spools exists
    querySpool \* the spool file of the reader's slurp query, or NoSpool

readVars == <<reader, token, got, spoolDir, querySpool>>
evidenceVars == <<disk, caches, job, stray, request, acked, torn>>

\* What a cursor says: which query it continues, over which evidence, and where.
\* A stream goes on at an output of a line; a slurp or a logs after some rows.
Cursor(kind, asOf, mark, line, ordinal) ==
    [kind |-> kind, epoch |-> asOf, mark |-> mark, line |-> line, ordinal |-> ordinal]
NoToken == Cursor("none", 0, 0, 0, 0)

ReadsInit ==
    /\ Init
    /\ reader = [at |-> "rest", query |-> NoToken, first |-> TRUE, reply |-> "none",
                 rows |-> <<>>, next |-> NoToken, lapsed |-> FALSE]
    /\ token = NoToken
    /\ got = <<>>
    /\ spoolDir = FALSE
    /\ querySpool = NoSpool

AtRest == reader.at = "rest"
Query == reader.query

\* The last sequence number of some events.
Watermark(evts) == Max({0} \cup {e.seq : e \in Range(evts)})

Goto(place) == reader' = [reader EXCEPT !.at = place]

\* The native addon returns, with a page or an error.
Return(result) ==
    reader' = [reader EXCEPT !.at = "postflight", !.reply = result.reply,
                             !.rows = result.rows, !.next = result.next]

Error(reply) == [reply |-> reply, rows |-> <<>>, next |-> NoToken]

\* The command ends, holding this cursor.
End(reply, cursorHeld) ==
    /\ reader' = [reader EXCEPT !.at = "rest", !.reply = reply, !.rows = <<>>,
                                !.next = NoToken]
    /\ token' = cursorHeld

-----------------------------------------------------------------------------
(***************************************************************************)
(* logs.                                                                   *)
(***************************************************************************)
Earlier(e, f) ==
    LET at(x) == Stamp[x.id.what]
    IN at(e) < at(f) \/ (at(e) = at(f) /\ e.seq < f.seq)

Sort == INSTANCE LogSort

\* Mistake: a page under a snapshot holds what came after it, too.
SelectedLate(evts, mark) == FlattenSeq([i \in DOMAIN evts |->
    IF evts[i].id.what \in Wanted THEN <<evts[i]>> ELSE <<>>])

\* The records of a snapshot a logs is about, as they are read line by line.
Selected(evts, mark) == FlattenSeq([i \in DOMAIN evts |->
    IF evts[i].seq <= mark /\ evts[i].id.what \in Wanted THEN <<evts[i]>> ELSE <<>>])

\* The command begins: sessions.get, which does not wait for the session.
StartLogs ==
    /\ AtRest
    /\ token.kind \in {"none", "logs"}
    /\ reads < MaxReads
    /\ reads' = reads + 1
    /\ LET first == token = NoToken
           query == IF first THEN Cursor("logs", 0, 0, 0, 0) ELSE token
       IN IF present
          THEN /\ reader' = [reader EXCEPT !.at = "diagnostics", !.query = query,
                                           !.first = first, !.lapsed = FALSE]
               /\ UNCHANGED token
          ELSE /\ reader' = [reader EXCEPT !.query = query, !.reply = "404"]
               /\ token' = NoToken
    /\ got' = IF token = NoToken THEN <<>> ELSE got
    /\ UNCHANGED <<evidenceVars, shown, resets, crashes, faults, spoolDir, querySpool>>

\* The daemon reads the diagnostics under the session, then lets go of it.
ReadDiagnostics ==
    /\ reader.at = "diagnostics"
    /\ Free
    /\ IF present THEN Goto("page") /\ UNCHANGED token ELSE End("500", NoToken)
    /\ UNCHANGED <<evidenceVars, shown, budgets, got, spoolDir, querySpool>>

\* readPage: only a cursor's epoch is compared.  The first page fixes the
\* watermark and the epoch of the pages after it.
ReadLogPage ==
    /\ reader.at = "page"
    /\ Free
    /\ present
    /\ reader.first \/ Query.epoch = epoch
    /\ LET mark == IF reader.first THEN Watermark(events) ELSE Query.mark
           all == Selected(events, mark)
           page == Sort!SortedPage(all, Query.line, LogLimit)
           query == Cursor("logs", epoch, mark, Query.line, 0)
       IN /\ got' = got \o page
          /\ reader' = [reader EXCEPT !.at = "rest", !.query = query, !.reply = "page"]
          /\ token' = IF Query.line + Len(page) < Len(all)
                      THEN [query EXCEPT !.line = @ + LogLimit] ELSE NoToken
    /\ shown' = [epoch |-> epoch, events |-> events]
    /\ UNCHANGED <<evidenceVars, budgets, spoolDir, querySpool>>

\* CURSOR_STALE after a reset; after a clean session.json cannot be read.
RefuseLogPage ==
    /\ reader.at = "page"
    /\ Free
    /\ \/ ~present /\ End("500", NoToken)
       \/ present /\ ~reader.first /\ Query.epoch # epoch /\ End("stale", NoToken)
    /\ UNCHANGED <<evidenceVars, shown, budgets, got, spoolDir, querySpool>>

-----------------------------------------------------------------------------
(***************************************************************************)
(* query: the preflight status and the cursor.                             *)
(***************************************************************************)

\* Where a query command goes first: a slurp makes sure of its spool directory.
Entry(kind) == IF kind = "slurp" THEN "mkdir" ELSE "native"

\* A query without cursor.  A spool that is gone for good makes a reader start over.
StartQuery(kind) ==
    /\ AtRest
    /\ token = NoToken \/ reader.reply = "unavailable"
    /\ Read
    /\ reader' = [reader EXCEPT !.at = Entry(kind), !.first = TRUE, !.lapsed = FALSE,
                     !.query = Cursor(kind, epoch, Watermark(events), 0, 0)]
    /\ token' = NoToken
    /\ got' = <<>>
    /\ UNCHANGED <<spoolDir, querySpool>>

\* verifyQueryCursor: the cursor restores the query, if the epoch is the same.
ContinueQuery ==
    /\ AtRest
    /\ token.kind \in {"stream", "slurp"}
    /\ Read
    /\ IF token.epoch = epoch
       THEN /\ reader' = [reader EXCEPT !.at = Entry(token.kind), !.first = FALSE,
                                        !.query = token]
            /\ UNCHANGED token
       ELSE End("stale", NoToken)
    /\ UNCHANGED <<got, spoolDir, querySpool>>

ContinueGone ==
    /\ AtRest
    /\ token.kind \in {"stream", "slurp"}
    /\ Free
    /\ ~present
    /\ End("404", NoToken)
    /\ UNCHANGED <<evidenceVars, shown, budgets, got, spoolDir, querySpool>>

-----------------------------------------------------------------------------
(***************************************************************************)
(* query: the native addon.                                                *)
(***************************************************************************)

\* The outputs of the jaq program for the record on a line.
OutputsOf(e, line) == [k \in DOMAIN Outputs[e.id.what] |->
    [line |-> line, ordinal |-> k - 1, of |-> e.id, is |-> Outputs[e.id.what][k]]]

\* Its outputs over the lines up to the watermark.
AllOutputs(evts, mark) == FlattenSeq([i \in DOMAIN evts |->
    IF evts[i].seq > mark THEN <<>> ELSE OutputsOf(evts[i], i - 1)])

\* The addon reads beside the daemon: it may see part of a line the daemon is
\* appending, which does not parse.
AppendUnderWay == AtRecord /\ Valid(What) /\ RecordId \notin LoadedEvents
Tails == {<<>>} \cup
    IF AppendUnderWay
    THEN {<<[line |-> Len(events), ordinal |-> 0, of |-> RecordId, is |-> "malformed"]>>}
    ELSE {}

\* How a page fails on an output that is not a value.
Failure(outs) ==
    LET bad == Min({i \in DOMAIN outs : outs[i].is # "value"})
    IN Error(IF outs[bad].is = "error" THEN "failed" ELSE "malformed")

AllValues(outs) == \A i \in DOMAIN outs : outs[i].is = "value"

\* Where a full stream page may stop: at the next output or, when the deadline
\* passes while it is looked for, at the place the search had reached.
Stops(full, left) ==
    LET last == full[PageSize]
        end == IF left = <<>> THEN Len(events) ELSE left[1].line
    IN {Cursor("stream", Query.epoch, Query.mark, l, 0) : l \in last.line + 1 .. end}
       \cup {Cursor("stream", Query.epoch, Query.mark, last.line, last.ordinal + 1)}
       \cup IF left = <<>> THEN {NoToken}
            ELSE {Cursor("stream", Query.epoch, Query.mark, left[1].line, left[1].ordinal)}

\* The place of an output comes before that of a cursor.
Before(o, place) ==
    o.line < place.line \/ (o.line = place.line /\ o.ordinal < place.ordinal)

\* How many outputs, which are in order, a cursor has behind it.
Passed(outs, place) == Max({0} \cup {i \in DOMAIN outs : Before(outs[i], place)})

\* The outputs from where the cursor says.
FromCursor(outs) == SubSeq(outs, Passed(outs, Query) + 1, Len(outs))

\* run_streaming_page over one version of events.ndjson.  What is wrong after a
\* full page is left to the next one; a timeout before is an error.
ReadStream ==
    /\ reader.at = "native"
    /\ \/ ~present /\ Return(Error("failed"))
       \/ Return(Error("timeout"))
       \/ /\ present
          /\ \E tail \in Tails :
               LET outs == FromCursor(AllOutputs(events, Query.mark) \o tail)
                   full == SubSeq(outs, 1, Min({PageSize, Len(outs)}))
                   left == SubSeq(outs, PageSize + 1, Len(outs))
               IN IF ~AllValues(full) THEN Return(Failure(full))
                  ELSE IF Len(full) < PageSize
                  THEN Return([reply |-> "page", rows |-> full, next |-> NoToken])
                  ELSE \E stop \in Stops(full, left) :
                          Return([reply |-> "page", rows |-> full, next |-> stop])
    /\ UNCHANGED <<evidenceVars, shown, budgets, token, got, spoolDir, querySpool>>

\* initializeQuerySpoolDirectory: mkdir -p, whether or not the session is there.
MakeSpoolDir ==
    /\ reader.at = "mkdir"
    /\ spoolDir' = TRUE
    /\ Goto("collect")
    /\ UNCHANGED <<evidenceVars, shown, budgets, token, got, querySpool>>

\* run_slurp_page: unless the spool is there, run the program over all records.
CollectSlurp ==
    /\ reader.at = "collect"
    /\ \/ querySpool # NoSpool /\ Goto("paging")
       \/ querySpool = NoSpool /\ Query.line > 0 /\ Return(Error("unavailable"))
       \/ /\ querySpool = NoSpool
          /\ Query.line = 0
          /\ \/ ~present /\ Return(Error("failed"))
             \/ Return(Error("timeout"))
             \/ /\ present
                /\ \E tail \in Tails :
                     LET outs == AllOutputs(events, Query.mark) \o tail
                     IN IF AllValues(outs)
                        THEN reader' = [reader EXCEPT !.at = "store", !.rows = outs]
                        ELSE Return(Failure(outs))
    /\ UNCHANGED <<evidenceVars, shown, budgets, token, got, spoolDir, querySpool>>

\* The output is written under a temporary name and renamed.
StoreSpool ==
    /\ reader.at = "store"
    /\ IF spoolDir
       THEN /\ querySpool' = reader.rows
            /\ reader' = [reader EXCEPT !.at = "paging", !.rows = <<>>]
       ELSE Return(Error("unavailable")) /\ UNCHANGED querySpool
    /\ UNCHANGED <<evidenceVars, shown, budgets, token, got, spoolDir>>

\* read_spool_page.
ReadSpoolPage ==
    /\ reader.at = "paging"
    /\ \/ querySpool = NoSpool /\ Return(Error("unavailable"))
       \/ Return(Error("timeout"))
       \/ /\ querySpool # NoSpool
          /\ LET upto == Min({Query.line + PageSize, Len(querySpool)})
             IN Return([reply |-> "page",
                        rows |-> SubSeq(querySpool, Query.line + 1, upto),
                        next |-> IF upto = Len(querySpool) THEN NoToken
                                 ELSE [Query EXCEPT !.line = upto]])
    /\ UNCHANGED <<evidenceVars, shown, budgets, token, got, spoolDir, querySpool>>

-----------------------------------------------------------------------------
(***************************************************************************)
(* query: the postflight status and the answer.                            *)
(***************************************************************************)

\* Mistake: the postflight only asks whether the session is still there.
SessionIsGone == ~present

\* Mistake: any change of the evidence makes a cursor stale.
EvidenceChanged == ~present \/ Range(events) # Range(shown.events)

\* The session is gone, or was reset since the preflight.
SnapshotIsStale == ~present \/ epoch # Query.epoch

\* rm of the spool file, if the query has one.
DropSpool == querySpool' = IF Query.kind = "slurp" THEN NoSpool ELSE querySpool

\* Mistake: a stale query leaves its spool.
KeepSpool == UNCHANGED querySpool

DropStaleSpool == DropSpool

AnswerStale ==
    /\ reader.at = "postflight"
    /\ Free
    /\ SnapshotIsStale
    /\ End("stale", NoToken)
    /\ DropStaleSpool
    /\ UNCHANGED <<evidenceVars, shown, budgets, got, spoolDir>>

\* The last page drops the spool.
AnswerPage ==
    /\ reader.at = "postflight"
    /\ Free
    /\ ~SnapshotIsStale
    /\ reader.reply = "page"
    /\ got' = got \o reader.rows
    /\ End("page", reader.next)
    /\ IF reader.next = NoToken THEN DropSpool ELSE UNCHANGED querySpool
    /\ UNCHANGED <<evidenceVars, shown, budgets, spoolDir>>

\* The cursor of the command is as good as before, unless a timeout took the spool.
AnswerError ==
    /\ reader.at = "postflight"
    /\ Free
    /\ ~SnapshotIsStale
    /\ reader.reply # "page"
    /\ token' = token
    /\ reader' = [reader EXCEPT !.at = "rest",
                     !.lapsed = @ \/ (Query.kind = "slurp" /\ reader.reply = "timeout")]
    /\ IF reader.reply \in {"timeout", "malformed"} THEN DropSpool
       ELSE UNCHANGED querySpool
    /\ UNCHANGED <<evidenceVars, shown, budgets, got, spoolDir>>

-----------------------------------------------------------------------------
(***************************************************************************)
(* What changes the evidence meanwhile.                                    *)
(***************************************************************************)
Writers ==
    /\ (\E what \in Contents : AppendToSpool(what)) \/ Post \/ Tick \/ Ingest
    /\ UNCHANGED readVars

\* One of the writes of a reset removes the spools and their directory.
ResetSpools ==
    \/ (StartReset \/ PublishEpoch) /\ UNCHANGED readVars
    \/ \E f \in ResetFiles :
          /\ ClearFile(f)
          /\ IF f = "query-spools" THEN spoolDir' = FALSE /\ querySpool' = NoSpool
             ELSE UNCHANGED <<spoolDir, querySpool>>
          /\ UNCHANGED <<reader, token, got>>

\* clean removes the directory they are in.
RemoveSpools ==
    /\ RemoveSession
    /\ spoolDir' = FALSE
    /\ querySpool' = NoSpool
    /\ UNCHANGED <<reader, token, got>>

Logs == StartLogs \/ ReadDiagnostics \/ ReadLogPage \/ RefuseLogPage
Queries ==
    \/ \E kind \in {"stream", "slurp"} : StartQuery(kind)
    \/ ContinueQuery \/ ContinueGone
    \/ ReadStream \/ MakeSpoolDir \/ CollectSlurp \/ StoreSpool \/ ReadSpoolPage
    \/ AnswerStale \/ AnswerPage \/ AnswerError

ReadsNext == Writers \/ ResetSpools \/ RemoveSpools \/ Logs \/ Queries

ReadsSpec == ReadsInit /\ [][ReadsNext]_<<vars, readVars>>

-----------------------------------------------------------------------------
(***************************************************************************)
(* Properties.                                                             *)
(***************************************************************************)
Answered(kinds) == AtRest /\ reader.reply = "page" /\ Query.kind \in kinds

\* The pages of a query, streaming or slurp, are the program's output over the
\* evidence of its first page, in order, without a gap or a repetition, whatever
\* is appended, however often a page times out and wherever a deadline cuts it.
QueryPagesAreTheOutput ==
    Answered({"stream", "slurp"}) =>
        LET whole == AllOutputs(shown.events, Query.mark)
        IN IF token = NoToken THEN got = whole ELSE IsPrefix(got, whole)

\* The pages of a logs are the wanted records of its snapshot by timestamp, none twice
\* and none passed over: what they do not hold yet is later than all they hold.
LogPagesAreSorted ==
    Answered({"logs"}) =>
        LET wanted == {e \in Range(shown.events) : e.seq <= Query.mark /\ e.id.what \in Wanted}
        IN /\ Range(got) \subseteq wanted
           /\ \A i, j \in DOMAIN got : i < j => Earlier(got[i], got[j])
           /\ IF token = NoToken THEN wanted \subseteq Range(got)
              ELSE /\ Len(got) = token.line
                   /\ \A e \in Range(got), f \in wanted \ Range(got) : Earlier(e, f)

\* No spool outlives its use: there is one only while a slurp runs or its reader
\* holds a cursor into it, and none from before a reset or of a removed session.
NoStaleSpool ==
    querySpool # NoSpool =>
        /\ Query.kind = "slurp"
        /\ ~AtRest \/ InReset \/ (token.kind = "slurp" /\ present /\ token.epoch = epoch)

\* A reader is turned away only by a reset or a clean since its snapshot, or
\* because a timeout took the spool of its slurp.
RefusedForCause ==
    AtRest =>
        /\ reader.reply = "stale" => ~present \/ epoch # Query.epoch
        /\ reader.reply \in {"404", "500"} => ~present
        /\ reader.reply = "unavailable" => reader.lapsed
=============================================================================
