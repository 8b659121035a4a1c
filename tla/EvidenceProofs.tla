--------------------------- MODULE EvidenceProofs ---------------------------
(***************************************************************************)
(* What Evidence keeps for every choice of the constants: any records,     *)
(* clients, and numbers of resets, crashes and failed writes.              *)
(*                                                                         *)
(* First its types, and that the sequence numbers of events.ndjson grow    *)
(* strictly.  What makes that inductive: the operation under way has a     *)
(* record to work on (JobShape), and a cached sequence number is never     *)
(* behind the file (LastSeqCovers), so the next one is larger than all     *)
(* numbers in it whether it comes from the cache or from the file.         *)
(***************************************************************************)
EXTENDS Evidence, SequenceTheorems, TLAPS

EventRecords == [id : RecordIds, seq : Nat]
DiagnosticRecords == [about : RecordIds, reason : {"rejected", "redacted"}]

JobKinds == {"none", "http", "tick", "reset"}
JobPlaces == {"none", "record", "redacted", "cursor", "clear"}
Replies == {"unsent", "pending", "202", "404", "413", "500", "lost"}

Jobs == [kind : JobKinds, at : JobPlaces, from : Clients \cup {Spool}, base : Nat,
         batch : Seq(Contents), done : Nat, todo : SUBSET ResetFiles]
Requests == [reply : Replies, left : Nat, posted : Nat]

\* TypeOK in parts, each of which a solver can carry through a step.
FilesTyped ==
    /\ events \in Seq(EventRecords)
    /\ diagnostics \in Seq(DiagnosticRecords)
    /\ spool \in Seq(Contents)

NumbersTyped == present \in BOOLEAN /\ epoch \in Nat /\ cursor \in Nat

CachesTyped ==
    /\ knownEvents \in {Unloaded} \cup SUBSET RecordIds
    /\ knownDiags \in {Unloaded} \cup SUBSET RecordIds
    /\ lastSeq \in {Unloaded} \cup Nat

JobTyped == job \in Jobs /\ stray \in SUBSET ResetFiles

RequestTyped == request \in [Clients -> Requests]

HistoryTyped ==
    /\ acked \in SUBSET RecordIds
    /\ shown \in [epoch : Nat, events : Seq(EventRecords)]
    /\ torn \in BOOLEAN

BudgetsTyped == resets \in Nat /\ crashes \in Nat /\ faults \in Nat /\ reads \in Nat

Typed ==
    /\ FilesTyped /\ NumbersTyped /\ CachesTyped /\ JobTyped
    /\ RequestTyped /\ HistoryTyped /\ BudgetsTyped

\* An operation that is at a record has one, and a POST that is served expects
\* at least one more.
JobShape ==
    /\ job.at \in {"record", "redacted"} =>
          job.done < Len(job.batch) /\ job.kind \in {"http", "tick"}
    /\ job.kind = "http" =>
          job.from \in Clients /\ request[job.from].reply = "pending"

RequestShape == \A c \in Clients : request[c].reply = "pending" => request[c].left > 0

\* The cached sequence number is at least every number in the file.
LastSeqCovers == lastSeq # Unloaded => \A i \in DOMAIN events : events[i].seq <= lastSeq

EvidenceInv ==
    Typed /\ JobShape /\ RequestShape /\ SequencesIncrease /\ LastSeqCovers

\* The parts of the types are the type invariant.
LEMMA TypedIsTypeOK == Typed => TypeOK
<1> SUFFICES ASSUME Typed PROVE TypeOK
  OBVIOUS
<1> USE DEF Typed
<1>1. present \in BOOLEAN /\ epoch \in Nat /\ cursor \in Nat
  BY DEF NumbersTyped
<1>2. /\ events \in Seq([id : RecordIds, seq : Nat])
      /\ diagnostics \in Seq([about : RecordIds, reason : {"rejected", "redacted"}])
      /\ spool \in Seq(Contents)
  BY DEF FilesTyped, EventRecords, DiagnosticRecords
<1>3. /\ knownEvents \in {Unloaded} \cup SUBSET RecordIds
      /\ knownDiags \in {Unloaded} \cup SUBSET RecordIds
      /\ lastSeq \in {Unloaded} \cup Nat
  BY DEF CachesTyped
<1>4. job \in [kind : {"none", "http", "tick", "reset"},
               at : {"none", "record", "redacted", "cursor", "clear"},
               from : Clients \cup {Spool}, base : Nat, batch : Seq(Contents),
               done : Nat, todo : SUBSET ResetFiles]
      /\ stray \in SUBSET ResetFiles
  BY DEF JobTyped, Jobs, JobKinds, JobPlaces
<1>5. request \in [Clients -> [reply : {"unsent", "pending", "202", "404", "413",
                                        "500", "lost"},
                               left : Nat, posted : Nat]]
  BY DEF RequestTyped, Requests, Replies
<1>6. /\ acked \in SUBSET RecordIds
      /\ shown \in [epoch : Nat, events : Seq([id : RecordIds, seq : Nat])]
      /\ torn \in BOOLEAN
  BY DEF HistoryTyped, EventRecords
<1>7. {resets, crashes, faults, reads} \subseteq Nat
  BY DEF BudgetsTyped
<1> QED BY <1>1, <1>2, <1>3, <1>4, <1>5, <1>6, <1>7 DEF TypeOK

\* No job is a job, too.
LEMMA IdleTyped == Idle \in Jobs
  BY DEF Idle, Jobs, JobKinds, JobPlaces, ResetFiles

\* A session begins with well-typed, empty evidence.
LEMMA InitEvidenceInv == Init => EvidenceInv
<1> SUFFICES ASSUME Init PROVE EvidenceInv
  OBVIOUS
<1> USE DEF Init
<1>1. FilesTyped /\ NumbersTyped /\ CachesTyped /\ BudgetsTyped
  <2>1. FilesTyped /\ NumbersTyped
    BY DEF FilesTyped, NumbersTyped
  <2>2. CachesTyped /\ BudgetsTyped
    BY DEF CachesTyped, BudgetsTyped
  <2> QED BY <2>1, <2>2
<1>2. JobTyped
  BY IdleTyped DEF JobTyped
<1>3. RequestTyped /\ RequestShape
  BY DEF RequestTyped, Requests, Replies, RequestShape
<1>4. HistoryTyped
  <2>1. <<>> \in Seq(EventRecords)
    OBVIOUS
  <2> QED BY <2>1 DEF HistoryTyped
<1>5. JobShape
  BY DEF JobShape, Idle
<1>6. SequencesIncrease /\ LastSeqCovers
  BY DEF SequencesIncrease, LastSeqCovers
<1> QED BY <1>1, <1>2, <1>3, <1>4, <1>5, <1>6 DEF EvidenceInv, Typed

\* The sequence numbers in the file have a largest.
LEMMA SequenceNumbers ==
  ASSUME EvidenceInv
  PROVE  LET S == {0} \cup {e.seq : e \in Range(events)}
         IN /\ events \in Seq(EventRecords) /\ \A i \in DOMAIN events : events[i].seq \in Nat
            /\ Max(S) \in S /\ Max(S) \in Nat /\ \A n \in S : Max(S) >= n
<1> DEFINE S == {0} \cup {e.seq : e \in Range(events)}
<1>1. events \in Seq(EventRecords) /\ \A i \in DOMAIN events : events[i].seq \in Nat
  <2>1. events \in Seq(EventRecords)
    BY DEF EvidenceInv, Typed, FilesTyped
  <2>2. \A i \in DOMAIN events : events[i] \in EventRecords
    BY <2>1
  <2> QED BY <2>1, <2>2 DEF EventRecords
<1>2. \E m \in S : \A n \in S : m >= n
  <2>1. CASE events = <<>>
    BY <2>1 DEF Range
  <2>2. CASE events # <<>>
    <3>1. Len(events) \in DOMAIN events /\ DOMAIN events = 1 .. Len(events) /\ Len(events) \in Nat
      BY <1>1, <2>2
    <3>2. \A i \in DOMAIN events : events[i].seq <= events[Len(events)].seq
      BY <1>1, <3>1 DEF EvidenceInv, SequencesIncrease
    <3>3. events[Len(events)].seq \in S
      BY <3>1 DEF Range
    <3>4. ASSUME NEW n \in S PROVE events[Len(events)].seq >= n
      <4>1. n = 0 \/ \E i \in DOMAIN events : n = events[i].seq
        BY DEF Range
      <4> QED BY <1>1, <3>1, <3>2, <4>1
    <3> QED BY <3>3, <3>4
  <2> QED BY <2>1, <2>2
<1>3. Max(S) \in S /\ \A n \in S : Max(S) >= n
  BY <1>2 DEF Max
<1>4. S \subseteq Nat
  BY <1>1 DEF Range
<1> QED BY <1>1, <1>3, <1>4

\* What NextSeq returns is a number larger than every one in the file.
LEMMA NextSeqIsLarger ==
  ASSUME EvidenceInv
  PROVE  NextSeq \in Nat /\ NextSeq > 0 /\ \A i \in DOMAIN events : events[i].seq < NextSeq
<1> DEFINE S == {0} \cup {e.seq : e \in Range(events)}
<1>1. events \in Seq(EventRecords) /\ \A i \in DOMAIN events : events[i].seq \in Nat
  BY SequenceNumbers
<1>2. CASE lastSeq # Unloaded
  <2>1. lastSeq \in Nat /\ NextSeq = 1 + lastSeq
    BY <1>2 DEF EvidenceInv, Typed, CachesTyped, NextSeq
  <2>2. \A i \in DOMAIN events : events[i].seq <= lastSeq
    BY <1>2 DEF EvidenceInv, LastSeqCovers
  <2> QED BY <1>1, <2>1, <2>2
<1>3. CASE lastSeq = Unloaded
  <2>1. \A i \in DOMAIN events : events[i].seq \in S
    BY DEF Range
  <2>2. NextSeq = 1 + Max(S)
    BY <1>3 DEF NextSeq
  <2>3. Max(S) \in Nat /\ \A i \in DOMAIN events : Max(S) >= events[i].seq
    BY <2>1, SequenceNumbers
  <2> HIDE DEF S
  <2>4. NextSeq \in Nat /\ NextSeq > 0
    BY <2>2, <2>3
  <2>5. ASSUME NEW i \in DOMAIN events PROVE events[i].seq < NextSeq
    BY <1>1, <2>2, <2>3
  <2> QED BY <2>4, <2>5
<1> QED BY <1>2, <1>3

\* The values a step builds from the caches, and the record it works on.
LEMMA LoadedTyped ==
  ASSUME EvidenceInv
  PROVE  LoadedEvents \in SUBSET RecordIds /\ LoadedDiags \in SUBSET RecordIds
<1>1. \A i \in DOMAIN events : events[i].id \in RecordIds
  <2>1. \A i \in DOMAIN events : events[i] \in EventRecords
    BY DEF EvidenceInv, Typed, FilesTyped
  <2> QED BY <2>1 DEF EventRecords
<1>2. \A i \in DOMAIN diagnostics : diagnostics[i].about \in RecordIds
  <2>1. \A i \in DOMAIN diagnostics : diagnostics[i] \in DiagnosticRecords
    BY DEF EvidenceInv, Typed, FilesTyped
  <2> QED BY <2>1 DEF DiagnosticRecords
<1>3. EventIds \in SUBSET RecordIds
  BY <1>1 DEF EventIds, Range
<1>4. DiagnosedFor("rejected") \in SUBSET RecordIds
  BY <1>2 DEF DiagnosedFor, Range
<1>5. CachesTyped
  BY DEF EvidenceInv, Typed
<1> QED BY <1>3, <1>4, <1>5 DEF CachesTyped, LoadedEvents, LoadedDiags

\* The record a job is at is one the programs can send.
LEMMA RecordTyped ==
  ASSUME EvidenceInv, job.at \in {"record", "redacted"}
  PROVE  What \in Contents /\ RecordId \in RecordIds
<1>1. job \in Jobs /\ job.done < Len(job.batch)
  BY DEF EvidenceInv, Typed, JobTyped, JobShape
<1>2. job.from \in Clients \cup {Spool} /\ job.base + job.done \in Nat
      /\ job.batch \in Seq(Contents)
      /\ job.done \in Nat
  BY <1>1 DEF Jobs
<1>3. What \in Contents
  BY <1>1, <1>2 DEF What
<1> QED BY <1>2, <1>3 DEF RecordId, RecordIds

\* Going on to the next record, or ending the job, leaves a job as jobs are.
LEMMA AdvanceKeeps ==
  ASSUME EvidenceInv, job.at \in {"record", "redacted"},
         NEW reply \in {"202", "413"}, Advance(reply)
  PROVE  job' \in Jobs /\ RequestTyped' /\ RequestShape' /\ JobShape'
<1>1. /\ job \in Jobs /\ job.done < Len(job.batch) /\ job.kind \in {"http", "tick"}
      /\ job.kind = "http" => job.from \in Clients /\ request[job.from].reply = "pending"
  BY DEF EvidenceInv, Typed, JobTyped, JobShape
<1>2. RequestTyped /\ RequestShape
  BY DEF EvidenceInv, Typed
<1>3. CASE job.kind = "http"
  <2> DEFINE r == request[job.from]
             q == [reply |-> IF reply = "202" /\ HasMore(r.left) THEN "pending" ELSE reply,
                   left |-> r.left - 1, posted |-> r.posted + 1]
  <2>1. job' = Idle /\ request' = [request EXCEPT ![job.from] = q]
    BY <1>3 DEF Advance
  <2>2. r \in Requests /\ r.left \in Nat /\ r.posted \in Nat /\ r.left > 0
    BY <1>1, <1>2, <1>3 DEF RequestTyped, RequestShape, Requests
  <2>3. q \in Requests /\ (q.reply = "pending" => q.left > 0)
    BY <2>2 DEF Requests, Replies, HasMore
  <2> HIDE DEF q
  <2>4. RequestTyped' /\ RequestShape'
    BY <1>1, <1>2, <1>3, <2>1, <2>3 DEF RequestTyped, RequestShape
  <2>5. JobShape'
    BY <2>1 DEF JobShape, Idle
  <2> QED BY <2>1, <2>4, <2>5, IdleTyped
<1>4. CASE job.kind = "tick"
  <2> DEFINE a == IF job.done + 1 = Len(job.batch) THEN "cursor" ELSE "record"
  <2>1. UNCHANGED request /\ job' = [job EXCEPT !.done = job.done + 1, !.at = a]
    BY <1>4 DEF Advance
  <2>2. job.done \in Nat /\ Len(job.batch) \in Nat
    BY <1>1 DEF Jobs
  <2>0. a \in JobPlaces
    BY DEF JobPlaces
  <2>3. job' \in Jobs /\ job'.kind = "tick" /\ job'.done = job.done + 1 /\ job'.at = a
        /\ job'.batch = job.batch
    <3> HIDE DEF a
    <3>1. job' = [job EXCEPT !.done = job.done + 1, !.at = a] /\ job.done + 1 \in Nat
      BY <2>1, <2>2
    <3>2. job' \in Jobs
      BY <1>1, <2>0, <3>1 DEF Jobs
    <3>3. job'.kind = job.kind /\ job'.done = job.done + 1 /\ job'.at = a
          /\ job'.batch = job.batch
      BY <1>1, <3>1 DEF Jobs
    <3> QED BY <1>4, <3>2, <3>3
  <2>4. JobShape'
    BY <1>1, <2>2, <2>3 DEF JobShape
  <2> QED BY <1>2, <2>1, <2>3, <2>4 DEF RequestTyped, RequestShape
<1> QED BY <1>1, <1>3, <1>4

\* So does giving up the job.
LEMMA AbortKeeps ==
  ASSUME EvidenceInv, Abort
  PROVE  job' \in Jobs /\ RequestTyped' /\ RequestShape' /\ JobShape'
<1>1. JobShape'
  BY DEF Abort, JobShape, Idle
<1>2. RequestTyped /\ RequestShape /\ (job.kind = "http" => job.from \in Clients)
  BY DEF EvidenceInv, Typed, JobShape
<1>3. CASE job.kind = "http"
  <2>1. request' = [request EXCEPT ![job.from].reply = "500"]
    BY <1>3 DEF Abort
  <2> QED BY <1>1, <1>2, <1>3, <2>1, IdleTyped
           DEF Abort, RequestTyped, RequestShape, Requests, Replies
<1>4. CASE job.kind # "http"
  <2>1. UNCHANGED request
    BY <1>4 DEF Abort
  <2> QED BY <1>1, <1>2, <2>1, IdleTyped DEF Abort, RequestTyped, RequestShape
<1> QED BY <1>3, <1>4

\* A file of a reset that is cleared is still a file, with numbers in order.
LEMMA ClearKeeps ==
  ASSUME EvidenceInv, NEW f \in ResetFiles, Clear(f), UNCHANGED <<present, epoch, lastSeq>>
  PROVE  FilesTyped' /\ NumbersTyped' /\ SequencesIncrease' /\ LastSeqCovers'
<1>1. FilesTyped /\ NumbersTyped /\ SequencesIncrease /\ LastSeqCovers
  BY DEF EvidenceInv, Typed
<1>2. events' \in {<<>>, events} /\ diagnostics' \in {<<>>, diagnostics} /\ spool' \in {<<>>, spool}
      /\ cursor' \in {0, cursor}
  BY DEF Clear
<1>3. FilesTyped'
  <2>0. <<>> \in Seq(EventRecords) /\ <<>> \in Seq(DiagnosticRecords) /\ <<>> \in Seq(Contents)
    OBVIOUS
  <2>1. events' \in Seq(EventRecords)
    BY <1>1, <1>2, <2>0 DEF FilesTyped
  <2>2. diagnostics' \in Seq(DiagnosticRecords)
    BY <1>1, <1>2, <2>0 DEF FilesTyped
  <2>3. spool' \in Seq(Contents)
    BY <1>1, <1>2, <2>0 DEF FilesTyped
  <2> QED BY <2>1, <2>2, <2>3 DEF FilesTyped
<1>4. NumbersTyped'
  BY <1>1, <1>2 DEF NumbersTyped
<1>5. SequencesIncrease'
  BY <1>1, <1>2 DEF SequencesIncrease
<1>6. LastSeqCovers'
  BY <1>1, <1>2 DEF LastSeqCovers
<1> QED BY <1>3, <1>4, <1>5, <1>6

\* What a step leaves alone keeps its part of the invariant.
LEMMA KeepParts ==
  ASSUME EvidenceInv
  PROVE
    /\ UNCHANGED <<events, diagnostics, spool>> => FilesTyped'
    /\ UNCHANGED <<present, epoch, cursor>> => NumbersTyped'
    /\ UNCHANGED <<knownEvents, knownDiags, lastSeq>> => CachesTyped'
    /\ UNCHANGED <<job, stray>> => JobTyped'
    /\ UNCHANGED request => RequestTyped'
    /\ UNCHANGED <<acked, shown, torn>> => HistoryTyped'
    /\ UNCHANGED <<resets, crashes, faults, reads>> => BudgetsTyped'
    /\ UNCHANGED <<job, request>> => JobShape'
    /\ UNCHANGED request => RequestShape'
    /\ UNCHANGED events => SequencesIncrease'
    /\ UNCHANGED <<lastSeq, events>> => LastSeqCovers'
<1>1. UNCHANGED <<events, diagnostics, spool>> => FilesTyped'
  BY DEF EvidenceInv, Typed, FilesTyped
<1>2. UNCHANGED <<present, epoch, cursor>> => NumbersTyped'
  BY DEF EvidenceInv, Typed, NumbersTyped
<1>3. UNCHANGED <<knownEvents, knownDiags, lastSeq>> => CachesTyped'
  BY DEF EvidenceInv, Typed, CachesTyped
<1>4. UNCHANGED <<job, stray>> => JobTyped'
  BY DEF EvidenceInv, Typed, JobTyped
<1>5. UNCHANGED request => RequestTyped'
  BY DEF EvidenceInv, Typed, RequestTyped
<1>6. UNCHANGED <<acked, shown, torn>> => HistoryTyped'
  BY DEF EvidenceInv, Typed, HistoryTyped
<1>7. UNCHANGED <<resets, crashes, faults, reads>> => BudgetsTyped'
  BY DEF EvidenceInv, Typed, BudgetsTyped
<1>8. UNCHANGED <<job, request>> => JobShape'
  BY DEF EvidenceInv, Typed, JobShape
<1>9. UNCHANGED request => RequestShape'
  BY DEF EvidenceInv, Typed, RequestShape
<1>10. UNCHANGED events => SequencesIncrease'
  BY DEF EvidenceInv, Typed, SequencesIncrease
<1>11. UNCHANGED <<lastSeq, events>> => LastSeqCovers'
  BY DEF EvidenceInv, Typed, LastSeqCovers
<1> QED BY <1>1, <1>2, <1>3, <1>4, <1>5, <1>6, <1>7, <1>8, <1>9, <1>10, <1>11

\* Every step, and every look of a reader, keeps types, shapes and the order of numbers.
LEMMA NextEvidenceInv == EvidenceInv /\ [Next \/ Read]_vars => EvidenceInv'
<1> SUFFICES ASSUME EvidenceInv, [Next \/ Read]_vars PROVE EvidenceInv'
  OBVIOUS
<1>1. ASSUME NEW what \in Contents, AppendToSpool(what) PROVE EvidenceInv'
  <2>0. NumbersTyped' /\ CachesTyped' /\ JobTyped' /\ RequestTyped'
        /\ HistoryTyped' /\ BudgetsTyped' /\ JobShape' /\ RequestShape'
        /\ SequencesIncrease' /\ LastSeqCovers'
    BY <1>1, KeepParts DEF AppendToSpool, disk, caches, budgets
  <2>1. FilesTyped'
    BY <1>1 DEF AppendToSpool, FilesTyped, EvidenceInv, Typed
  <2> QED BY <2>0, <2>1 DEF EvidenceInv, Typed
<1>2. ASSUME NEW c \in Clients, StartRequest(c) PROVE EvidenceInv'
  <2>0. FilesTyped' /\ NumbersTyped' /\ CachesTyped' /\ JobTyped' /\ HistoryTyped'
        /\ BudgetsTyped' /\ SequencesIncrease' /\ LastSeqCovers'
    BY <1>2, KeepParts DEF StartRequest, disk, caches, budgets
  <2>1. PICK n \in 1 .. MaxBatch : request' = [request EXCEPT ![c] =
              IF present THEN [reply |-> "pending", left |-> n, posted |-> 0]
              ELSE [reply |-> "404", left |-> 0, posted |-> 0]]
    BY <1>2 DEF StartRequest
  <2>2. n \in Nat /\ n > 0
    BY EvidenceAssumption DEF EvidenceAssumption
  <2>3. RequestTyped' /\ RequestShape'
    <3>1. CASE present
      BY <2>1, <2>2, <3>1 DEF RequestTyped, RequestShape, Requests, Replies, EvidenceInv, Typed
    <3>2. CASE ~present
      BY <2>1, <3>2 DEF RequestTyped, RequestShape, Requests, Replies, EvidenceInv, Typed
    <3> QED BY <3>1, <3>2
  <2>4. JobShape'
    BY <1>2 DEF StartRequest, Free, JobShape, EvidenceInv
  <2> QED BY <2>0, <2>1, <2>2, <2>3, <2>4 DEF EvidenceInv, Typed
<1>3. ASSUME NEW c \in Clients, NEW what \in Contents, TakeRecord(c, what) PROVE EvidenceInv'
  <2>0. FilesTyped' /\ NumbersTyped' /\ CachesTyped' /\ RequestTyped'
        /\ HistoryTyped' /\ BudgetsTyped' /\ RequestShape' /\ SequencesIncrease'
        /\ LastSeqCovers'
    BY <1>3, KeepParts DEF TakeRecord, disk, caches, budgets
  <2>1. job' = [kind |-> "http", at |-> "record", from |-> c, base |-> request[c].posted,
                batch |-> <<what>>, done |-> 0, todo |-> {}] /\ UNCHANGED <<request, stray>>
        /\ request[c].reply = "pending"
    BY <1>3 DEF TakeRecord, Idle
  <2>2. request[c].posted \in Nat
    BY DEF RequestTyped, Requests, EvidenceInv, Typed
  <2>3. JobTyped'
    BY <2>1, <2>2 DEF JobTyped, Jobs, JobKinds, JobPlaces, EvidenceInv, Typed
  <2>4. JobShape'
    BY <2>1 DEF JobShape
  <2> QED BY <2>0, <2>1, <2>2, <2>3, <2>4 DEF EvidenceInv, Typed
<1>4. ASSUME NEW c \in Clients, TakeRecordTooLate(c) PROVE EvidenceInv'
  <2>0. FilesTyped' /\ NumbersTyped' /\ CachesTyped' /\ JobTyped' /\ HistoryTyped'
        /\ BudgetsTyped' /\ SequencesIncrease' /\ LastSeqCovers'
    BY <1>4, KeepParts DEF TakeRecordTooLate, disk, caches, budgets
  <2>1. RequestTyped' /\ RequestShape'
    BY <1>4 DEF TakeRecordTooLate, RequestTyped, RequestShape, Requests, Replies, EvidenceInv, Typed
  <2>2. JobShape'
    BY <1>4 DEF TakeRecordTooLate, Free, JobShape, EvidenceInv
  <2> QED BY <2>0, <2>1, <2>2 DEF EvidenceInv, Typed
<1>5. CASE StartTick
  <2>0. FilesTyped' /\ NumbersTyped' /\ CachesTyped' /\ RequestTyped'
        /\ HistoryTyped' /\ BudgetsTyped' /\ RequestShape' /\ SequencesIncrease'
        /\ LastSeqCovers'
    BY <1>5, KeepParts DEF StartTick, disk, caches, budgets
  <2>1. SpoolOffset \in Nat /\ spool \in Seq(Contents)
    BY DEF SpoolOffset, EvidenceInv, Typed, FilesTyped, NumbersTyped
  <2>2. PICK upto \in SpoolOffset + 1 .. Len(spool) :
          job' = [kind |-> "tick", at |-> "record", from |-> Spool, base |-> SpoolOffset,
                  batch |-> SubSeq(spool, SpoolOffset + 1, upto), done |-> 0, todo |-> {}]
    BY <1>5 DEF StartTick, Idle
  <2>3. SubSeq(spool, SpoolOffset + 1, upto) \in Seq(Contents)
        /\ Len(SubSeq(spool, SpoolOffset + 1, upto)) > 0
    BY <2>1, <2>2
  <2>4. JobTyped'
    BY <1>5, <2>1, <2>2, <2>3 DEF StartTick, JobTyped, Jobs, JobKinds, JobPlaces, EvidenceInv, Typed
  <2>5. JobShape'
    BY <2>2, <2>3 DEF JobShape
  <2> QED BY <2>0, <2>1, <2>2, <2>3, <2>4, <2>5 DEF EvidenceInv, Typed
<1>6. CASE RewindCursor
  <2>0. FilesTyped' /\ CachesTyped' /\ JobTyped' /\ RequestTyped' /\ HistoryTyped'
        /\ BudgetsTyped' /\ JobShape' /\ RequestShape' /\ SequencesIncrease'
        /\ LastSeqCovers'
    BY <1>6, KeepParts DEF RewindCursor, disk, caches, budgets
  <2>1. NumbersTyped'
    BY <1>6 DEF RewindCursor, SpoolOffset, NumbersTyped, EvidenceInv, Typed
  <2> QED BY <2>0, <2>1 DEF EvidenceInv, Typed
<1>7. CASE RejectRecord
  <2>0. NumbersTyped' /\ HistoryTyped' /\ BudgetsTyped' /\ SequencesIncrease'
        /\ LastSeqCovers'
    BY <1>7, KeepParts DEF RejectRecord, disk, caches, budgets
  <2>1. job.at \in {"record", "redacted"} /\ Advance(IF Kind[What] = "large" THEN "413" ELSE "202")
    BY <1>7 DEF RejectRecord, AtRecord
  <2>2. job' \in Jobs /\ RequestTyped' /\ RequestShape' /\ JobShape'
    BY <2>1, AdvanceKeeps
  <2>3. JobTyped'
    BY <1>7, <2>2 DEF RejectRecord, JobTyped, EvidenceInv, Typed
  <2>4. RecordId \in RecordIds
    BY <2>1, RecordTyped
  <2>5. [about |-> RecordId, reason |-> "rejected"] \in DiagnosticRecords
    BY <2>4 DEF DiagnosticRecords
  <2>6. FilesTyped'
    BY <1>7, <2>5 DEF RejectRecord, FilesTyped, EvidenceInv, Typed
  <2>7. CachesTyped'
    BY <1>7, <2>4, LoadedTyped DEF RejectRecord, CachesTyped, EvidenceInv, Typed
  <2> QED BY <2>0, <2>1, <2>2, <2>3, <2>4, <2>5, <2>6, <2>7 DEF EvidenceInv, Typed
<1>8. CASE AcceptKnown
  <2>0. FilesTyped' /\ NumbersTyped' /\ BudgetsTyped' /\ SequencesIncrease'
        /\ LastSeqCovers'
    BY <1>8, KeepParts DEF AcceptKnown, disk, caches, budgets
  <2>1. job.at \in {"record", "redacted"} /\ Advance("202")
    BY <1>8 DEF AcceptKnown, AtRecord
  <2>2. job' \in Jobs /\ RequestTyped' /\ RequestShape' /\ JobShape'
    BY <2>1, AdvanceKeeps
  <2>3. JobTyped'
    BY <1>8, <2>2 DEF AcceptKnown, JobTyped, EvidenceInv, Typed
  <2>4. RecordId \in RecordIds
    BY <2>1, RecordTyped
  <2>5. CachesTyped'
    BY <1>8, LoadedTyped DEF AcceptKnown, CachesTyped, EvidenceInv, Typed
  <2>6. HistoryTyped'
    BY <1>8, <2>4 DEF AcceptKnown, HistoryTyped, EvidenceInv, Typed
  <2> QED BY <2>0, <2>1, <2>2, <2>3, <2>4, <2>5, <2>6 DEF EvidenceInv, Typed
<1>9. CASE AcceptNew
  <2>0. NumbersTyped' /\ BudgetsTyped'
    BY <1>9, KeepParts DEF AcceptNew, disk, caches, budgets
  <2>1. job.at = "record" /\ job.kind \in {"http", "tick"}
    BY <1>9 DEF AcceptNew, AtRecord
  <2>2. RecordId \in RecordIds /\ NextSeq \in Nat
        /\ \A i \in DOMAIN events : events[i].seq < NextSeq
    BY <2>1, RecordTyped, NextSeqIsLarger
  <2>3. events' = Append(events, [id |-> RecordId, seq |-> NextSeq]) /\ events \in Seq(EventRecords)
    BY <1>9 DEF AcceptNew, EvidenceInv, Typed, FilesTyped
  <2>4. [id |-> RecordId, seq |-> NextSeq] \in EventRecords
    BY <2>2 DEF EventRecords
  <2>5. events' \in Seq(EventRecords)
    BY <2>3, <2>4
  <2>6. FilesTyped'
    BY <1>9, <2>5 DEF AcceptNew, FilesTyped, EvidenceInv, Typed
  <2>7. CachesTyped'
    BY <1>9, <2>2, LoadedTyped DEF AcceptNew, CachesTyped, EvidenceInv, Typed
  <2>8. job' \in Jobs /\ RequestTyped' /\ RequestShape' /\ JobShape'
    <3>1. CASE HasDiagnostics(What)
      <4>1. job' = [job EXCEPT !.at = "redacted"] /\ UNCHANGED request
        BY <1>9, <3>1 DEF AcceptNew
      <4>2. job \in Jobs /\ RequestTyped /\ RequestShape /\ JobShape
        BY DEF EvidenceInv, Typed, JobTyped
      <4>3. job' \in Jobs
        BY <4>1, <4>2 DEF Jobs, JobPlaces
      <4>4. JobShape'
        BY <4>1, <4>2, <2>1 DEF JobShape, Jobs
      <4> QED BY <4>1, <4>2, <4>3, <4>4 DEF RequestTyped, RequestShape
    <3>2. CASE ~HasDiagnostics(What)
      <4>1. Advance("202")
        BY <1>9, <3>2 DEF AcceptNew
      <4> QED BY <4>1, <2>1, AdvanceKeeps
    <3> QED BY <3>1, <3>2
  <2>9. JobTyped'
    BY <1>9, <2>8 DEF AcceptNew, JobTyped, EvidenceInv, Typed
  <2>10. HistoryTyped'
    BY <1>9, <2>2 DEF AcceptNew, HistoryTyped, EvidenceInv, Typed
  <2>11. SequencesIncrease'
    <3>1. SequencesIncrease /\ \A i \in DOMAIN events : events[i].seq \in Nat
      <4>1. \A i \in DOMAIN events : events[i] \in EventRecords
        BY <2>3
      <4> QED BY <4>1 DEF EventRecords, EvidenceInv
    <3> SUFFICES ASSUME NEW i \in DOMAIN events', NEW j \in DOMAIN events', i < j
                 PROVE  events'[i].seq < events'[j].seq
      BY DEF SequencesIncrease
    <3>2. i \in DOMAIN events /\ events'[i] = events[i]
      BY <2>3
    <3>3. CASE j \in DOMAIN events
      BY <2>3, <3>1, <3>2, <3>3 DEF SequencesIncrease
    <3>4. CASE j \notin DOMAIN events
      <4>1. events'[j] = [id |-> RecordId, seq |-> NextSeq]
        BY <2>3, <3>4
      <4> QED BY <2>2, <3>2, <4>1
    <3> QED BY <3>3, <3>4
  <2>12. LastSeqCovers'
    <3>1. lastSeq' = NextSeq
      BY <1>9 DEF AcceptNew
    <3> SUFFICES ASSUME NEW i \in DOMAIN events'
                 PROVE  events'[i].seq <= NextSeq
      BY <3>1 DEF LastSeqCovers
    <3>2. CASE i \in DOMAIN events
      <4>1. events'[i] = events[i] /\ events[i] \in EventRecords
        BY <2>3, <3>2
      <4>2. events[i].seq \in Nat
        BY <4>1 DEF EventRecords
      <4> QED BY <2>2, <3>2, <4>1, <4>2
    <3>3. CASE i \notin DOMAIN events
      <4>1. events'[i] = [id |-> RecordId, seq |-> NextSeq]
        BY <2>3, <3>3
      <4> QED BY <2>2, <4>1
    <3> QED BY <3>2, <3>3
  <2> QED BY <2>0, <2>1, <2>2, <2>3, <2>4, <2>5, <2>6, <2>7, <2>8, <2>9,
              <2>10, <2>11, <2>12 DEF EvidenceInv, Typed
<1>10. CASE ReportRedaction
  <2>0. NumbersTyped' /\ BudgetsTyped' /\ SequencesIncrease' /\ LastSeqCovers'
    BY <1>10, KeepParts DEF ReportRedaction, disk, caches, budgets
  <2>1. job.at \in {"record", "redacted"} /\ Advance("202")
    BY <1>10 DEF ReportRedaction
  <2>2. job' \in Jobs /\ RequestTyped' /\ RequestShape' /\ JobShape'
    BY <2>1, AdvanceKeeps
  <2>3. JobTyped'
    BY <1>10, <2>2 DEF ReportRedaction, JobTyped, EvidenceInv, Typed
  <2>4. RecordId \in RecordIds
    BY <2>1, RecordTyped
  <2>5. [about |-> RecordId, reason |-> "redacted"] \in DiagnosticRecords
    BY <2>4 DEF DiagnosticRecords
  <2>6. FilesTyped'
    BY <1>10, <2>5 DEF ReportRedaction, FilesTyped, EvidenceInv, Typed
  <2>7. CachesTyped'
    BY <1>10, LoadedTyped DEF ReportRedaction, CachesTyped, EvidenceInv, Typed
  <2>8. HistoryTyped'
    BY <1>10, <2>4 DEF ReportRedaction, HistoryTyped, EvidenceInv, Typed
  <2> QED BY <2>0, <2>1, <2>2, <2>3, <2>4, <2>5, <2>6, <2>7, <2>8 DEF EvidenceInv, Typed
<1>11. CASE StoreCursor
  <2>0. FilesTyped' /\ CachesTyped' /\ RequestTyped' /\ HistoryTyped'
        /\ BudgetsTyped' /\ RequestShape' /\ SequencesIncrease' /\ LastSeqCovers'
    BY <1>11, KeepParts DEF StoreCursor, disk, caches, budgets
  <2>1. job \in Jobs
    BY DEF EvidenceInv, Typed, JobTyped
  <2>2. EndOfBatch \in Nat
    BY <2>1 DEF EndOfBatch, Jobs
  <2>3. NumbersTyped'
    BY <1>11, <2>2 DEF StoreCursor, NumbersTyped, EvidenceInv, Typed
  <2>4. JobTyped'
    BY <1>11, IdleTyped DEF StoreCursor, JobTyped, EvidenceInv, Typed
  <2>5. JobShape'
    BY <1>11 DEF StoreCursor, JobShape, Idle
  <2> QED BY <2>0, <2>1, <2>2, <2>3, <2>4, <2>5 DEF EvidenceInv, Typed
<1>12. CASE StartReset
  <2>0. FilesTyped' /\ NumbersTyped' /\ RequestTyped' /\ RequestShape'
        /\ SequencesIncrease' /\ LastSeqCovers'
    BY <1>12, KeepParts DEF StartReset, disk, caches, budgets
  <2>1. job' = [kind |-> "reset", at |-> "clear", from |-> Spool, base |-> 0,
                batch |-> <<>>, done |-> 0, todo |-> ResetFiles]
    BY <1>12 DEF StartReset, Idle
  <2>2. JobTyped'
    <3>1. <<>> \in Seq(Contents) /\ ResetFiles \in SUBSET ResetFiles /\ 0 \in Nat
      OBVIOUS
    <3>2. job' \in Jobs
      BY <2>1, <3>1 DEF Jobs, JobKinds, JobPlaces
    <3> QED BY <1>12, <3>2 DEF StartReset, JobTyped, EvidenceInv, Typed
  <2>3. JobShape'
    BY <2>1 DEF JobShape
  <2>4. CachesTyped'
    BY <1>12 DEF StartReset, ClearedIds, CachesTyped, EvidenceInv, Typed
  <2>5. HistoryTyped'
    BY <1>12 DEF StartReset, HistoryTyped, EvidenceInv, Typed
  <2>6. BudgetsTyped'
    BY <1>12 DEF StartReset, BudgetsTyped, EvidenceInv, Typed
  <2> QED BY <2>0, <2>1, <2>2, <2>3, <2>4, <2>5, <2>6 DEF EvidenceInv, Typed
<1>13. ASSUME NEW f \in ResetFiles, ClearFile(f) PROVE EvidenceInv'
  <2>0. CachesTyped' /\ RequestTyped' /\ HistoryTyped' /\ BudgetsTyped'
        /\ RequestShape'
    BY <1>13, KeepParts DEF ClearFile, disk, caches, budgets
  <2>1. job \in Jobs /\ job' = [job EXCEPT !.todo = job.todo \ {f}] /\ job.at = "clear" /\ JobShape
    BY <1>13 DEF ClearFile, EvidenceInv, Typed, JobTyped
  <2>2. JobTyped'
    BY <1>13, <2>1 DEF ClearFile, JobTyped, Jobs, EvidenceInv, Typed
  <2>3. JobShape'
    BY <1>13, <2>1 DEF ClearFile, JobShape, Jobs
  <2>4. FilesTyped' /\ NumbersTyped' /\ SequencesIncrease' /\ LastSeqCovers'
    BY <1>13, ClearKeeps DEF ClearFile, caches
  <2> QED BY <2>0, <2>1, <2>2, <2>3, <2>4 DEF EvidenceInv, Typed
<1>14. CASE PublishEpoch
  <2>0. FilesTyped' /\ RequestTyped' /\ BudgetsTyped' /\ RequestShape'
        /\ SequencesIncrease'
    BY <1>14, KeepParts DEF PublishEpoch, disk, caches, budgets
  <2>1. NumbersTyped'
    BY <1>14 DEF PublishEpoch, NextEpoch, NumbersTyped, EvidenceInv, Typed
  <2>2. CachesTyped' /\ LastSeqCovers'
    BY <1>14 DEF PublishEpoch, CachesTyped, LastSeqCovers, EvidenceInv, Typed
  <2>3. HistoryTyped'
    BY <1>14 DEF PublishEpoch, HistoryTyped, EvidenceInv, Typed
  <2>4. JobTyped'
    BY <1>14, IdleTyped DEF PublishEpoch, JobTyped, EvidenceInv, Typed
  <2>5. JobShape'
    BY <1>14 DEF PublishEpoch, JobShape, Idle
  <2> QED BY <2>0, <2>1, <2>2, <2>3, <2>4, <2>5 DEF EvidenceInv, Typed
<1>15. CASE RemoveSession
  <2>0. RequestTyped' /\ BudgetsTyped' /\ JobShape' /\ RequestShape'
    BY <1>15, KeepParts DEF RemoveSession, disk, caches, budgets
  <2>1. FilesTyped'
    BY <1>15 DEF RemoveSession, FilesTyped
  <2>2. NumbersTyped'
    BY <1>15 DEF RemoveSession, NumbersTyped, EvidenceInv, Typed
  <2>3. CachesTyped' /\ LastSeqCovers'
    BY <1>15 DEF RemoveSession, CachesTyped, LastSeqCovers, EvidenceInv, Typed
  <2>4. JobTyped'
    BY <1>15 DEF RemoveSession, JobTyped, EvidenceInv, Typed
  <2>5. HistoryTyped'
    BY <1>15 DEF RemoveSession, HistoryTyped, EvidenceInv, Typed
  <2>6. SequencesIncrease'
    BY <1>15 DEF RemoveSession, SequencesIncrease
  <2> QED BY <2>0, <2>1, <2>2, <2>3, <2>4, <2>5, <2>6 DEF EvidenceInv, Typed
<1>16. CASE Read
  <2>0. FilesTyped' /\ NumbersTyped' /\ CachesTyped' /\ JobTyped' /\ RequestTyped'
        /\ JobShape' /\ RequestShape' /\ SequencesIncrease' /\ LastSeqCovers'
    BY <1>16, KeepParts DEF Read, disk, caches, budgets
  <2>1. HistoryTyped'
    BY <1>16 DEF Read, HistoryTyped, FilesTyped, NumbersTyped, EvidenceInv, Typed
  <2>2. BudgetsTyped'
    BY <1>16 DEF Read, BudgetsTyped, EvidenceInv, Typed
  <2> QED BY <2>0, <2>1, <2>2 DEF EvidenceInv, Typed
<1>17. CASE AppendFails
  <2>0. FilesTyped' /\ NumbersTyped' /\ HistoryTyped' /\ SequencesIncrease'
    BY <1>17, KeepParts DEF AppendFails, disk, caches, Fault
  <2>1. job' \in Jobs /\ RequestTyped' /\ RequestShape' /\ JobShape'
    BY <1>17, AbortKeeps DEF AppendFails
  <2>2. JobTyped'
    BY <1>17, <2>1 DEF AppendFails, JobTyped, EvidenceInv, Typed
  <2>3. BudgetsTyped'
    BY <1>17 DEF AppendFails, Fault, BudgetsTyped, EvidenceInv, Typed
  <2>4. (knownEvents' = LoadedEvents /\ lastSeq' = NextSeq /\ UNCHANGED knownDiags)
        \/ (knownDiags' = LoadedDiags /\ UNCHANGED <<knownEvents, lastSeq>>)
    BY <1>17 DEF AppendFails, IdsAfterFailure
  <2>5. CachesTyped'
    BY <2>4, LoadedTyped, NextSeqIsLarger DEF CachesTyped, EvidenceInv, Typed
  <2>6. LastSeqCovers'
    <3>1. UNCHANGED events /\ lastSeq' \in {lastSeq, NextSeq}
      BY <1>17, <2>4 DEF AppendFails, disk
    <3>2. \A i \in DOMAIN events : events[i].seq \in Nat
      <4>1. \A i \in DOMAIN events : events[i] \in EventRecords
        BY DEF EvidenceInv, Typed, FilesTyped
      <4> QED BY <4>1 DEF EventRecords
    <3>3. CASE lastSeq' = lastSeq
      BY <3>1, <3>3 DEF LastSeqCovers, EvidenceInv
    <3>4. CASE lastSeq' = NextSeq
      BY <3>1, <3>2, <3>4, NextSeqIsLarger DEF LastSeqCovers
    <3> QED BY <3>1, <3>3, <3>4
  <2> QED BY <2>0, <2>1, <2>2, <2>3, <2>4, <2>5, <2>6 DEF EvidenceInv, Typed
<1>18. CASE StoreCursorFails
  <2>0. FilesTyped' /\ NumbersTyped' /\ CachesTyped' /\ HistoryTyped'
        /\ SequencesIncrease' /\ LastSeqCovers'
    BY <1>18, KeepParts DEF StoreCursorFails, disk, caches, Fault
  <2>1. job' \in Jobs /\ RequestTyped' /\ RequestShape' /\ JobShape'
    BY <1>18, AbortKeeps DEF StoreCursorFails
  <2>2. JobTyped'
    BY <1>18, <2>1 DEF StoreCursorFails, JobTyped, EvidenceInv, Typed
  <2>3. BudgetsTyped'
    BY <1>18 DEF StoreCursorFails, Fault, BudgetsTyped, EvidenceInv, Typed
  <2> QED BY <2>0, <2>1, <2>2, <2>3 DEF EvidenceInv, Typed
<1>19. ASSUME NEW f \in ResetFiles, ClearFileFails(f) PROVE EvidenceInv'
  <2>0. FilesTyped' /\ NumbersTyped' /\ CachesTyped' /\ SequencesIncrease'
        /\ LastSeqCovers'
    BY <1>19, KeepParts DEF ClearFileFails, disk, caches, Fault
  <2>1. job' \in Jobs /\ RequestTyped' /\ RequestShape' /\ JobShape'
    BY <1>19, AbortKeeps DEF ClearFileFails
  <2>2. job.todo \in SUBSET ResetFiles
    BY DEF EvidenceInv, Typed, JobTyped, Jobs
  <2>3. JobTyped'
    BY <1>19, <2>1, <2>2 DEF ClearFileFails, JobTyped, EvidenceInv, Typed
  <2>4. HistoryTyped'
    BY <1>19 DEF ClearFileFails, HistoryTyped, EvidenceInv, Typed
  <2>5. BudgetsTyped'
    BY <1>19 DEF ClearFileFails, Fault, BudgetsTyped, EvidenceInv, Typed
  <2> QED BY <2>0, <2>1, <2>2, <2>3, <2>4, <2>5 DEF EvidenceInv, Typed
<1>20. ASSUME NEW f \in ResetFiles, StrayWriteLands(f) PROVE EvidenceInv'
  <2>0. CachesTyped' /\ RequestTyped' /\ HistoryTyped' /\ BudgetsTyped'
        /\ JobShape' /\ RequestShape'
    BY <1>20, KeepParts DEF StrayWriteLands, disk, caches, budgets
  <2>1. FilesTyped' /\ NumbersTyped' /\ SequencesIncrease' /\ LastSeqCovers'
    BY <1>20, ClearKeeps DEF StrayWriteLands, caches
  <2>2. JobTyped'
    BY <1>20 DEF StrayWriteLands, JobTyped, EvidenceInv, Typed
  <2> QED BY <2>0, <2>1, <2>2 DEF EvidenceInv, Typed
<1>21. CASE PublishEpochFails
  <2>0. FilesTyped' /\ NumbersTyped' /\ SequencesIncrease'
    BY <1>21, KeepParts DEF PublishEpochFails, disk, caches, Fault
  <2>1. job' \in Jobs /\ RequestTyped' /\ RequestShape' /\ JobShape'
    BY <1>21, AbortKeeps DEF PublishEpochFails
  <2>2. JobTyped'
    BY <1>21, <2>1 DEF PublishEpochFails, JobTyped, EvidenceInv, Typed
  <2>3. CachesTyped' /\ LastSeqCovers'
    BY <1>21 DEF PublishEpochFails, CachesTyped, LastSeqCovers, EvidenceInv, Typed
  <2>4. HistoryTyped'
    BY <1>21 DEF PublishEpochFails, HistoryTyped, EvidenceInv, Typed
  <2>5. BudgetsTyped'
    BY <1>21 DEF PublishEpochFails, Fault, BudgetsTyped, EvidenceInv, Typed
  <2> QED BY <2>0, <2>1, <2>2, <2>3, <2>4, <2>5 DEF EvidenceInv, Typed
<1>22. CASE LoseCursor
  <2>0. FilesTyped' /\ CachesTyped' /\ JobTyped' /\ RequestTyped' /\ HistoryTyped'
        /\ JobShape' /\ RequestShape' /\ SequencesIncrease' /\ LastSeqCovers'
    BY <1>22, KeepParts DEF LoseCursor, disk, caches, Fault
  <2>1. NumbersTyped'
    BY <1>22 DEF LoseCursor, NumbersTyped, EvidenceInv, Typed
  <2>2. BudgetsTyped'
    BY <1>22 DEF LoseCursor, Fault, BudgetsTyped, EvidenceInv, Typed
  <2> QED BY <2>0, <2>1, <2>2 DEF EvidenceInv, Typed
<1>23. CASE CrashAndRestart
  <2>0. FilesTyped' /\ NumbersTyped' /\ SequencesIncrease'
    BY <1>23, KeepParts DEF CrashAndRestart, disk, caches, budgets
  <2>1. CachesTyped' /\ LastSeqCovers'
    BY <1>23 DEF CrashAndRestart, CachesTyped, LastSeqCovers
  <2>2. JobTyped'
    BY <1>23, IdleTyped DEF CrashAndRestart, JobTyped
  <2>3. JobShape'
    BY <1>23 DEF CrashAndRestart, JobShape, Idle
  <2>4. RequestTyped' /\ RequestShape'
    <3>1. request \in [Clients -> Requests]
      BY DEF EvidenceInv, Typed, RequestTyped
    <3>2. request' = [c \in Clients |->
             IF request[c].reply = "pending" THEN [request[c] EXCEPT !.reply = "lost"]
             ELSE request[c]]
      BY <1>23 DEF CrashAndRestart
    <3>3. ASSUME NEW c \in Clients
          PROVE  request'[c] \in Requests /\ request'[c].reply # "pending"
      BY <3>1, <3>2 DEF Requests, Replies
    <3> QED BY <3>2, <3>3 DEF RequestTyped, RequestShape
  <2>5. HistoryTyped'
    BY <1>23 DEF CrashAndRestart, HistoryTyped, EvidenceInv, Typed
  <2>6. BudgetsTyped'
    BY <1>23 DEF CrashAndRestart, BudgetsTyped, EvidenceInv, Typed
  <2> QED BY <2>0, <2>1, <2>2, <2>3, <2>4, <2>5, <2>6 DEF EvidenceInv, Typed
<1>24. CASE UNCHANGED vars
  BY <1>24, KeepParts DEF vars, disk, caches, budgets, EvidenceInv, Typed
<1> QED
  BY <1>1, <1>2, <1>3, <1>4, <1>5, <1>6, <1>7, <1>8, <1>9, <1>10, <1>11, <1>12,
     <1>13, <1>14, <1>15, <1>16, <1>17, <1>18, <1>19, <1>20, <1>21, <1>22, <1>23, <1>24
  DEF Next, Post, Tick, Ingest, Reset, Faults

\* So they hold whatever is read beside the daemon.
THEOREM ReadingInvariant == ReadingSpec => []EvidenceInv
  BY InitEvidenceInv, NextEvidenceInv, PTL DEF ReadingSpec

\* The daemon alone is the daemon with readers that do not look.
LEMMA SpecIsRead == Spec => ReadingSpec
<1>1. [Next]_vars => [Next \/ Read]_vars
  OBVIOUS
<1> QED BY <1>1, PTL DEF Spec, ReadingSpec

\* And they hold of the daemon alone.
THEOREM EvidenceInvariant == Spec => []EvidenceInv
  BY ReadingInvariant, SpecIsRead, PTL

\* Every variable of the evidence model keeps its type.
THEOREM TypeOKHolds == Spec => []TypeOK
<1>1. EvidenceInv => TypeOK
  BY TypedIsTypeOK DEF EvidenceInv
<1> QED BY <1>1, EvidenceInvariant, PTL

\* The sequence numbers EventSequence.next hands out are strictly increasing along
\* events.ndjson, across restarts, failed appends and interrupted resets.
THEOREM SequencesIncreaseHolds == Spec => []SequencesIncrease
<1>1. EvidenceInv => SequencesIncrease
  BY DEF EvidenceInv
<1> QED BY <1>1, EvidenceInvariant, PTL

-----------------------------------------------------------------------------
(***************************************************************************)
(* Second, through crashes, failed writes and lost cursors: what is        *)
(* acknowledged stays, nothing is stored twice, no spool line is skipped,  *)
(* the id caches say what the files say, and the evidence of one epoch     *)
(* only grows.  All of it is limited, as in the code, to sessions without  *)
(* an interrupted reset.                                                   *)
(*                                                                         *)
(* The invariant has five layers, each resting on those before it:         *)
(*   FrameInv  which operation can be at which place, and what a reset     *)
(*             under way has already emptied;                              *)
(*   StoreInv  events, diagnostics and what the daemon remembers of them;  *)
(*   SpoolInv  the lines of a tick are lines of the spool, and those       *)
(*             before the place it has reached are stored;                 *)
(*   EpochInv  what a reader saw under the present epoch is still there;   *)
(*   RedactInv a stored event that was redacted has its diagnostic, or is  *)
(*             the one whose diagnostic is being written.                  *)
(***************************************************************************)

\* Which places belong to which operation.
Places ==
    /\ job.at = "clear" <=> job.kind = "reset"
    /\ job.at = "none" <=> job.kind = "none"
    /\ job.at = "cursor" => job.kind = "tick"
    /\ job.kind = "tick" => job.from = Spool /\ job.done <= Len(job.batch)

\* A reset has emptied the files it no longer lists, and the caches at once.
ResetClears ==
    InReset =>
        /\ knownEvents = {} /\ knownDiags = {} /\ acked = {}
        /\ "events" \notin job.todo => events = <<>>
        /\ "diagnostics" \notin job.todo => diagnostics = <<>>
        /\ "cursor" \notin job.todo => cursor = 0

\* No operation holds a removed session; writes are astray only of a torn reset.
Guards == (~present => Free) /\ (stray # {} => torn)

FrameInv == Places /\ ResetClears /\ Guards

\* A session begins without a job.
LEMMA InitFrameInv == Init => FrameInv
  BY DEF Init, FrameInv, Places, ResetClears, Guards, Idle, InReset, Free

\* The types of what a job keeps.
LEMMA JobIsTyped ==
  ASSUME EvidenceInv
  PROVE  /\ job \in Jobs /\ job.done \in Nat /\ job.base \in Nat
         /\ job.batch \in Seq(Contents) /\ Len(job.batch) \in Nat
         /\ job.todo \subseteq ResetFiles
         /\ job.kind \in JobKinds /\ job.at \in JobPlaces
<1>1. job \in Jobs
  BY DEF EvidenceInv, Typed, JobTyped
<1>2. job.batch \in Seq(Contents)
  BY <1>1 DEF Jobs
<1> QED BY <1>1, <1>2, LenProperties DEF Jobs

\* An operation at a record is a POST or a tick, on a session that is there.
LEMMA AtARecord ==
  ASSUME EvidenceInv, FrameInv, job.at \in {"record", "redacted"}
  PROVE  /\ job.kind \in {"http", "tick"} /\ ~InReset /\ present
         /\ job.done < Len(job.batch)
  BY DEF EvidenceInv, JobShape, FrameInv, Guards, InReset, Free

\* What a step that goes on to the next record makes of the operation.
LEMMA AdvanceMoves ==
  ASSUME EvidenceInv, FrameInv, job.at \in {"record", "redacted"},
         NEW reply \in {"202", "413"}, Advance(reply)
  PROVE  \/ job.kind = "http" /\ job' = Idle
         \/ /\ job.kind = "tick" /\ job'.kind = "tick" /\ job'.from = Spool
            /\ job'.base = job.base /\ job'.batch = job.batch
            /\ job'.done = job.done + 1
            /\ job'.at \in {"record", "cursor"}
<1>1. CASE job.kind = "http"
  BY <1>1 DEF Advance
<1>2. CASE job.kind = "tick"
  <2> DEFINE a == IF job.done + 1 = Len(job.batch) THEN "cursor" ELSE "record"
  <2>1. job' = [job EXCEPT !.done = job.done + 1, !.at = a] /\ a \in {"record", "cursor"}
    BY <1>2 DEF Advance
  <2>2. job.from = Spool
    BY <1>2 DEF FrameInv, Places
  <2> HIDE DEF a
  <2> QED BY <1>2, <2>1, <2>2, JobIsTyped DEF Jobs
<1> QED BY <1>1, <1>2, AtARecord

\* Going on to the next record leaves the job within its session.
LEMMA AdvanceFrames ==
  ASSUME EvidenceInv, FrameInv, job.at \in {"record", "redacted"},
         NEW reply \in {"202", "413"}, Advance(reply), UNCHANGED <<present, stray, torn>>
  PROVE  FrameInv'
<1>1. present /\ job.done < Len(job.batch)
  BY AtARecord
<1>2. CASE job' = Idle
  BY <1>1, <1>2 DEF FrameInv, Places, ResetClears, Guards, Idle, InReset, Free
<1>3. CASE /\ job'.kind = "tick" /\ job'.from = Spool /\ job'.batch = job.batch
           /\ job'.done = job.done + 1 /\ job'.at \in {"record", "cursor"}
  BY <1>1, <1>3, JobIsTyped DEF FrameInv, Places, ResetClears, Guards, InReset, Free
<1> QED BY <1>2, <1>3, AdvanceMoves

\* Every step keeps the job within its session, and a reset clearing what it says it clears.
LEMMA NextFrameInv ==
  ASSUME EvidenceInv, FrameInv, [Next \/ Read]_vars
  PROVE  FrameInv'
<1> USE DEF FrameInv, Guards
<1>1. ASSUME UNCHANGED <<job, present, stray, torn>>, ~InReset PROVE FrameInv'
  BY <1>1 DEF Places, ResetClears, InReset, Free
<1>2. ASSUME job' = Idle, present' => present, stray' # {} => torn' PROVE FrameInv'
  BY <1>2 DEF Places, ResetClears, Idle, InReset, Free
<1>3. ASSUME UNCHANGED <<job, present, stray, torn, knownEvents, knownDiags, acked, events,
                         diagnostics>>, cursor' \in {0, cursor} PROVE FrameInv'
  BY <1>3 DEF Places, ResetClears, InReset, Free
<1>4. CASE (\E what \in Contents : AppendToSpool(what)) \/ LoseCursor \/ UNCHANGED vars
  BY <1>3, <1>4 DEF AppendToSpool, LoseCursor, caches, vars, disk
<1>5. CASE Post
  <2>1. CASE \E c \in Clients : StartRequest(c) \/ TakeRecordTooLate(c)
    BY <1>3, <2>1 DEF StartRequest, TakeRecordTooLate, disk, caches
  <2>2. CASE \E c \in Clients, what \in Contents : TakeRecord(c, what)
    BY <2>2 DEF TakeRecord, disk, caches, Places, ResetClears, Idle, InReset, Free
  <2> QED BY <1>5, <2>1, <2>2 DEF Post
<1>6. CASE StartTick
  <2> PICK upto \in SpoolOffset + 1 .. Len(spool) :
          job' = [Idle EXCEPT !.kind = "tick", !.at = "record", !.base = SpoolOffset,
                              !.batch = SubSeq(spool, SpoolOffset + 1, upto)]
    BY <1>6 DEF StartTick
  <2>1. job'.kind = "tick" /\ job'.at = "record" /\ job'.from = Spool /\ job'.done = 0
    BY DEF Idle
  <2>2. job' \in Jobs
    BY NextEvidenceInv DEF EvidenceInv, Typed, JobTyped
  <2>3. job'.batch \in Seq(Contents)
    BY <2>2 DEF Jobs
  <2>4. Len(job'.batch) \in Nat
    BY <2>3, LenProperties
  <2>5. UNCHANGED <<present, stray, torn>> /\ present
    BY <1>6 DEF StartTick, disk
  <2>6. 0 <= Len(job'.batch)
    BY ONLY <2>4
  <2>7. Places'
    BY ONLY <2>1, <2>6 DEF Places
  <2>8. ResetClears' /\ Guards'
    BY <2>1, <2>5 DEF ResetClears, InReset
  <2> QED BY <2>7, <2>8
<1>7. CASE RewindCursor \/ Read
  BY <1>1, <1>7 DEF RewindCursor, Read, InReset, Free, disk
<1>8. CASE StoreCursor
  BY <1>2, <1>8 DEF StoreCursor
<1>9. CASE RejectRecord
  BY <1>9, AdvanceFrames DEF RejectRecord, AtRecord
<1>10. CASE AcceptKnown
  BY <1>10, AdvanceFrames DEF AcceptKnown, AtRecord, disk
<1>11. CASE AcceptNew
  <2>1. CASE HasDiagnostics(What)
    <3>1. job' = [job EXCEPT !.at = "redacted"] /\ job.at = "record"
      BY <1>11, <2>1 DEF AcceptNew, AtRecord
    <3>2. job'.kind = job.kind /\ job'.at = "redacted" /\ job'.from = job.from
          /\ job'.done = job.done /\ job'.batch = job.batch
      BY <3>1, JobIsTyped DEF Jobs
    <3> QED BY <1>11, <3>1, <3>2, AtARecord DEF AcceptNew, Places, ResetClears, InReset, Free
  <2>2. CASE ~HasDiagnostics(What)
    BY <1>11, <2>2, AdvanceFrames DEF AcceptNew, AtRecord
  <2> QED BY <2>1, <2>2
<1>12. CASE ReportRedaction
  BY <1>12, AdvanceFrames DEF ReportRedaction
<1>13. CASE StartReset
  BY <1>13 DEF StartReset, ClearedIds, disk, Places, ResetClears, Idle, InReset, Free,
               ResetFiles
<1>14. ASSUME NEW f \in ResetFiles, ClearFile(f) PROVE FrameInv'
  <2>1. InReset /\ job' = [job EXCEPT !.todo = job.todo \ {f}]
    BY <1>14 DEF ClearFile, Places, InReset
  <2>2. job'.kind = job.kind /\ job'.at = job.at /\ job'.todo = job.todo \ {f}
    BY <2>1, JobIsTyped DEF Jobs
  <2> QED BY <1>14, <2>1, <2>2
          DEF ClearFile, Clear, caches, Places, ResetClears, InReset, Free
<1>15. CASE PublishEpoch
  BY <1>2, <1>15 DEF PublishEpoch
<1>16. CASE RemoveSession
  BY <1>16 DEF RemoveSession, Places, ResetClears, InReset, Free
<1>17. CASE AppendFails \/ StoreCursorFails \/ PublishEpochFails \/ CrashAndRestart
  BY <1>2, <1>17 DEF AppendFails, StoreCursorFails, PublishEpochFails, CrashAndRestart,
                     Abort, disk
<1>18. ASSUME NEW f \in ResetFiles, ClearFileFails(f) PROVE FrameInv'
  BY <1>2, <1>18 DEF ClearFileFails, Abort, disk
<1>19. ASSUME NEW f \in ResetFiles, StrayWriteLands(f) PROVE FrameInv'
  BY <1>19 DEF StrayWriteLands, Clear, caches, Places, ResetClears, InReset, Free
<1> QED BY <1>4, <1>5, <1>6, <1>7, <1>8, <1>9, <1>10, <1>11, <1>12, <1>13, <1>14, <1>15,
           <1>16, <1>17, <1>18, <1>19
        DEF Next, Tick, Ingest, Reset, Faults

-----------------------------------------------------------------------------
(***************************************************************************)
(* Events, diagnostics, caches and acknowledgements.                       *)
(***************************************************************************)
Quiet == ~torn /\ ~InReset

\* Only stored events have redaction diagnostics.
RedactionsOfEvents == Quiet => DiagnosedFor("redacted") \subseteq EventIds

\* A redacted record awaits its diagnostic: its event is there, no diagnostic is.
AwaitsDiagnostic ==
    (~torn /\ job.at = "redacted") =>
        Valid(What) /\ RecordId \in EventIds /\ RecordId \notin DiagnosedFor("redacted")

StoreInv ==
    /\ NothingTwice /\ AckedIsDurable /\ CachesAreExact
    /\ RedactionsOfEvents /\ AwaitsDiagnostic

\* An element appended is one more.
LEMMA RangeOfAppend ==
  ASSUME NEW S, NEW s \in Seq(S), NEW e \in S
  PROVE  Range(Append(s, e)) = Range(s) \cup {e}
<1> DEFINE t == Append(s, e)
<1>1. /\ DOMAIN t = 1 .. Len(s) + 1 /\ DOMAIN s = 1 .. Len(s) /\ Len(s) \in Nat
      /\ t[Len(s) + 1] = e /\ \A i \in 1 .. Len(s) : t[i] = s[i]
  OBVIOUS
<1> HIDE DEF t
<1>2. \A i \in DOMAIN t : i \in DOMAIN s \/ i = Len(s) + 1
  BY <1>1
<1>3. \A i \in DOMAIN s : i \in DOMAIN t /\ t[i] = s[i]
  BY <1>1
<1>4. Len(s) + 1 \in DOMAIN t
  BY <1>1
<1>5. Range(t) = Range(s) \cup {e}
  BY <1>1, <1>2, <1>3, <1>4, Zenon DEF Range
<1> QED BY <1>5 DEF t

\* A step that only loads or forgets a cache, or acknowledges what is stored,
\* keeps everything in order.
LEMMA StoreLoaded ==
  ASSUME StoreInv, UNCHANGED <<events, diagnostics, torn>>, present' => present,
         InReset => InReset', job'.at # "redacted",
         knownEvents' \in {knownEvents, LoadedEvents, Unloaded},
         knownDiags' \in {knownDiags, LoadedDiags, Unloaded},
         acked' \subseteq acked \cup EventIds
  PROVE  StoreInv'
<1>1. EventIds' = EventIds
  BY DEF EventIds
<1>2. DiagnosedFor("redacted")' = DiagnosedFor("redacted")
      /\ DiagnosedFor("rejected")' = DiagnosedFor("rejected")
  BY DEF DiagnosedFor
<1>3. NothingTwice'
  BY DEF StoreInv, NothingTwice
<1>4. AckedIsDurable' /\ RedactionsOfEvents' /\ AwaitsDiagnostic'
  BY <1>1, <1>2 DEF StoreInv, AckedIsDurable, RedactionsOfEvents, AwaitsDiagnostic, Quiet
<1>5. CachesAreExact'
  BY <1>1, <1>2 DEF StoreInv, CachesAreExact, LoadedEvents, LoadedDiags
<1> QED BY <1>3, <1>4, <1>5 DEF StoreInv

\* After a torn reset nothing is claimed of the files.
LEMMA StoreTorn == ASSUME torn' PROVE StoreInv'
  BY DEF StoreInv, NothingTwice, AckedIsDurable, CachesAreExact, RedactionsOfEvents,
         AwaitsDiagnostic, Quiet

\* During a reset nothing is claimed but that no record is there twice.
LEMMA StoreInReset ==
  ASSUME StoreInv, InReset', torn' = torn, job'.at # "redacted",
         events' \in {events, <<>>}, diagnostics' \in {diagnostics, <<>>}
  PROVE  StoreInv'
<1>1. NothingTwice'
  BY DEF StoreInv, NothingTwice
<1> QED BY <1>1 DEF StoreInv, AckedIsDurable, CachesAreExact, RedactionsOfEvents,
                    AwaitsDiagnostic, Quiet

\* Of empty files everything claimed holds.
LEMMA StoreEmpty ==
  ASSUME events' = <<>>, diagnostics' = <<>>, acked' = {}, job'.at # "redacted",
         present' => knownEvents' = {} /\ knownDiags' = {}
  PROVE  StoreInv'
<1>1. EventIds' = {}
  BY DEF EventIds, Range
<1>2. DiagnosedFor("redacted")' = {} /\ DiagnosedFor("rejected")' = {}
  BY DEF DiagnosedFor, Range
<1>3. NothingTwice'
  BY DEF NothingTwice
<1> QED BY <1>1, <1>2, <1>3 DEF StoreInv, AckedIsDurable, CachesAreExact,
           RedactionsOfEvents, AwaitsDiagnostic, Quiet

\* An event appended is one more event.
LEMMA EventAdded ==
  ASSUME EvidenceInv, NEW id \in RecordIds, NEW n \in Nat,
         events' = Append(events, [id |-> id, seq |-> n])
  PROVE  EventIds' = EventIds \cup {id}
<1> DEFINE e == [id |-> id, seq |-> n]
<1>1. events \in Seq(EventRecords) /\ e \in EventRecords /\ e.id = id
  BY DEF EvidenceInv, Typed, FilesTyped, EventRecords
<1>2. events' = Append(events, e)
  OBVIOUS
<1> HIDE DEF e
<1>3. Range(events') = Range(events) \cup {e}
  BY <1>1, <1>2, RangeOfAppend
<1> QED BY <1>1, <1>3 DEF EventIds

\* A diagnostic appended is one more diagnostic, of its reason alone.
LEMMA DiagnosticAdded ==
  ASSUME EvidenceInv, NEW id \in RecordIds, NEW reason \in {"rejected", "redacted"},
         diagnostics' = Append(diagnostics, [about |-> id, reason |-> reason])
  PROVE  /\ DiagnosedFor(reason)' = DiagnosedFor(reason) \cup {id}
         /\ \A r : r # reason => DiagnosedFor(r)' = DiagnosedFor(r)
<1> DEFINE d == [about |-> id, reason |-> reason]
<1>1. diagnostics \in Seq(DiagnosticRecords) /\ d \in DiagnosticRecords
      /\ d.about = id /\ d.reason = reason
  BY DEF EvidenceInv, Typed, FilesTyped, DiagnosticRecords
<1>2. diagnostics' = Append(diagnostics, d)
  OBVIOUS
<1> HIDE DEF d
<1>3. Range(diagnostics') = Range(diagnostics) \cup {d}
  BY <1>1, <1>2, RangeOfAppend
<1>4. DiagnosedFor(reason)' = DiagnosedFor(reason) \cup {id}
  BY <1>1, <1>3 DEF DiagnosedFor
<1>5. ASSUME NEW r, r # reason PROVE DiagnosedFor(r)' = DiagnosedFor(r)
  BY <1>1, <1>3, <1>5 DEF DiagnosedFor
<1> QED BY <1>4, <1>5

\* An event is added under an id that had none, known to the cache from then on.
LEMMA StoreNewEvent ==
  ASSUME EvidenceInv, FrameInv, StoreInv, Quiet, present,
         NEW id \in RecordIds, NEW n \in Nat, id \notin EventIds,
         events' = Append(events, [id |-> id, seq |-> n]),
         diagnostics' = diagnostics, knownDiags' = knownDiags,
         knownEvents' = EventIds \cup {id}
  PROVE  /\ EventIds' = EventIds \cup {id}
         /\ DiagnosedFor("redacted")' = DiagnosedFor("redacted")
         /\ DiagnosedFor("redacted")' \subseteq EventIds
         /\ NothingTwice' /\ CachesAreExact'
<1> DEFINE e == [id |-> id, seq |-> n]
<1>1. events \in Seq(EventRecords) /\ e \in EventRecords /\ e.id = id
  BY DEF EvidenceInv, Typed, FilesTyped, EventRecords
<1>2. events' = Append(events, e)
  OBVIOUS
<1> HIDE DEF e
<1>4. EventIds' = EventIds \cup {id}
  BY EventAdded
<1>5. DiagnosedFor("redacted")' = DiagnosedFor("redacted")
      /\ DiagnosedFor("rejected")' = DiagnosedFor("rejected")
  BY DEF DiagnosedFor
<1>6. CachesAreExact'
  BY <1>4, <1>5 DEF StoreInv, CachesAreExact, Quiet
<1>7. \A i \in DOMAIN events : events[i].id # id
  BY DEF EventIds, Range
<1>8. /\ DOMAIN events' = 1 .. Len(events) + 1 /\ DOMAIN events = 1 .. Len(events)
      /\ Len(events) \in Nat /\ events'[Len(events) + 1] = e
      /\ \A i \in 1 .. Len(events) : events'[i] = events[i]
  BY <1>1, <1>2
<1>9. \A i, j \in DOMAIN events' : events'[i].id = events'[j].id => i = j
  BY <1>1, <1>7, <1>8 DEF StoreInv, NothingTwice, Quiet
<1>10. NothingTwice'
  BY <1>9 DEF StoreInv, NothingTwice, Quiet
<1>11. DiagnosedFor("redacted")' \subseteq EventIds
  BY <1>5 DEF StoreInv, RedactionsOfEvents
<1> QED BY <1>4, <1>5, <1>6, <1>10, <1>11

\* A diagnostic is added about a record that had none for that reason.
LEMMA StoreNewDiagnostic ==
  ASSUME EvidenceInv, FrameInv, StoreInv, Quiet, present,
         NEW id \in RecordIds, NEW reason \in {"rejected", "redacted"},
         id \notin DiagnosedFor(reason),
         diagnostics' = Append(diagnostics, [about |-> id, reason |-> reason]),
         events' = events
  PROVE  /\ EventIds' = EventIds
         /\ DiagnosedFor(reason)' = DiagnosedFor(reason) \cup {id}
         /\ \A r : r # reason => DiagnosedFor(r)' = DiagnosedFor(r)
         /\ NothingTwice'
<1> DEFINE d == [about |-> id, reason |-> reason]
<1>1. diagnostics \in Seq(DiagnosticRecords) /\ d \in DiagnosticRecords
      /\ d.about = id /\ d.reason = reason
  BY DEF EvidenceInv, Typed, FilesTyped, DiagnosticRecords
<1>2. diagnostics' = Append(diagnostics, d)
  OBVIOUS
<1>3. d \notin Range(diagnostics)
  BY <1>1 DEF DiagnosedFor
<1> HIDE DEF d
<1>7. \A i \in DOMAIN diagnostics : diagnostics[i] # d
  BY <1>3 DEF Range
<1>8. /\ DOMAIN diagnostics' = 1 .. Len(diagnostics) + 1
      /\ DOMAIN diagnostics = 1 .. Len(diagnostics)
      /\ Len(diagnostics) \in Nat /\ diagnostics'[Len(diagnostics) + 1] = d
      /\ \A i \in 1 .. Len(diagnostics) : diagnostics'[i] = diagnostics[i]
  BY <1>1, <1>2
<1>9. \A i, j \in DOMAIN diagnostics' : diagnostics'[i] = diagnostics'[j] => i = j
  BY <1>7, <1>8 DEF StoreInv, NothingTwice, Quiet
<1>10. NothingTwice'
  BY <1>9 DEF StoreInv, NothingTwice, Quiet
<1>11. EventIds' = EventIds
  BY DEF EventIds
<1> QED BY <1>10, <1>11, DiagnosticAdded

\* While no reset is torn, a record is worked on under exact caches.
LEMMA CachesAtARecord ==
  ASSUME EvidenceInv, FrameInv, StoreInv, job.at \in {"record", "redacted"}, ~torn
  PROVE  Quiet /\ present /\ LoadedEvents = EventIds /\ LoadedDiags = DiagnosedFor("rejected")
<1>1. Quiet /\ present
  BY AtARecord DEF Quiet
<1> QED BY <1>1 DEF StoreInv, CachesAreExact, Quiet, LoadedEvents, LoadedDiags

\* Going on to the next record leaves the session out of a reset.
LEMMA AdvanceLeaves ==
  ASSUME EvidenceInv, FrameInv, job.at \in {"record", "redacted"},
         NEW reply \in {"202", "413"}, Advance(reply)
  PROVE  job'.at \in {"none", "record", "cursor"} /\ ~InReset'
<1>1. CASE job' = Idle
  BY <1>1 DEF Idle, InReset
<1> QED BY <1>1, AdvanceMoves DEF InReset

\* A rejected record is stored once, and its cache knows it.
LEMMA RejectStores ==
  ASSUME EvidenceInv, FrameInv, StoreInv, RejectRecord
  PROVE  StoreInv'
<1>1. job.at = "record" /\ job'.at # "redacted" /\ ~InReset'
  BY AdvanceLeaves DEF RejectRecord, AtRecord
<1>2. CASE torn
  BY <1>2, StoreTorn DEF RejectRecord
<1>3. CASE ~torn
  <2>1. Quiet /\ present /\ LoadedDiags = DiagnosedFor("rejected") /\ RecordId \in RecordIds
    BY <1>1, <1>3, CachesAtARecord, RecordTyped
  <2>2. /\ knownDiags' = LoadedDiags \cup {RecordId}
        /\ UNCHANGED <<present, events, knownEvents, acked, torn>>
    BY DEF RejectRecord
  <2>3. CASE RecordId \in LoadedDiags
    <3>1. diagnostics' = diagnostics /\ knownDiags' = LoadedDiags
      BY <2>2, <2>3 DEF RejectRecord
    <3> QED BY <1>1, <2>1, <2>2, <3>1, StoreLoaded DEF Quiet
  <2>4. CASE RecordId \notin LoadedDiags
    <3>1. diagnostics' = Append(diagnostics, [about |-> RecordId, reason |-> "rejected"])
      BY <2>4 DEF RejectRecord
    <3>2. /\ EventIds' = EventIds /\ NothingTwice'
          /\ DiagnosedFor("rejected")' = DiagnosedFor("rejected") \cup {RecordId}
          /\ DiagnosedFor("redacted")' = DiagnosedFor("redacted")
      BY <2>1, <2>2, <2>4, <3>1, StoreNewDiagnostic
    <3>3. CachesAreExact'
      BY <2>1, <2>2, <3>2 DEF StoreInv, CachesAreExact, Quiet
    <3> QED BY <1>1, <2>1, <2>2, <3>2, <3>3 DEF StoreInv, AckedIsDurable,
               RedactionsOfEvents, AwaitsDiagnostic, Quiet
  <2> QED BY <2>3, <2>4
<1> QED BY <1>2, <1>3

\* An accepted record is stored once, and its cache knows it.
LEMMA AcceptStores ==
  ASSUME EvidenceInv, FrameInv, StoreInv, AcceptNew
  PROVE  StoreInv'
<1>1. CASE torn
  BY <1>1, StoreTorn DEF AcceptNew
<1>2. CASE ~torn
  <2>1. job.at = "record"
    BY DEF AcceptNew, AtRecord
  <2>2. Quiet /\ present /\ LoadedEvents = EventIds /\ RecordId \in RecordIds
        /\ NextSeq \in Nat
    BY <1>2, <2>1, CachesAtARecord, RecordTyped, NextSeqIsLarger
  <2>3. /\ RecordId \notin EventIds
        /\ events' = Append(events, [id |-> RecordId, seq |-> NextSeq])
        /\ diagnostics' = diagnostics /\ knownDiags' = knownDiags
        /\ knownEvents' = EventIds \cup {RecordId}
        /\ torn' = torn /\ acked' \subseteq acked \cup {RecordId}
    BY <2>2 DEF AcceptNew
  <2>4. /\ EventIds' = EventIds \cup {RecordId}
        /\ DiagnosedFor("redacted")' = DiagnosedFor("redacted")
        /\ DiagnosedFor("redacted")' \subseteq EventIds
        /\ NothingTwice' /\ CachesAreExact'
    BY <2>2, <2>3, StoreNewEvent
  <2>5. AckedIsDurable' /\ RedactionsOfEvents'
    BY <2>2, <2>3, <2>4 DEF StoreInv, AckedIsDurable, RedactionsOfEvents, Quiet
  <2>6. AwaitsDiagnostic'
    <3>1. CASE HasDiagnostics(What)
      <4>1. job' = [job EXCEPT !.at = "redacted"]
        BY <3>1 DEF AcceptNew
      <4>2. /\ job'.from = job.from /\ job'.base = job.base /\ job'.done = job.done
            /\ job'.batch = job.batch
        BY <4>1, JobIsTyped DEF Jobs
      <4>3. RecordId' = RecordId /\ Valid(What)' = Valid(What) /\ Valid(What)
        BY <4>2 DEF RecordId, What, Valid, AcceptNew
      <4> QED BY <2>3, <2>4, <4>3 DEF AwaitsDiagnostic
    <3>2. CASE ~HasDiagnostics(What)
      <4>1. job'.at # "redacted"
        BY <2>1, <3>2, AdvanceLeaves DEF AcceptNew
      <4> QED BY <4>1 DEF AwaitsDiagnostic
    <3> QED BY <3>1, <3>2
  <2> QED BY <2>4, <2>5, <2>6 DEF StoreInv
<1> QED BY <1>1, <1>2

\* A redaction is reported once.
LEMMA ReportStores ==
  ASSUME EvidenceInv, FrameInv, StoreInv, ReportRedaction
  PROVE  StoreInv'
<1>1. job.at = "redacted" /\ job'.at # "redacted" /\ ~InReset'
  BY AdvanceLeaves DEF ReportRedaction
<1>2. CASE torn
  BY <1>2, StoreTorn DEF ReportRedaction
<1>3. CASE ~torn
  <2>1. /\ Quiet /\ present /\ LoadedDiags = DiagnosedFor("rejected")
        /\ RecordId \in RecordIds
    BY <1>1, <1>3, CachesAtARecord, RecordTyped
  <2>2. RecordId \in EventIds /\ RecordId \notin DiagnosedFor("redacted")
    BY <1>1, <1>3 DEF StoreInv, AwaitsDiagnostic
  <2>3. /\ diagnostics' = Append(diagnostics, [about |-> RecordId, reason |-> "redacted"])
        /\ knownDiags' = LoadedDiags /\ acked' = acked \cup {RecordId}
        /\ UNCHANGED <<present, events, knownEvents, torn>>
    BY DEF ReportRedaction
  <2>4. /\ EventIds' = EventIds /\ NothingTwice'
        /\ DiagnosedFor("redacted")' = DiagnosedFor("redacted") \cup {RecordId}
        /\ DiagnosedFor("rejected")' = DiagnosedFor("rejected")
    BY <2>1, <2>2, <2>3, StoreNewDiagnostic
  <2>5. CachesAreExact'
    BY <2>1, <2>3, <2>4 DEF StoreInv, CachesAreExact, Quiet
  <2>6. AckedIsDurable' /\ RedactionsOfEvents'
    BY <2>1, <2>2, <2>3, <2>4 DEF StoreInv, AckedIsDurable, RedactionsOfEvents, Quiet
  <2> QED BY <1>1, <2>4, <2>5, <2>6 DEF StoreInv, AwaitsDiagnostic
<1> QED BY <1>2, <1>3

\* A session begins with exact caches of empty files.
LEMMA InitStoreInv == Init => StoreInv
<1> SUFFICES ASSUME Init PROVE StoreInv
  OBVIOUS
<1>1. EventIds = {} /\ \A r : DiagnosedFor(r) = {}
  BY DEF Init, EventIds, DiagnosedFor, Range
<1>2. NothingTwice
  BY DEF Init, NothingTwice
<1> QED BY <1>1, <1>2 DEF Init, StoreInv, AckedIsDurable, CachesAreExact,
           RedactionsOfEvents, AwaitsDiagnostic, Idle

\* Every step keeps the caches exact and stores nothing twice.
LEMMA NextStoreInv ==
  ASSUME EvidenceInv, FrameInv, StoreInv, [Next \/ Read]_vars
  PROVE  StoreInv'
<1>1. ASSUME UNCHANGED <<events, diagnostics, torn, caches, acked>>, present' => present,
             InReset => InReset', job'.at # "redacted"
      PROVE StoreInv'
  BY <1>1, StoreLoaded DEF caches
<1>2. ASSUME UNCHANGED <<job, present, events, diagnostics, torn, caches, acked>>
      PROVE StoreInv'
  <2>1. UNCHANGED <<EventIds, RecordId, What>> /\ \A r : DiagnosedFor(r)' = DiagnosedFor(r)
    BY <1>2 DEF EventIds, DiagnosedFor, RecordId, What
  <2>2. NothingTwice'
    BY <1>2 DEF StoreInv, NothingTwice
  <2> QED BY <1>2, <2>1, <2>2 DEF StoreInv, AckedIsDurable, CachesAreExact,
             RedactionsOfEvents, AwaitsDiagnostic, Quiet, InReset, caches
<1>3. CASE (\E what \in Contents : AppendToSpool(what)) \/ LoseCursor \/ RewindCursor
           \/ Read \/ UNCHANGED vars
  BY <1>2, <1>3 DEF AppendToSpool, LoseCursor, RewindCursor, Read, vars, disk
<1>4. CASE Post
  <2>1. CASE \E c \in Clients : StartRequest(c) \/ TakeRecordTooLate(c)
    BY <1>2, <2>1 DEF StartRequest, TakeRecordTooLate, disk
  <2>2. CASE \E c \in Clients, what \in Contents : TakeRecord(c, what)
    <3>1. job'.at = "record" /\ ~InReset
      BY <2>2 DEF TakeRecord, Idle, Free, InReset
    <3> QED BY <1>1, <2>2, <3>1 DEF TakeRecord, disk
  <2> QED BY <1>4, <2>1, <2>2 DEF Post
<1>5. CASE StartTick
  <2>1. job'.at = "record" /\ ~InReset
    BY <1>5 DEF StartTick, Idle, Free, InReset
  <2> QED BY <1>1, <1>5, <2>1 DEF StartTick, disk
<1>6. CASE StoreCursor
  <2>1. job'.at # "redacted" /\ ~InReset
    BY <1>6 DEF StoreCursor, Idle, FrameInv, Places, InReset
  <2> QED BY <1>1, <1>6, <2>1 DEF StoreCursor
<1>7. CASE StoreCursorFails
  <2>1. job'.at # "redacted" /\ ~InReset
    BY <1>7 DEF StoreCursorFails, Abort, Idle, FrameInv, Places, InReset
  <2> QED BY <1>1, <1>7, <2>1 DEF StoreCursorFails, disk
<1>8. CASE RejectRecord \/ AcceptNew \/ ReportRedaction
  BY <1>8, RejectStores, AcceptStores, ReportStores
<1>9. CASE AcceptKnown
  <2>1. job.at = "record" /\ job'.at # "redacted" /\ ~InReset
    BY <1>9, AdvanceLeaves, AtARecord DEF AcceptKnown, AtRecord
  <2>2. CASE torn
    BY <1>9, <2>2, StoreTorn DEF AcceptKnown
  <2>3. CASE ~torn
    <3>1. RecordId \in EventIds
      BY <1>9, <2>1, <2>3, CachesAtARecord DEF AcceptKnown
    <3>2. /\ UNCHANGED <<events, diagnostics, torn, present, knownDiags>>
          /\ knownEvents' = LoadedEvents /\ acked' = acked \cup {RecordId}
      BY <1>9 DEF AcceptKnown, disk
    <3> QED BY <2>1, <3>1, <3>2, StoreLoaded
  <2> QED BY <2>2, <2>3
<1>10. CASE StartReset
  <2>1. job'.kind = "reset" /\ job'.at = "clear"
    BY <1>10 DEF StartReset, Idle
  <2> QED BY <1>10, <2>1, StoreInReset DEF StartReset, disk, InReset
<1>11. ASSUME NEW f \in ResetFiles, ClearFile(f) PROVE StoreInv'
  <2>1. InReset /\ job.at = "clear" /\ job' = [job EXCEPT !.todo = job.todo \ {f}]
    BY <1>11 DEF ClearFile, FrameInv, Places, InReset
  <2>2. InReset' /\ job'.at # "redacted"
    BY <2>1, JobIsTyped DEF Jobs, InReset
  <2> QED BY <1>11, <2>2, StoreInReset DEF ClearFile, Clear
<1>12. CASE PublishEpoch
  <2>1. CASE torn'
    BY <2>1, StoreTorn
  <2>2. CASE ~torn'
    <3>1. InReset /\ job.todo = {}
      BY <1>12 DEF PublishEpoch, FrameInv, Places, InReset
    <3>2. events = <<>> /\ diagnostics = <<>> /\ acked = {}
          /\ knownEvents = {} /\ knownDiags = {}
      BY <3>1 DEF FrameInv, ResetClears
    <3>3. job'.at # "redacted"
      BY <1>12 DEF PublishEpoch, Idle
    <3> QED BY <1>12, <3>2, <3>3, StoreEmpty DEF PublishEpoch
  <2> QED BY <2>1, <2>2
<1>13. CASE RemoveSession
  <2>1. job'.at # "redacted"
    BY <1>13 DEF RemoveSession, FrameInv, Places, Free
  <2> QED BY <1>13, <2>1, StoreEmpty DEF RemoveSession
<1>14. CASE AppendFails
  <2>1. job.at \in {"record", "redacted"} /\ job'.at # "redacted"
    BY <1>14 DEF AppendFails, AtRecord, Abort, Idle
  <2>2. ~InReset
    BY <2>1, AtARecord
  <2>3. /\ UNCHANGED <<events, diagnostics, torn, present, acked>>
        /\ knownEvents' \in {knownEvents, LoadedEvents}
        /\ knownDiags' \in {knownDiags, LoadedDiags}
    BY <1>14 DEF AppendFails, IdsAfterFailure, disk
  <2> QED BY <2>1, <2>2, <2>3, StoreLoaded
<1>15. CASE PublishEpochFails \/ \E f \in ResetFiles : ClearFileFails(f)
  BY <1>15, StoreTorn DEF PublishEpochFails, ClearFileFails
<1>16. CASE CrashAndRestart
  <2>1. CASE torn'
    BY <2>1, StoreTorn
  <2>2. CASE ~torn'
    <3>1. ~InReset /\ torn' = torn /\ job'.at # "redacted"
      BY <1>16, <2>2 DEF CrashAndRestart, InReset, Idle, EvidenceInv, Typed, HistoryTyped
    <3>2. /\ UNCHANGED <<events, diagnostics, present, acked>>
          /\ knownEvents' = Unloaded /\ knownDiags' = Unloaded
      BY <1>16 DEF CrashAndRestart, disk
    <3> QED BY <3>1, <3>2, StoreLoaded
  <2> QED BY <2>1, <2>2
<1>17. ASSUME NEW f \in ResetFiles, StrayWriteLands(f) PROVE StoreInv'
  <2>1. torn'
    BY <1>17 DEF StrayWriteLands, FrameInv, Guards
  <2> QED BY <2>1, StoreTorn
<1> QED BY <1>3, <1>4, <1>5, <1>6, <1>7, <1>8, <1>9, <1>10, <1>11, <1>12, <1>13, <1>14,
           <1>15, <1>16, <1>17
        DEF Next, Tick, Ingest, Reset, Faults

-----------------------------------------------------------------------------
(***************************************************************************)
(* The spool and its cursor.                                               *)
(***************************************************************************)

\* A tick works on lines of the spool, in order, and has stored those behind it.
TickReads ==
    (job.kind = "tick" /\ ~torn) =>
        /\ job.base + Len(job.batch) <= Len(spool)
        /\ \A k \in 1 .. Len(job.batch) : job.batch[k] = spool[job.base + k]
        /\ \A i \in 1 .. job.base + job.done : Handled(i)

SpoolInv == NoRecordSkipped /\ TickReads

\* A record of the spool that was handled stays handled.
LEMMA HandledStays ==
  ASSUME NEW i, Handled(i), spool'[i] = spool[i], EventIds \subseteq EventIds',
         DiagnosedFor("rejected") \subseteq DiagnosedFor("rejected")'
  PROVE  Handled(i)'
  BY DEF Handled, Valid

\* The types of the spool and its cursor.
LEMMA SpoolTyped ==
  ASSUME EvidenceInv
  PROVE  spool \in Seq(Contents) /\ Len(spool) \in Nat /\ cursor \in Nat
<1>1. spool \in Seq(Contents) /\ cursor \in Nat
  BY DEF EvidenceInv, Typed, FilesTyped, NumbersTyped
<1> QED BY <1>1, LenProperties

\* During a reset, or after a torn one, nothing is claimed of the cursor.
LEMMA SpoolVoid == ASSUME torn' \/ InReset' PROVE SpoolInv'
  BY DEF SpoolInv, NoRecordSkipped, TickReads, InReset

\* A cursor at the front has passed nothing.
LEMMA SpoolRestarts ==
  ASSUME EvidenceInv', cursor' = 0, job'.kind # "tick"
  PROVE  SpoolInv'
<1>1. Len(spool') \in Nat
  BY LenProperties DEF EvidenceInv, Typed, FilesTyped
<1> QED BY <1>1 DEF SpoolInv, NoRecordSkipped, TickReads

\* What stores more and moves no cursor forward passes nothing.
LEMMA SpoolKept ==
  ASSUME EvidenceInv, SpoolInv, spool' = spool, cursor' \in {0, cursor},
         Quiet' => Quiet, ~torn' => ~torn,
         job'.kind = "tick" => /\ job.kind = "tick" /\ job'.base = job.base
                               /\ job'.batch = job.batch /\ job'.done = job.done,
         EventIds \subseteq EventIds',
         DiagnosedFor("rejected") \subseteq DiagnosedFor("rejected")'
  PROVE  SpoolInv'
<1>1. \A i : Handled(i) => Handled(i)'
  BY HandledStays
<1>2. NoRecordSkipped'
  BY <1>1, SpoolTyped DEF SpoolInv, NoRecordSkipped, Quiet
<1>3. TickReads'
  BY <1>1 DEF SpoolInv, TickReads
<1> QED BY <1>2, <1>3 DEF SpoolInv

\* A record written to the end of the spool is behind the cursor's reach.
LEMMA SpoolGrows ==
  ASSUME EvidenceInv, FrameInv, SpoolInv, NEW what \in Contents, AppendToSpool(what)
  PROVE  SpoolInv'
<1>1. /\ spool' = Append(spool, what)
      /\ UNCHANGED <<events, diagnostics, cursor, job, torn>>
  BY DEF AppendToSpool
<1>2. UNCHANGED <<EventIds, DiagnosedFor("rejected")>>
  BY <1>1 DEF EventIds, DiagnosedFor
<1>3. Len(spool') = Len(spool) + 1 /\ \A i \in 1 .. Len(spool) : spool'[i] = spool[i]
  BY <1>1, SpoolTyped
<1>4. \A i \in 1 .. Len(spool) : Handled(i) => Handled(i)'
  BY <1>2, <1>3, HandledStays
<1>5. NoRecordSkipped'
  BY <1>1, <1>3, <1>4, SpoolTyped DEF SpoolInv, NoRecordSkipped, InReset
<1>6. ASSUME job.kind = "tick", ~torn
      PROVE  /\ job.base + Len(job.batch) <= Len(spool')
             /\ \A k \in 1 .. Len(job.batch) : job.batch[k] = spool'[job.base + k]
             /\ \A i \in 1 .. job.base + job.done : Handled(i)'
  <2>1. /\ job.base + Len(job.batch) <= Len(spool) /\ job.done <= Len(job.batch)
        /\ \A k \in 1 .. Len(job.batch) : job.batch[k] = spool[job.base + k]
        /\ \A i \in 1 .. job.base + job.done : Handled(i)
    BY <1>6 DEF SpoolInv, TickReads, FrameInv, Places
  <2>2. /\ \A k \in 1 .. Len(job.batch) : job.base + k \in 1 .. Len(spool)
        /\ \A i \in 1 .. job.base + job.done : i \in 1 .. Len(spool)
    BY <2>1, SpoolTyped, JobIsTyped
  <2>3. job.base + Len(job.batch) <= Len(spool')
    BY <1>3, <2>1, SpoolTyped, JobIsTyped
  <2>4. \A k \in 1 .. Len(job.batch) : job.batch[k] = spool'[job.base + k]
    BY ONLY <1>3, <2>1, <2>2
  <2>5. \A i \in 1 .. job.base + job.done : Handled(i)'
    BY ONLY <1>4, <2>1, <2>2
  <2> QED BY <2>3, <2>4, <2>5
<1>7. TickReads'
  BY <1>1, <1>6 DEF TickReads
<1> QED BY <1>5, <1>7 DEF SpoolInv

\* A tick reads what comes behind the cursor.
LEMMA TickStarts ==
  ASSUME EvidenceInv, SpoolInv, StartTick
  PROVE  SpoolInv'
<1>1. CASE torn
  BY <1>1, SpoolVoid DEF StartTick
<1>2. CASE ~torn
  <2>1. /\ SpoolOffset = cursor /\ cursor <= Len(spool)
        /\ \A i \in 1 .. cursor : Handled(i)
    BY <1>2 DEF StartTick, SpoolInv, NoRecordSkipped, InReset, Free, SpoolOffset
  <2>2. PICK upto \in cursor + 1 .. Len(spool) :
           job' = [Idle EXCEPT !.kind = "tick", !.at = "record", !.base = cursor,
                               !.batch = SubSeq(spool, cursor + 1, upto)]
    BY <2>1 DEF StartTick
  <2>3. UNCHANGED <<spool, cursor, events, diagnostics, torn>>
    BY DEF StartTick, disk
  <2>4. UNCHANGED <<EventIds, DiagnosedFor("rejected")>>
    BY <2>3 DEF EventIds, DiagnosedFor
  <2>5. \A i : Handled(i) => Handled(i)'
    BY <2>3, <2>4, HandledStays
  <2>6. NoRecordSkipped'
    BY <2>1, <2>3, <2>5 DEF NoRecordSkipped
  <2>7. job'.base = cursor /\ job'.done = 0 /\ job'.batch = SubSeq(spool, cursor + 1, upto)
    BY <2>2 DEF Idle
  <2>8. /\ Len(job'.batch) = upto - cursor
        /\ \A k \in 1 .. upto - cursor : job'.batch[k] = spool[cursor + k]
    BY <2>2, <2>7, SpoolTyped
  <2>9. TickReads'
    BY <2>1, <2>3, <2>5, <2>7, <2>8, SpoolTyped DEF TickReads
  <2> QED BY <2>6, <2>9 DEF SpoolInv
<1> QED BY <1>1, <1>2

\* A tick goes on to its next line when the one it was at is stored.
LEMMA TickAdvances ==
  ASSUME EvidenceInv, FrameInv, SpoolInv, ~torn, job.at \in {"record", "redacted"},
         NEW reply \in {"202", "413"}, Advance(reply), UNCHANGED <<spool, cursor, torn>>,
         EventIds \subseteq EventIds',
         DiagnosedFor("rejected") \subseteq DiagnosedFor("rejected")',
         IF Valid(What) THEN RecordId \in EventIds'
         ELSE RecordId \in DiagnosedFor("rejected")'
  PROVE  SpoolInv'
<1>1. CASE job' = Idle
  <2>1. job'.kind # "tick" /\ (Quiet' => Quiet)
    BY <1>1, AtARecord DEF Idle, Quiet
  <2> QED BY <2>1, SpoolKept
<1>2. CASE /\ job.kind = "tick" /\ job'.kind = "tick"
           /\ job'.base = job.base /\ job'.batch = job.batch /\ job'.done = job.done + 1
  <2> PICK n \in Nat : n = job.base + job.done + 1
    BY JobIsTyped
  <2>1. /\ job.base + Len(job.batch) <= Len(spool)
        /\ \A k \in 1 .. Len(job.batch) : job.batch[k] = spool[job.base + k]
        /\ \A i \in 1 .. job.base + job.done : Handled(i)
    BY <1>2 DEF SpoolInv, TickReads
  <2>2. job.done + 1 \in 1 .. Len(job.batch) /\ job.from = Spool
    BY <1>2, AtARecord, JobIsTyped DEF FrameInv, Places
  <2>3. What = spool[job.base + (job.done + 1)]
    BY <2>1, <2>2 DEF What
  <2>4. /\ job.base + (job.done + 1) = n /\ job.base + job.done = n - 1
        /\ \A i \in 1 .. n : i \in 1 .. job.base + job.done \/ i = n
    BY JobIsTyped
  <2>5. job'.base + job'.done = n
    BY <1>2, JobIsTyped
  <2>6. RecordId = [from |-> Spool, at |-> n - 1, what |-> spool'[n]] /\ What = spool'[n]
    BY <2>2, <2>3, <2>4 DEF RecordId
  <2>7. Handled(n)'
    BY <2>6 DEF Handled, Valid
  <2>8. \A i : Handled(i) => Handled(i)'
    BY HandledStays
  <2>9. ASSUME NEW i \in 1 .. n PROVE Handled(i)'
    <3>1. CASE i \in 1 .. job.base + job.done
      BY <2>1, <2>8, <3>1
    <3>2. CASE i = n
      BY <2>7, <3>2
    <3> QED BY <2>4, <3>1, <3>2
  <2>10. TickReads'
    BY <1>2, <2>1, <2>5, <2>9 DEF TickReads
  <2>11. NoRecordSkipped'
    BY <2>8, AtARecord DEF SpoolInv, NoRecordSkipped
  <2> QED BY <2>10, <2>11 DEF SpoolInv
<1> QED BY <1>1, <1>2, AdvanceMoves

\* Each record a tick goes past has been handled.
LEMMA IngestKeepsSpool ==
  ASSUME EvidenceInv, FrameInv, StoreInv, SpoolInv, Ingest
  PROVE  SpoolInv'
<1>1. CASE torn
  BY <1>1, SpoolVoid DEF Ingest, RejectRecord, AcceptKnown, AcceptNew, ReportRedaction
<1>2. ASSUME ~torn, RejectRecord PROVE SpoolInv'
  <2>1. /\ job.at = "record" /\ ~Valid(What) /\ UNCHANGED <<events, spool, cursor, torn>>
        /\ \E reply \in {"202", "413"} : Advance(reply)
    BY <1>2 DEF RejectRecord, AtRecord
  <2>2. LoadedDiags = DiagnosedFor("rejected") /\ RecordId \in RecordIds
    BY <1>2, <2>1, CachesAtARecord, RecordTyped
  <2>3. DiagnosedFor("rejected")' = DiagnosedFor("rejected") \cup {RecordId}
    <3>1. CASE RecordId \in LoadedDiags
      <4>1. diagnostics' = diagnostics
        BY <1>2, <3>1 DEF RejectRecord
      <4> QED BY <2>2, <3>1, <4>1 DEF DiagnosedFor
    <3>2. CASE RecordId \notin LoadedDiags
      <4>1. diagnostics' = Append(diagnostics, [about |-> RecordId, reason |-> "rejected"])
        BY <1>2, <3>2 DEF RejectRecord
      <4> QED BY <2>2, <4>1, DiagnosticAdded
    <3> QED BY <3>1, <3>2
  <2>4. EventIds' = EventIds
    BY <2>1 DEF EventIds
  <2> QED BY <1>2, <2>1, <2>3, <2>4, TickAdvances
<1>3. ASSUME ~torn, AcceptKnown PROVE SpoolInv'
  <2>1. /\ job.at = "record" /\ Valid(What) /\ RecordId \in LoadedEvents
        /\ UNCHANGED <<events, diagnostics, spool, cursor, torn>> /\ Advance("202")
    BY <1>3 DEF AcceptKnown, AtRecord, disk
  <2>2. RecordId \in EventIds
    BY <1>3, <2>1, CachesAtARecord
  <2>3. EventIds' = EventIds /\ DiagnosedFor("rejected")' = DiagnosedFor("rejected")
    BY <2>1 DEF EventIds, DiagnosedFor
  <2> QED BY <1>3, <2>1, <2>2, <2>3, TickAdvances
<1>4. ASSUME ~torn, AcceptNew PROVE SpoolInv'
  <2>1. /\ job.at = "record" /\ Valid(What)
        /\ events' = Append(events, [id |-> RecordId, seq |-> NextSeq])
        /\ UNCHANGED <<diagnostics, spool, cursor, torn>>
    BY <1>4 DEF AcceptNew, AtRecord
  <2>2. EventIds' = EventIds \cup {RecordId}
    BY <2>1, RecordTyped, NextSeqIsLarger, EventAdded
  <2>3. DiagnosedFor("rejected")' = DiagnosedFor("rejected")
    BY <2>1 DEF DiagnosedFor
  <2>4. CASE HasDiagnostics(What)
    <3>1. job' = [job EXCEPT !.at = "redacted"]
      BY <1>4, <2>4 DEF AcceptNew
    <3>2. job'.kind = job.kind /\ job'.base = job.base /\ job'.done = job.done
          /\ job'.batch = job.batch
      BY <3>1, JobIsTyped DEF Jobs
    <3>3. Quiet' => Quiet
      BY <2>1, <3>2 DEF Quiet, InReset
    <3> QED BY <2>1, <2>2, <2>3, <3>2, <3>3, SpoolKept
  <2>5. CASE ~HasDiagnostics(What)
    BY <1>4, <2>1, <2>2, <2>3, <2>5, TickAdvances DEF AcceptNew
  <2> QED BY <2>4, <2>5
<1>5. ASSUME ~torn, ReportRedaction PROVE SpoolInv'
  <2>1. /\ job.at = "redacted" /\ UNCHANGED <<events, spool, cursor, torn>> /\ Advance("202")
        /\ diagnostics' = Append(diagnostics, [about |-> RecordId, reason |-> "redacted"])
    BY <1>5 DEF ReportRedaction
  <2>2. Valid(What) /\ RecordId \in EventIds
    BY <1>5, <2>1 DEF StoreInv, AwaitsDiagnostic
  <2>3. EventIds' = EventIds
    BY <2>1 DEF EventIds
  <2>4. DiagnosedFor("rejected")' = DiagnosedFor("rejected")
    BY <2>1, RecordTyped, DiagnosticAdded
  <2> QED BY <1>5, <2>1, <2>2, <2>3, <2>4, TickAdvances
<1> QED BY <1>1, <1>2, <1>3, <1>4, <1>5 DEF Ingest

\* A session begins with an empty spool.
LEMMA InitSpoolInv == Init => SpoolInv
  BY DEF Init, SpoolInv, NoRecordSkipped, TickReads, Idle

\* Every step keeps the cursor behind what was handled.
LEMMA NextSpoolInv ==
  ASSUME EvidenceInv, FrameInv, StoreInv, SpoolInv, [Next \/ Read]_vars
  PROVE  SpoolInv'
<1>1. ASSUME UNCHANGED <<events, diagnostics, spool, torn>>, cursor' \in {0, cursor},
             ~InReset \/ InReset', job' = job \/ job'.kind # "tick"
      PROVE SpoolInv'
  <2>1. EventIds' = EventIds /\ DiagnosedFor("rejected")' = DiagnosedFor("rejected")
    BY <1>1 DEF EventIds, DiagnosedFor
  <2>2. (Quiet' => Quiet) /\ (~torn' => ~torn)
    BY <1>1 DEF Quiet
  <2> QED BY <1>1, <2>1, <2>2, SpoolKept
<1>2. CASE \E what \in Contents : AppendToSpool(what)
  BY <1>2, SpoolGrows
<1>3. CASE Post
  <2>1. CASE \E c \in Clients : StartRequest(c) \/ TakeRecordTooLate(c)
    BY <1>1, <2>1 DEF StartRequest, TakeRecordTooLate, disk, Free, InReset
  <2>2. CASE \E c \in Clients, what \in Contents : TakeRecord(c, what)
    <3>1. job'.kind = "http" /\ ~InReset
      BY <2>2 DEF TakeRecord, Idle, Free, InReset
    <3> QED BY <1>1, <2>2, <3>1 DEF TakeRecord, disk
  <2> QED BY <1>3, <2>1, <2>2 DEF Post
<1>4. CASE StartTick
  BY <1>4, TickStarts
<1>5. CASE RewindCursor
  <2>1. cursor' \in {0, cursor}
    BY <1>5 DEF RewindCursor, SpoolOffset
  <2> QED BY <1>1, <1>5, <2>1 DEF RewindCursor, Free, InReset
<1>6. CASE StoreCursor
  <2>1. CASE torn
    BY <1>6, <2>1, SpoolVoid DEF StoreCursor
  <2>2. CASE ~torn
    <3>1. job.kind = "tick" /\ job.done <= Len(job.batch)
      BY <1>6 DEF StoreCursor, FrameInv, Places
    <3>2. /\ job.base + Len(job.batch) <= Len(spool)
          /\ \A i \in 1 .. job.base + job.done : Handled(i)
      BY <2>2, <3>1 DEF SpoolInv, TickReads
    <3>3. /\ UNCHANGED <<spool, events, diagnostics>>
          /\ cursor' = job.base + job.done /\ job'.kind = "none"
      BY <1>6 DEF StoreCursor, EndOfBatch, Idle
    <3>4. EventIds' = EventIds /\ DiagnosedFor("rejected")' = DiagnosedFor("rejected")
      BY <3>3 DEF EventIds, DiagnosedFor
    <3>5. \A i : Handled(i) => Handled(i)'
      BY <3>3, <3>4, HandledStays
    <3>6. cursor' <= Len(spool')
      BY <3>1, <3>2, <3>3, JobIsTyped, SpoolTyped
    <3> QED BY <3>2, <3>3, <3>5, <3>6 DEF SpoolInv, NoRecordSkipped, TickReads
  <2> QED BY <2>1, <2>2
<1>7. CASE Ingest
  BY <1>7, IngestKeepsSpool
<1>8. CASE StartReset
  <2>1. InReset'
    BY <1>8 DEF StartReset, InReset, Idle
  <2> QED BY <2>1, SpoolVoid
<1>9. ASSUME NEW f \in ResetFiles, ClearFile(f) PROVE SpoolInv'
  <2>1. InReset /\ job' = [job EXCEPT !.todo = job.todo \ {f}]
    BY <1>9 DEF ClearFile, FrameInv, Places, InReset
  <2>2. InReset'
    BY <2>1, JobIsTyped DEF Jobs, InReset
  <2> QED BY <2>2, SpoolVoid
<1>10. CASE PublishEpoch
  <2>1. InReset /\ job.todo = {}
    BY <1>10 DEF PublishEpoch, FrameInv, Places, InReset
  <2>2. cursor' = 0
    BY <1>10, <2>1 DEF PublishEpoch, FrameInv, ResetClears
  <2>3. job'.kind # "tick"
    BY <1>10 DEF PublishEpoch, Idle
  <2> QED BY <2>2, <2>3, NextEvidenceInv, SpoolRestarts
<1>11. CASE RemoveSession
  <2>1. job'.kind # "tick"
    BY <1>11 DEF RemoveSession, Free
  <2> QED BY <1>11, <2>1, NextEvidenceInv, SpoolRestarts DEF RemoveSession
<1>12. CASE AppendFails \/ StoreCursorFails
  <2>1. ~InReset
    BY <1>12, AtARecord DEF AppendFails, StoreCursorFails, AtRecord, FrameInv, Places, InReset
  <2>2. job'.kind # "tick"
    BY <1>12 DEF AppendFails, StoreCursorFails, Abort, Idle
  <2> QED BY <1>1, <1>12, <2>1, <2>2 DEF AppendFails, StoreCursorFails, disk
<1>13. CASE LoseCursor \/ Read \/ UNCHANGED vars
  BY <1>1, <1>13 DEF LoseCursor, Read, InReset, vars, disk
<1>14. CASE PublishEpochFails \/ \E f \in ResetFiles : ClearFileFails(f)
  BY <1>14, SpoolVoid DEF PublishEpochFails, ClearFileFails
<1>15. CASE CrashAndRestart
  <2>1. CASE torn'
    BY <2>1, SpoolVoid
  <2>2. CASE ~torn'
    <3>1. ~InReset /\ torn' = torn /\ job'.kind # "tick"
      BY <1>15, <2>2 DEF CrashAndRestart, InReset, Idle, EvidenceInv, Typed, HistoryTyped
    <3> QED BY <1>1, <1>15, <3>1 DEF CrashAndRestart, disk
  <2> QED BY <2>1, <2>2
<1>16. ASSUME NEW f \in ResetFiles, StrayWriteLands(f) PROVE SpoolInv'
  <2>1. torn'
    BY <1>16 DEF StrayWriteLands, FrameInv, Guards
  <2> QED BY <2>1, SpoolVoid
<1> QED BY <1>2, <1>3, <1>4, <1>5, <1>6, <1>7, <1>8, <1>9, <1>10, <1>11, <1>12, <1>13,
           <1>14, <1>15, <1>16
        DEF Next, Tick, Reset, Faults

-----------------------------------------------------------------------------
(***************************************************************************)
(* The epoch a reader remembers.                                           *)
(***************************************************************************)
ShownIsKept ==
    (Quiet /\ present /\ shown.epoch = epoch) =>
        /\ Len(shown.events) <= Len(events)
        /\ \A i \in 1 .. Len(shown.events) : shown.events[i] = events[i]

EpochInv == shown.epoch <= epoch /\ ShownIsKept

\* The types of the evidence and of what was shown of it.
LEMMA EpochTyped ==
  ASSUME EvidenceInv
  PROVE  /\ epoch \in Nat /\ shown.epoch \in Nat
         /\ events \in Seq(EventRecords) /\ Len(events) \in Nat
         /\ shown.events \in Seq(EventRecords) /\ Len(shown.events) \in Nat
<1>1. /\ epoch \in Nat /\ shown.epoch \in Nat
      /\ events \in Seq(EventRecords) /\ shown.events \in Seq(EventRecords)
  BY DEF EvidenceInv, Typed, FilesTyped, NumbersTyped, HistoryTyped
<1> QED BY <1>1, LenProperties

\* At first nothing has been shown.
LEMMA InitEpochInv == Init => EpochInv
  BY DEF Init, EpochInv, ShownIsKept

\* What only appends keeps what was shown.
LEMMA EpochKept ==
  ASSUME EvidenceInv, EpochInv, UNCHANGED <<shown, epoch>>, Quiet' => Quiet,
         present' => present,
         events' = events \/ \E e \in EventRecords : events' = Append(events, e)
  PROVE  EpochInv'
<1>1. Len(events) <= Len(events') /\ \A i \in 1 .. Len(events) : events'[i] = events[i]
  <2>1. CASE events' = events
    BY <2>1, EpochTyped
  <2>2. CASE \E e \in EventRecords : events' = Append(events, e)
    BY <2>2, EpochTyped
  <2> QED BY <2>1, <2>2
<1>2. Len(events') \in Nat
  <2>1. CASE events' = events
    BY <2>1, EpochTyped
  <2>2. CASE \E e \in EventRecords : events' = Append(events, e)
    BY <2>2, EpochTyped
  <2> QED BY <2>1, <2>2
<1>3. ShownIsKept'
  <2> SUFFICES ASSUME Quiet', present', shown.epoch = epoch
               PROVE  /\ Len(shown.events) <= Len(events')
                      /\ \A i \in 1 .. Len(shown.events) : shown.events[i] = events'[i]
    BY DEF ShownIsKept
  <2>1. /\ Len(shown.events) <= Len(events)
        /\ \A i \in 1 .. Len(shown.events) : shown.events[i] = events[i]
    BY DEF EpochInv, ShownIsKept
  <2>2. \A i \in 1 .. Len(shown.events) : i \in 1 .. Len(events)
    BY <2>1, EpochTyped
  <2> QED BY <1>1, <1>2, <2>1, <2>2, EpochTyped
<1> QED BY <1>3 DEF EpochInv

\* During a reset, and without a session, nothing is claimed of what was shown.
LEMMA EpochVoid ==
  ASSUME EpochInv, UNCHANGED <<shown, epoch>>, torn' \/ InReset' \/ ~present'
  PROVE  EpochInv'
  BY DEF EpochInv, ShownIsKept, Quiet

\* Every step keeps, under one epoch, what was shown at the front of the events.
LEMMA NextEpochInv ==
  ASSUME EvidenceInv, FrameInv, EpochInv, [Next \/ Read]_vars
  PROVE  EpochInv'
<1>1. ASSUME UNCHANGED <<events, shown, epoch, torn>>, present' => present,
             ~InReset \/ InReset'
      PROVE EpochInv'
  BY <1>1, EpochKept DEF Quiet
<1>2. CASE (\E what \in Contents : AppendToSpool(what)) \/ LoseCursor \/ RewindCursor
           \/ UNCHANGED vars
  BY <1>1, <1>2 DEF AppendToSpool, LoseCursor, RewindCursor, vars, disk, InReset
<1>3. CASE Post \/ StartTick
  BY <1>1, <1>3 DEF Post, StartRequest, TakeRecord, TakeRecordTooLate, StartTick, disk,
                    Free, InReset
<1>4. CASE StoreCursor \/ StoreCursorFails
  <2>1. ~InReset
    BY <1>4 DEF StoreCursor, StoreCursorFails, FrameInv, Places, InReset
  <2> QED BY <1>1, <1>4, <2>1 DEF StoreCursor, StoreCursorFails, disk
<1>5. CASE Ingest \/ AppendFails
  <2>1. ~InReset
    BY <1>5, AtARecord DEF Ingest, RejectRecord, AcceptKnown, AcceptNew, ReportRedaction,
                           AppendFails, AtRecord
  <2>2. CASE AcceptNew
    <3>1. [id |-> RecordId, seq |-> NextSeq] \in EventRecords
      BY <2>2, RecordTyped, NextSeqIsLarger DEF AcceptNew, AtRecord, EventRecords
    <3>2. /\ UNCHANGED <<shown, epoch, present, torn>>
          /\ events' = Append(events, [id |-> RecordId, seq |-> NextSeq])
      BY <2>2 DEF AcceptNew
    <3> QED BY <2>1, <3>1, <3>2, EpochKept DEF Quiet
  <2>3. CASE RejectRecord \/ AcceptKnown \/ ReportRedaction \/ AppendFails
    BY <1>1, <2>1, <2>3 DEF RejectRecord, AcceptKnown, ReportRedaction, AppendFails, disk
  <2> QED BY <1>5, <2>2, <2>3 DEF Ingest
<1>6. CASE StartReset
  <2>1. InReset'
    BY <1>6 DEF StartReset, InReset, Idle
  <2> QED BY <1>6, <2>1, EpochVoid DEF StartReset, disk
<1>7. ASSUME NEW f \in ResetFiles, ClearFile(f) PROVE EpochInv'
  <2>1. InReset /\ job' = [job EXCEPT !.todo = job.todo \ {f}]
    BY <1>7 DEF ClearFile, FrameInv, Places, InReset
  <2>2. InReset'
    BY <2>1, JobIsTyped DEF Jobs, InReset
  <2> QED BY <1>7, <2>2, EpochVoid DEF ClearFile
<1>8. CASE PublishEpoch
  <2>1. epoch' = epoch + 1 /\ shown' = shown
    BY <1>8 DEF PublishEpoch, NextEpoch
  <2> QED BY <2>1, EpochTyped DEF EpochInv, ShownIsKept
<1>9. CASE RemoveSession
  BY <1>9, EpochVoid DEF RemoveSession
<1>10. CASE Read
  <2>1. /\ shown'.epoch = epoch /\ epoch' = epoch
        /\ shown'.events = events /\ events' = events
    BY <1>10 DEF Read, disk
  <2> QED BY <2>1, EpochTyped DEF EpochInv, ShownIsKept
<1>11. CASE PublishEpochFails \/ \E f \in ResetFiles : ClearFileFails(f)
  BY <1>11, EpochVoid DEF PublishEpochFails, ClearFileFails, disk
<1>12. CASE CrashAndRestart
  <2>1. CASE torn'
    BY <1>12, <2>1, EpochVoid DEF CrashAndRestart, disk
  <2>2. CASE ~torn'
    <3>1. ~InReset /\ torn' = torn
      BY <1>12, <2>2 DEF CrashAndRestart, InReset, EvidenceInv, Typed, HistoryTyped
    <3> QED BY <1>1, <1>12, <3>1 DEF CrashAndRestart, disk
  <2> QED BY <2>1, <2>2
<1>13. ASSUME NEW f \in ResetFiles, StrayWriteLands(f) PROVE EpochInv'
  <2>1. torn'
    BY <1>13 DEF StrayWriteLands, FrameInv, Guards
  <2> QED BY <1>13, <2>1, EpochVoid DEF StrayWriteLands
<1> QED BY <1>2, <1>3, <1>4, <1>5, <1>6, <1>7, <1>8, <1>9, <1>10, <1>11, <1>12, <1>13
        DEF Next, Tick, Reset, Faults

-----------------------------------------------------------------------------
DurabilityInv == EvidenceInv /\ FrameInv /\ StoreInv /\ SpoolInv /\ EpochInv

\* The four layers hold together, with or without a reader beside the daemon.
THEOREM DurabilityInvariant == ReadingSpec => []DurabilityInv
<1>1. Init => DurabilityInv
  BY InitEvidenceInv, InitFrameInv, InitStoreInv, InitSpoolInv, InitEpochInv
     DEF DurabilityInv
<1>2. DurabilityInv /\ [Next \/ Read]_vars => DurabilityInv'
  BY NextEvidenceInv, NextFrameInv, NextStoreInv, NextSpoolInv, NextEpochInv
     DEF DurabilityInv
<1> QED BY <1>1, <1>2, PTL DEF ReadingSpec

\* A record reported accepted is in events.ndjson and stays there until a reset
\* or a clean, through any number of crashes and failed writes.
THEOREM AckedIsDurableHolds == Spec => []AckedIsDurable
<1>1. DurabilityInv => AckedIsDurable
  BY DEF DurabilityInv, StoreInv
<1> QED BY <1>1, DurabilityInvariant, SpecIsRead, PTL

\* The id caches of EventStore and DiagnosticStore, when loaded, hold exactly
\* the ids in the files.
THEOREM CachesAreExactHolds == Spec => []CachesAreExact
<1>1. DurabilityInv => CachesAreExact
  BY DEF DurabilityInv, StoreInv
<1> QED BY <1>1, DurabilityInvariant, SpecIsRead, PTL

\* However often the observer replays the spool after a crash, a failed write or
\* a lost cursor, no event and no diagnostic is stored twice.
THEOREM NothingTwiceHolds == Spec => []NothingTwice
<1>1. DurabilityInv => NothingTwice
  BY DEF DurabilityInv, StoreInv
<1> QED BY <1>1, DurabilityInvariant, SpecIsRead, PTL

\* Every line the observer's cursor has passed has left an event or a diagnostic.
THEOREM NoRecordSkippedHolds == Spec => []NoRecordSkipped
<1>1. DurabilityInv => NoRecordSkipped
  BY DEF DurabilityInv, SpoolInv
<1> QED BY <1>1, DurabilityInvariant, SpecIsRead, PTL

\* What a reader saw is a prefix of the events that are there under its epoch.
LEMMA ShownIsPrefix ==
  ASSUME DurabilityInv, ~torn
  PROVE  EpochPinsEvidence
<1> SUFFICES ASSUME Free, present, shown.epoch = epoch
             PROVE  IsPrefix(shown.events, events)
  BY DEF EpochPinsEvidence
<1> DEFINE s == shown.events
<1> DEFINE t == events
<1>1. Len(s) <= Len(t) /\ \A i \in 1 .. Len(s) : s[i] = t[i]
  BY DEF DurabilityInv, EpochInv, ShownIsKept, Quiet, InReset, Free
<1>2. /\ s \in Seq(EventRecords) /\ Len(s) \in Nat
      /\ t \in Seq(EventRecords) /\ Len(t) \in Nat
  BY EpochTyped DEF DurabilityInv
<1> HIDE DEF s, t
<1>3. \A i \in 1 .. Len(s) : s[i] \in EventRecords /\ t[i] \in EventRecords
  BY <1>1, <1>2, ElementOfSeq
<1>4. /\ SubSeq(s, 1, Len(s)) \in Seq(EventRecords)
      /\ Len(SubSeq(s, 1, Len(s))) = Len(s)
      /\ \A i \in 1 .. Len(s) : SubSeq(s, 1, Len(s))[i] = s[i]
  BY <1>2
<1>5. /\ SubSeq(t, 1, Len(s)) \in Seq(EventRecords)
      /\ Len(SubSeq(t, 1, Len(s))) = Len(s)
      /\ \A i \in 1 .. Len(s) : SubSeq(t, 1, Len(s))[i] = t[i]
  BY <1>1, <1>2, <1>3
<1>6. SubSeq(s, 1, Len(s)) = SubSeq(t, 1, Len(s))
  BY <1>1, <1>4, <1>5, SeqEqual
<1>7. IsPrefix(s, t)
  BY <1>1, <1>6 DEF IsPrefix
<1> QED BY <1>7 DEF s, t

\* The evidence a reader saw under an epoch is a prefix of what is there under
\* the same epoch, unless a reset was interrupted: the run reset_crash shows
\* that this last condition cannot be dropped.
THEOREM EpochPinsEvidenceUnlessTorn == ReadingSpec => [](~torn => EpochPinsEvidence)
<1>1. DurabilityInv => (~torn => EpochPinsEvidence)
  BY ShownIsPrefix
<1> QED BY <1>1, DurabilityInvariant, PTL

-----------------------------------------------------------------------------
(***************************************************************************)
(* The diagnostics of redacted records.  They are a second write, after    *)
(* the event: when that write fails, or the daemon dies before it, the     *)
(* event stays without a diagnostic and is later acknowledged all the      *)
(* same, as the run redaction_crash shows.  Nothing else makes it so.      *)
(***************************************************************************)
RedactionLost == job.at = "redacted" /\ (AppendFails \/ CrashAndRestart)

RedactingSpec == Init /\ [][(Next \/ Read) /\ ~RedactionLost]_vars

\* A stored event whose content was redacted has its diagnostic, or is the one
\* whose diagnostic is being written and which nobody was told of yet.
RedactInv ==
    Quiet =>
        /\ \A id \in EventIds : Kind[id.what] = "secret" =>
              id \in DiagnosedFor("redacted") \/ (job.at = "redacted" /\ id = RecordId)
        /\ job.at = "redacted" => RecordId \notin acked

\* What leaves the files alone leaves the redactions reported.
LEMMA RedactKept ==
  ASSUME RedactInv, UNCHANGED <<events, diagnostics>>, Quiet' => Quiet,
         \/ UNCHANGED <<job, acked>>
         \/ job.at # "redacted" /\ job'.at # "redacted"
  PROVE  RedactInv'
<1>1. EventIds' = EventIds /\ DiagnosedFor("redacted")' = DiagnosedFor("redacted")
  BY DEF EventIds, DiagnosedFor
<1>2. job' = job => RecordId' = RecordId
  BY DEF RecordId, What
<1> QED BY <1>1, <1>2 DEF RedactInv

\* Without events, or during a reset, there is nothing to report.
LEMMA RedactVoid ==
  ASSUME torn' \/ InReset' \/ (events' = <<>> /\ job'.at # "redacted")
  PROVE  RedactInv'
<1>1. events' = <<>> => EventIds' = {}
  BY DEF EventIds, Range
<1> QED BY <1>1 DEF RedactInv, Quiet

\* A session begins without redactions.
LEMMA RedactInitially == Init => RedactInv
<1> SUFFICES ASSUME Init PROVE RedactInv
  OBVIOUS
<1>1. EventIds = {} /\ job.at = "none"
  BY DEF Init, EventIds, Range, Idle
<1> QED BY <1>1 DEF RedactInv

\* Every step but the two that lose a report keeps the redactions reported.
LEMMA NextRedactInv ==
  ASSUME EvidenceInv, FrameInv, StoreInv, RedactInv, [(Next \/ Read) /\ ~RedactionLost]_vars
  PROVE  RedactInv'
<1>1. CASE (\E what \in Contents : AppendToSpool(what)) \/ LoseCursor \/ RewindCursor
           \/ Read \/ UNCHANGED vars
  BY <1>1, RedactKept
     DEF AppendToSpool, LoseCursor, RewindCursor, Read, vars, disk, Quiet, InReset
<1>2. CASE Post
  <2>1. CASE \E c \in Clients : StartRequest(c) \/ TakeRecordTooLate(c)
    BY <2>1, RedactKept DEF StartRequest, TakeRecordTooLate, disk, Quiet, InReset
  <2>2. CASE \E c \in Clients, what \in Contents : TakeRecord(c, what)
    <3>1. job.at # "redacted" /\ job'.at = "record" /\ ~InReset
      BY <2>2 DEF TakeRecord, Idle, Free, InReset, FrameInv, Places
    <3> QED BY <2>2, <3>1, RedactKept DEF TakeRecord, disk, Quiet
  <2> QED BY <1>2, <2>1, <2>2 DEF Post
<1>3. CASE StartTick
  <2>1. job.at # "redacted" /\ job'.at = "record" /\ ~InReset
    BY <1>3 DEF StartTick, Idle, Free, InReset, FrameInv, Places
  <2> QED BY <1>3, <2>1, RedactKept DEF StartTick, disk, Quiet
<1>4. CASE StoreCursor \/ StoreCursorFails
  <2>1. job.at # "redacted" /\ job'.at # "redacted" /\ ~InReset
    BY <1>4 DEF StoreCursor, StoreCursorFails, Abort, Idle, FrameInv, Places, InReset
  <2> QED BY <1>4, <2>1, RedactKept DEF StoreCursor, StoreCursorFails, disk, Quiet
<1>5. CASE RejectRecord \/ AcceptKnown
  <2>1. job.at = "record" /\ job'.at # "redacted" /\ ~InReset
    BY <1>5, AdvanceLeaves, AtARecord DEF RejectRecord, AcceptKnown, AtRecord
  <2>2. CASE diagnostics' = diagnostics
    BY <1>5, <2>1, <2>2, RedactKept DEF RejectRecord, AcceptKnown, Quiet, disk
  <2>3. CASE diagnostics' = Append(diagnostics, [about |-> RecordId, reason |-> "rejected"])
    <3>1. DiagnosedFor("redacted")' = DiagnosedFor("redacted")
      BY <2>1, <2>3, RecordTyped, DiagnosticAdded
    <3>2. EventIds' = EventIds /\ torn' = torn
      BY <1>5 DEF RejectRecord, AcceptKnown, EventIds, disk
    <3> QED BY <2>1, <3>1, <3>2 DEF RedactInv, Quiet
  <2> QED BY <1>5, <2>2, <2>3 DEF RejectRecord, AcceptKnown, disk
<1>6. ASSUME ~torn, AcceptNew PROVE RedactInv'
  <2>1. job.at = "record"
    BY <1>6 DEF AcceptNew, AtRecord
  <2>2. Quiet /\ LoadedEvents = EventIds /\ RecordId \in RecordIds /\ NextSeq \in Nat
    BY <1>6, <2>1, CachesAtARecord, RecordTyped, NextSeqIsLarger
  <2>3. /\ RecordId \notin EventIds /\ acked \subseteq EventIds
        /\ EventIds' = EventIds \cup {RecordId}
    BY <1>6, <2>2, EventAdded DEF AcceptNew, StoreInv, AckedIsDurable, Quiet
  <2>4. DiagnosedFor("redacted")' = DiagnosedFor("redacted")
    BY <1>6 DEF AcceptNew, DiagnosedFor
  <2>5. CASE HasDiagnostics(What)
    <3>1. job' = [job EXCEPT !.at = "redacted"] /\ acked' = acked
      BY <1>6, <2>5 DEF AcceptNew
    <3>2. /\ job'.from = job.from /\ job'.base = job.base /\ job'.done = job.done
          /\ job'.batch = job.batch /\ job'.at = "redacted"
      BY <3>1, JobIsTyped DEF Jobs
    <3>3. RecordId' = RecordId
      BY <3>2 DEF RecordId, What
    <3> QED BY <2>1, <2>2, <2>3, <2>4, <3>1, <3>2, <3>3 DEF RedactInv
  <2>6. CASE ~HasDiagnostics(What)
    <3>1. job'.at # "redacted"
      BY <1>6, <2>1, <2>6, AdvanceLeaves DEF AcceptNew
    <3>2. Kind[RecordId.what] # "secret"
      BY <2>6 DEF HasDiagnostics, RecordId
    <3> QED BY <2>1, <2>2, <2>3, <2>4, <3>1, <3>2 DEF RedactInv
  <2> QED BY <2>5, <2>6
<1>7. ASSUME ~torn, ReportRedaction PROVE RedactInv'
  <2>1. job.at = "redacted" /\ job'.at # "redacted"
    BY <1>7, AdvanceLeaves DEF ReportRedaction
  <2>2. Quiet /\ RecordId \in RecordIds
    BY <1>7, <2>1, CachesAtARecord, RecordTyped
  <2>3. DiagnosedFor("redacted")' = DiagnosedFor("redacted") \cup {RecordId}
    BY <1>7, <2>2, DiagnosticAdded DEF ReportRedaction
  <2>4. EventIds' = EventIds
    BY <1>7 DEF ReportRedaction, EventIds
  <2> QED BY <2>1, <2>2, <2>3, <2>4 DEF RedactInv
<1>8. CASE torn /\ (AcceptNew \/ ReportRedaction)
  BY <1>8, RedactVoid DEF AcceptNew, ReportRedaction
<1>9. CASE StartReset
  <2>1. InReset'
    BY <1>9 DEF StartReset, InReset, Idle
  <2> QED BY <2>1, RedactVoid
<1>10. ASSUME NEW f \in ResetFiles, ClearFile(f) PROVE RedactInv'
  <2>1. InReset /\ job' = [job EXCEPT !.todo = job.todo \ {f}]
    BY <1>10 DEF ClearFile, FrameInv, Places, InReset
  <2>2. InReset'
    BY <2>1, JobIsTyped DEF Jobs, InReset
  <2> QED BY <2>2, RedactVoid
<1>11. CASE PublishEpoch
  <2>1. events' = <<>> /\ job'.at # "redacted"
    BY <1>11 DEF PublishEpoch, FrameInv, Places, ResetClears, InReset, Idle
  <2> QED BY <2>1, RedactVoid
<1>12. CASE RemoveSession
  <2>1. events' = <<>> /\ job'.at # "redacted"
    BY <1>12 DEF RemoveSession, FrameInv, Places, Free
  <2> QED BY <2>1, RedactVoid
<1>13. CASE PublishEpochFails \/ \E f \in ResetFiles : ClearFileFails(f)
  BY <1>13, RedactVoid DEF PublishEpochFails, ClearFileFails
<1>14. ASSUME job.at # "redacted", AppendFails \/ CrashAndRestart PROVE RedactInv'
  <2>1. CASE torn'
    BY <2>1, RedactVoid
  <2>2. CASE ~torn'
    <3>1. job'.at # "redacted"
      BY <1>14 DEF AppendFails, CrashAndRestart, Abort, Idle
    <3>2. AppendFails => ~InReset /\ torn' = torn
      BY <1>14, AtARecord DEF AppendFails, AtRecord
    <3>3. CrashAndRestart => ~InReset /\ torn' = torn
      BY <2>2 DEF CrashAndRestart, InReset, EvidenceInv, Typed, HistoryTyped
    <3> QED BY <1>14, <3>1, <3>2, <3>3, RedactKept DEF AppendFails, CrashAndRestart, disk, Quiet
  <2> QED BY <2>1, <2>2
<1>15. ASSUME NEW f \in ResetFiles, StrayWriteLands(f) PROVE RedactInv'
  <2>1. torn'
    BY <1>15 DEF StrayWriteLands, FrameInv, Guards
  <2> QED BY <2>1, RedactVoid
<1> QED BY <1>1, <1>2, <1>3, <1>4, <1>5, <1>6, <1>7, <1>8, <1>9, <1>10, <1>11, <1>12, <1>13,
           <1>14, <1>15
        DEF Next, Tick, Ingest, Reset, Faults, RedactionLost

\* Whoever is told that a redacted record was accepted finds its SECRET_REDACTED
\* diagnostic.
LEMMA AckedIsReported ==
  ASSUME StoreInv, RedactInv
  PROVE  RedactionIsReported
  BY DEF StoreInv, AckedIsDurable, RedactInv, RedactionIsReported, Quiet

\* Every redaction that was acknowledged is reported, through any crash, failed
\* write and reset but one between a record's event and its diagnostic.
THEOREM RedactionIsReportedUnlessLost == RedactingSpec => []RedactionIsReported
<1>1. Init => DurabilityInv /\ RedactInv
  <2>1. Init => RedactInv
    BY RedactInitially
  <2> QED BY <2>1, InitEvidenceInv, InitFrameInv, InitStoreInv, InitSpoolInv, InitEpochInv
          DEF DurabilityInv
<1>2. DurabilityInv /\ RedactInv /\ [(Next \/ Read) /\ ~RedactionLost]_vars
      => DurabilityInv' /\ RedactInv'
  BY NextEvidenceInv, NextFrameInv, NextStoreInv, NextSpoolInv, NextEpochInv, NextRedactInv
     DEF DurabilityInv
<1>3. DurabilityInv /\ RedactInv => RedactionIsReported
  BY AckedIsReported DEF DurabilityInv
<1> QED BY <1>1, <1>2, <1>3, PTL DEF RedactingSpec
=============================================================================
