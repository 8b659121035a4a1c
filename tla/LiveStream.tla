----------------------------- MODULE LiveStream -----------------------------
(***************************************************************************)
(* The live event streams of a daemon, and what they mean for its idle     *)
(* shutdown: GET /v1/events/<session> (ControlApi.handle) as it is served  *)
(* by the HTTP server (startDaemonServer, writeWebResponse) under a lease  *)
(* of the ActivityTracker.                                                 *)
(*                                                                         *)
(* Two loops serve a stream.  The source polls events.ndjson and enqueues  *)
(* what it has not sent yet, remembering the last sequence number; nothing *)
(* slows it down.  The writer takes chunks from that queue and writes them *)
(* to the connection; under back pressure it waits for the client.  The    *)
(* writer holds the lease.  While it waits for a chunk it does not notice  *)
(* that the client is gone: the source does, at its next poll.             *)
(*                                                                         *)
(* Of the session a stream shows, what matters here is how many events it  *)
(* has, how often it was reset, and whether it is still there.             *)
(***************************************************************************)
EXTENDS ActivityTracker, Sequences

CONSTANTS
    MaxEvents,   \* events in a cycle of the session
    MaxResets    \* resets of the session

ASSUME StreamAssumption == MaxEvents \in Nat /\ MaxResets \in Nat

\* A stream has the name of the lease it takes.
VARIABLES
    present,      \* the session exists
    cycle,        \* how often it was reset
    log,          \* the sequence numbers in events.ndjson are 1 .. log
    conn,         \* the connection of each stream
    source,       \* the ReadableStream of each
    writer,       \* the request handler of each, up to writeWebResponse's end
    chunks,       \* what the source enqueued and the writer has not taken
    lastSequence, \* of each source
    seen          \* history: what was written to the client, with its cycle

sessionVars == <<present, cycle, log>>
streamVars == <<conn, source, writer, chunks, lastSequence, seen>>

StreamInit ==
    /\ Init
    /\ present = TRUE
    /\ cycle = 0
    /\ log = 0
    /\ conn = [l \in Leases |-> "none"]
    /\ source = [l \in Leases |-> "none"]
    /\ writer = [l \in Leases |-> "none"]
    /\ chunks = [l \in Leases |-> <<>>]
    /\ lastSequence = [l \in Leases |-> 0]
    /\ seen = [l \in Leases |-> <<>>]

Connected == {l \in Leases : conn[l] = "open"}

-----------------------------------------------------------------------------
(***************************************************************************)
(* The session, as other requests and the spool change it.                 *)
(***************************************************************************)
AddEvent ==
    /\ present
    /\ log < MaxEvents
    /\ log' = log + 1
    /\ UNCHANGED <<vars, streamVars, present, cycle>>

\* Sequence numbers start over.
ResetSession ==
    /\ present
    /\ cycle < MaxResets
    /\ cycle' = cycle + 1
    /\ log' = 0
    /\ UNCHANGED <<vars, streamVars, present>>

RemoveSession ==
    /\ present
    /\ present' = FALSE
    /\ log' = 0
    /\ UNCHANGED <<vars, streamVars, cycle>>

-----------------------------------------------------------------------------
(***************************************************************************)
(* A stream.                                                               *)
(***************************************************************************)

\* The request arrives; as every request it touches the tracker.
Request(l) ==
    /\ conn[l] = "none"
    /\ Touch
    /\ conn' = [conn EXCEPT ![l] = "open"]
    /\ writer' = [writer EXCEPT ![l] = "handling"]
    /\ UNCHANGED <<sessionVars, source, chunks, lastSequence, seen>>

\* The handler finds the session, starts the source and takes the lease, a void
\* one if the tracker stopped meanwhile.
OpenStream(l) ==
    /\ writer[l] = "handling"
    /\ present
    /\ IF stopped THEN UNCHANGED vars ELSE Acquire(l)
    /\ source' = [source EXCEPT ![l] = "polling"]
    /\ writer' = [writer EXCEPT ![l] = "reading"]
    /\ UNCHANGED <<sessionVars, conn, chunks, lastSequence, seen>>

RefuseStream(l) ==
    /\ writer[l] = "handling"
    /\ ~present
    /\ writer' = [writer EXCEPT ![l] = "done"]
    /\ conn' = [conn EXCEPT ![l] = "closed"]
    /\ UNCHANGED <<vars, sessionVars, source, chunks, lastSequence, seen>>

\* Mistake: the source does not look at the request's abort signal.
NeverAborted(l) == FALSE

\* request.signal: the connection was closed, by either side.
Aborted(l) == conn[l] = "closed"

\* Mistake: a source that does not remember what it has sent.
UnsentFromStart(l) == [i \in 1 .. log |-> [cycle |-> cycle, seq |-> i]]

\* The events the source finds beyond lastSequence.
Unsent(l) ==
    [i \in 1 .. AtLeast(log - lastSequence[l], 0) |->
        [cycle |-> cycle, seq |-> lastSequence[l] + i]]

\* Mistake: after an empty read the source takes the next event for sent.
ReachedWhenEmpty(l) == IF log = lastSequence[l] THEN log + 1 ELSE AtLeast(log, lastSequence[l])

\* The sequence number up to which it has sent them then.
Reached(l) == AtLeast(log, lastSequence[l])

\* One turn of the source: it ends when the request was aborted, and fails,
\* dropping what is queued, when the events cannot be read.
Poll(l) ==
    /\ source[l] = "polling"
    /\ IF Aborted(l)
       THEN source' = [source EXCEPT ![l] = "closed"] /\ UNCHANGED <<chunks, lastSequence>>
       ELSE IF ~present
       THEN /\ source' = [source EXCEPT ![l] = "errored"]
            /\ chunks' = [chunks EXCEPT ![l] = <<>>]
            /\ UNCHANGED lastSequence
       ELSE /\ chunks' = [chunks EXCEPT ![l] = @ \o Unsent(l)]
            /\ lastSequence' = [lastSequence EXCEPT ![l] = Reached(l)]
            /\ UNCHANGED source
    /\ UNCHANGED <<vars, sessionVars, conn, writer, seen>>

\* The writer takes a chunk; the connection may ask it to wait.
WriteChunk(l) ==
    /\ writer[l] = "reading"
    /\ conn[l] = "open"
    /\ chunks[l] # <<>>
    /\ seen' = [seen EXCEPT ![l] = Append(@, Head(chunks[l]))]
    /\ chunks' = [chunks EXCEPT ![l] = Tail(@)]
    /\ \E next \in {"reading", "blocked"} : writer' = [writer EXCEPT ![l] = next]
    /\ UNCHANGED <<vars, sessionVars, conn, source, lastSequence>>

\* The client has read on: waitForDrainOrDisconnect resolves to true.
Drain(l) ==
    /\ writer[l] = "blocked"
    /\ conn[l] = "open"
    /\ writer' = [writer EXCEPT ![l] = "reading"]
    /\ UNCHANGED <<vars, sessionVars, conn, source, chunks, lastSequence, seen>>

Disconnect(l) ==
    /\ conn[l] = "open"
    /\ conn' = [conn EXCEPT ![l] = "closed"]
    /\ UNCHANGED <<vars, sessionVars, source, writer, chunks, lastSequence, seen>>

\* What ends the writer's loop: its read() returns, or it stops waiting to drain.
WriterIsDone(l) ==
    \/ writer[l] = "blocked" /\ conn[l] = "closed"
    \/ writer[l] = "reading" /\
          \/ conn[l] = "closed" /\ chunks[l] # <<>>
          \/ source[l] = "closed" /\ chunks[l] = <<>>
          \/ source[l] = "errored"

\* Its finally blocks cancel the source and release the lease.
EndStream(l) ==
    /\ WriterIsDone(l)
    /\ IF stopped THEN UNCHANGED vars ELSE Release(l)
    /\ source' = [source EXCEPT ![l] = "closed"]
    /\ chunks' = [chunks EXCEPT ![l] = <<>>]
    /\ writer' = [writer EXCEPT ![l] = "done"]
    /\ conn' = [conn EXCEPT ![l] = "closed"]
    /\ UNCHANGED <<sessionVars, lastSequence, seen>>

-----------------------------------------------------------------------------
(***************************************************************************)
(* The server.                                                             *)
(***************************************************************************)

\* Mistake: stop() waits for the connections to end by themselves.
KeepConnections == UNCHANGED conn

\* closeAllConnections.
CloseConnections ==
    conn' = [l \in Leases |-> IF conn[l] = "open" THEN "closed" ELSE conn[l]]

\* stop(), for a shutdown request or a signal.
StopServer ==
    /\ Stop
    /\ CloseConnections
    /\ UNCHANGED <<sessionVars, source, writer, chunks, lastSequence, seen>>

\* The idle timer; onIdle is stop().
IdleTimer ==
    /\ TimerFires
    /\ IF stopped' # stopped THEN CloseConnections ELSE UNCHANGED conn
    /\ UNCHANGED <<sessionVars, source, writer, chunks, lastSequence, seen>>

\* Any other request, and a line the observer finds in a spool.
OtherActivity == Touch /\ UNCHANGED <<sessionVars, streamVars>>

TimePasses == Pass /\ UNCHANGED <<sessionVars, streamVars>>
ClockIsSet == SetClock /\ UNCHANGED <<sessionVars, streamVars>>

Serve(l) == OpenStream(l) \/ RefuseStream(l) \/ Poll(l) \/ WriteChunk(l) \/ EndStream(l)
Client(l) == Request(l) \/ Drain(l) \/ Disconnect(l)
Session == AddEvent \/ ResetSession \/ RemoveSession

StreamNext ==
    \/ \E l \in Leases : Serve(l) \/ Client(l)
    \/ Session \/ StopServer \/ IdleTimer \/ OtherActivity \/ TimePasses \/ ClockIsSet

allVars == <<vars, sessionVars, streamVars>>

StreamSpec == StreamInit /\ [][StreamNext]_allVars

\* The event loop runs what is due.  A client need neither read nor disconnect.
StreamFairness ==
    /\ WF_allVars(TimePasses)
    /\ WF_allVars(IdleTimer)
    /\ \A l \in Leases :
          /\ WF_allVars(OpenStream(l) \/ RefuseStream(l))
          /\ WF_allVars(Poll(l))
          /\ WF_allVars(WriteChunk(l))
          /\ WF_allVars(EndStream(l))

FairStreamSpec == StreamSpec /\ StreamFairness

-----------------------------------------------------------------------------
(***************************************************************************)
(* Properties.                                                             *)
(***************************************************************************)

\* A client sees the ids 1, 2, 3, ... without a gap or a repetition, from cycles
\* in their order: also across a reset, which starts the ids over.
StreamIsGapless ==
    \A l \in Leases : \A i \in DOMAIN seen[l] :
        /\ seen[l][i].seq = i
        /\ \A j \in 1 .. i : seen[l][j].cycle <= seen[l][i].cycle

\* An event reaches every stream that stays, unless the session is reset or
\* removed first or the client does not read what it is sent.
EventsReachStreams ==
    \A l \in Leases, n \in 1 .. MaxEvents :
        (source[l] = "polling" /\ cycle = 0 /\ log >= n)
            ~> (Len(seen[l]) >= n \/ conn[l] = "closed" \/ cycle > 0 \/ ~present
                \/ writer[l] = "blocked")

\* A daemon whose clients have all gone stops, unless requests or lines keep
\* coming or the clock keeps being set: no lease outlives its connection for ever.
AbandonedDaemonStops ==
    \/ []<><<OtherActivity \/ ClockIsSet>>_allVars
    \/ <>[](Connected # {})
    \/ <>stopped

\* When the daemon stops, the handlers of its streams end, whatever their clients do.
StopEndsStreams ==
    \A l \in Leases : stopped ~> writer[l] \in {"none", "done"}
=============================================================================
