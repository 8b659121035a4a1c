---------------------------- MODULE SessionQueue ----------------------------
(***************************************************************************)
(* Persistence.runSessionOperation (src/daemon/persistence.ts): the chain  *)
(* of promises that makes the operations on one session run one at a time. *)
(*                                                                         *)
(* The whole daemon is one event loop; what interleaves are the            *)
(* continuations of its promises.  A call reads and overwrites the map     *)
(* entry of its session in one synchronous stretch, starts when the        *)
(* promise it found there has settled, settles, and in a later             *)
(* continuation (the finally block) removes the map entry if the entry is  *)
(* still its own.  A call made from inside an operation on the same        *)
(* session (AsyncLocalStorage still holds the session) runs at once,       *)
(* inline, without touching the map.                                       *)
(*                                                                         *)
(* Calls is the set of all calls ever made, each made at most once; that   *)
(* bounds a model, and the theorems hold for every such set.               *)
(***************************************************************************)
EXTENDS Naturals, FiniteSets

CONSTANTS
    Sessions,      \* session identifiers
    Calls,         \* invocations of runSessionOperation
    NoCall,        \* "no promise": an absent map entry, an absent parent
    SessionOf,     \* [Calls -> Sessions]: the session a call names
    ParentOf       \* [Calls -> Calls \cup {NoCall}]: the operation that makes
                   \* the call, or NoCall for a call from outside any operation

Roots == {c \in Calls : ParentOf[c] = NoCall}

\* Operations nest one level deep in this code (reset calls clear, tick calls
\* ingestRecord), always on the session they already hold.
ASSUME CallsAssumption ==
    /\ NoCall \notin Calls
    /\ SessionOf \in [Calls -> Sessions]
    /\ ParentOf \in [Calls -> Calls \cup {NoCall}]
    /\ \A c \in Calls : ParentOf[c] # NoCall =>
          /\ ParentOf[c] \in Roots
          /\ SessionOf[ParentOf[c]] = SessionOf[c]

VARIABLES
    tail,     \* the operations map: the latest queued call's settled promise
    pc,       \* where each call is
    previous, \* the promise each call found in the map and waits for
    outcome,  \* whether the operation's own promise was rejected
    turn,     \* history: the arrival number, on its session, of a queued call
    arrivals  \* history: how many calls each session has queued

vars == <<tail, pc, previous, outcome, turn, arrivals>>

Places == {"unmade", "queued", "running", "settled", "returned"}

Started(c)  == pc[c] \in {"running", "settled", "returned"}
Settled(c)  == pc[c] \in {"settled", "returned"}

-----------------------------------------------------------------------------
Init ==
    /\ tail = [s \in Sessions |-> NoCall]
    /\ pc = [c \in Calls |-> "unmade"]
    /\ previous = [c \in Calls |-> NoCall]
    /\ outcome = [c \in Calls |-> "none"]
    /\ turn = [c \in Calls |-> 0]
    /\ arrivals = [s \in Sessions |-> 0]

\* Mistake: no AsyncLocalStorage test, so an inner call queues behind its caller.
CallInlineQueued(c) ==
    /\ pc[c] = "unmade"
    /\ ParentOf[c] # NoCall
    /\ pc[ParentOf[c]] = "running"
    /\ previous' = [previous EXCEPT ![c] = tail[SessionOf[c]]]
    /\ tail' = [tail EXCEPT ![SessionOf[c]] = c]
    /\ pc' = [pc EXCEPT ![c] = "queued"]
    /\ UNCHANGED <<outcome, turn, arrivals>>

\* A call that finds its session already active runs inline.
CallInline(c) ==
    /\ pc[c] = "unmade"
    /\ ParentOf[c] # NoCall
    /\ pc[ParentOf[c]] = "running"
    /\ pc' = [pc EXCEPT ![c] = "running"]
    /\ UNCHANGED <<tail, previous, outcome, turn, arrivals>>

\* A call from outside: read the map entry, chain on it, replace it.
CallQueued(c) ==
    LET s == SessionOf[c] IN
    /\ pc[c] = "unmade"
    /\ ParentOf[c] = NoCall
    /\ previous' = [previous EXCEPT ![c] = tail[s]]
    /\ tail' = [tail EXCEPT ![s] = c]
    /\ pc' = [pc EXCEPT ![c] = "queued"]
    /\ arrivals' = [arrivals EXCEPT ![s] = @ + 1]
    /\ turn' = [turn EXCEPT ![c] = arrivals[s] + 1]
    /\ UNCHANGED outcome

\* previous.then(...): whatever the predecessor's outcome, `settled` resolves.
Start(c) ==
    /\ pc[c] = "queued"
    /\ previous[c] # NoCall => Settled(previous[c])
    /\ pc' = [pc EXCEPT ![c] = "running"]
    /\ UNCHANGED <<tail, previous, outcome, turn, arrivals>>

Children(c) == {d \in Calls : ParentOf[d] = c}

\* Only a queued call still has its finally block to run.
PlaceAfter(c) == IF ParentOf[c] = NoCall THEN "settled" ELSE "returned"

\* An operation resolves after awaiting every call it made.
Resolve(c) ==
    /\ pc[c] = "running"
    /\ \A d \in Children(c) : pc[d] = "unmade" \/ (pc[d] = "returned" /\ outcome[d] = "ok")
    /\ outcome' = [outcome EXCEPT ![c] = "ok"]
    /\ pc' = [pc EXCEPT ![c] = PlaceAfter(c)]
    /\ UNCHANGED <<tail, previous, turn, arrivals>>

\* It rejects on an error of its own, or as soon as one call it awaits (alone,
\* or in a Promise.all with others still in flight) has rejected.
Reject(c) ==
    /\ pc[c] = "running"
    /\ \/ \A d \in Children(c) : pc[d] \in {"unmade", "returned"}
       \/ \E d \in Children(c) : pc[d] = "returned" /\ outcome[d] = "failed"
    /\ outcome' = [outcome EXCEPT ![c] = "failed"]
    /\ pc' = [pc EXCEPT ![c] = PlaceAfter(c)]
    /\ UNCHANGED <<tail, previous, turn, arrivals>>

\* Mistakes in the finally block: the entry is deleted without comparing it,
\* kept, or overwritten instead of deleted.
EntryDeletedAlways(c) == NoCall
EntryKept(c) == tail[SessionOf[c]]
EntryOverwritten(c) == IF tail[SessionOf[c]] = c THEN "undefined" ELSE tail[SessionOf[c]]

\* The map entry of c's session after its finally block: dropped, unless a later
\* call has replaced it.
EntryAfter(c) == IF tail[SessionOf[c]] = c THEN NoCall ELSE tail[SessionOf[c]]

Finally(c) ==
    /\ pc[c] = "settled"
    /\ pc' = [pc EXCEPT ![c] = "returned"]
    /\ tail' = [tail EXCEPT ![SessionOf[c]] = EntryAfter(c)]
    /\ UNCHANGED <<previous, outcome, turn, arrivals>>

Next == \E c \in Calls :
           \/ CallInline(c) \/ CallQueued(c) \/ Start(c)
           \/ Resolve(c) \/ Reject(c) \/ Finally(c)

Spec == Init /\ [][Next]_vars

\* The event loop runs every continuation that is ready, and every operation
\* ends: each awaits file system calls only.
Fairness == \A c \in Calls :
    /\ WF_vars(Start(c))
    /\ WF_vars(Resolve(c) \/ Reject(c))
    /\ WF_vars(Finally(c))

FairSpec == Spec /\ Fairness

-----------------------------------------------------------------------------
\* Every variable holds a value the code can put there.
TypeOK ==
    /\ tail \in [Sessions -> Calls \cup {NoCall}]
    /\ pc \in [Calls -> Places]
    /\ previous \in [Calls -> Calls \cup {NoCall}]
    /\ outcome \in [Calls -> {"none", "ok", "failed"}]
    /\ turn \in [Calls -> Nat]
    /\ arrivals \in [Sessions -> Nat]

RootsOn(s) == {c \in Roots : SessionOf[c] = s}

\* Mutual exclusion: no two operations called from outside run at once on one
\* session.  This is what every read-modify-write of the evidence files
\* (runSessionOperation's callers) relies on instead of a lock.
MutualExclusion ==
    \A c, d \in Roots :
        (SessionOf[c] = SessionOf[d] /\ pc[c] = "running" /\ pc[d] = "running")
            => c = d

\* First come, first served: an operation starts only after every operation
\* that arrived before it on its session has settled, whichever entries the
\* finally blocks have removed from the map meanwhile.
InArrivalOrder ==
    \A c, d \in Roots :
        (/\ SessionOf[c] = SessionOf[d]
         /\ turn[c] < turn[d]
         /\ pc[c] # "unmade"
         /\ Started(d)) => Settled(c)

\* The map is exact: an entry is the latest arrival and has not returned (so
\* nothing leaks), and an absent entry means nothing is left to wait for.
TailIsLatest ==
    \A s \in Sessions :
        /\ tail[s] # NoCall =>
              /\ tail[s] \in RootsOn(s)
              /\ pc[tail[s]] \in {"queued", "running", "settled"}
              /\ \A c \in RootsOn(s) : turn[c] <= turn[tail[s]]
        /\ tail[s] = NoCall => \A c \in RootsOn(s) : pc[c] = "unmade" \/ Settled(c)

\* No operation is lost and no chain waits on itself: every call that was made
\* returns, also behind a predecessor that rejected, and an operation that
\* calls runSessionOperation for its own session does not wait for itself.
EveryCallReturns ==
    \A c \in Calls : (pc[c] \in {"queued", "running"}) ~> (pc[c] = "returned")

=============================================================================
