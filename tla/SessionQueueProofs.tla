------------------------- MODULE SessionQueueProofs -------------------------
(***************************************************************************)
(* Mutual exclusion and arrival order of SessionQueue, for every set of    *)
(* sessions and calls.                                                     *)
(*                                                                         *)
(* Neither property is inductive: a call starts because the one call it    *)
(* found in the map has settled, which says something about the earlier    *)
(* calls only because (a) they all come before that one and (b) the map    *)
(* entry always was the latest arrival, whatever the finally blocks        *)
(* removed.  The invariant adds those two facts.                           *)
(***************************************************************************)
EXTENDS SessionQueue, TLAPS

\* A call made by an operation never goes through the map.
InnerCallsSkipTheQueue ==
    \A c \in Calls : ParentOf[c] # NoCall => pc[c] \in {"unmade", "running", "returned"}

\* Arrival numbers of queued calls are positive, at most the count, distinct.
TurnsAreDistinct ==
    \A c \in Roots :
        /\ pc[c] = "unmade" => turn[c] = 0
        /\ pc[c] # "unmade" => turn[c] \in 1 .. arrivals[SessionOf[c]]
        /\ \A d \in Roots :
              (c # d /\ SessionOf[c] = SessionOf[d] /\ pc[c] # "unmade") => turn[c] # turn[d]

\* The entry of a session is its latest arrival; no entry, nothing to wait for.
TailHoldsLast ==
    \A s \in Sessions :
        /\ tail[s] # NoCall =>
              /\ tail[s] \in RootsOn(s)
              /\ pc[tail[s]] \in {"queued", "running", "settled"}
              /\ turn[tail[s]] = arrivals[s]
        /\ tail[s] = NoCall => \A c \in RootsOn(s) : pc[c] = "unmade" \/ Settled(c)

\* A queued call waits for the arrival just before it, or for nothing because
\* every earlier arrival has settled.
WaitsForPredecessor ==
    \A c \in Roots : pc[c] = "queued" =>
        /\ previous[c] = NoCall =>
              \A d \in RootsOn(SessionOf[c]) :
                  (pc[d] # "unmade" /\ turn[d] < turn[c]) => Settled(d)
        /\ previous[c] # NoCall =>
              /\ previous[c] \in RootsOn(SessionOf[c])
              /\ pc[previous[c]] # "unmade"
              /\ \A d \in RootsOn(SessionOf[c]) :
                     (pc[d] # "unmade" /\ turn[d] < turn[c] /\ d # previous[c])
                         => turn[d] < turn[previous[c]]

QueueInv ==
    /\ TypeOK
    /\ InnerCallsSkipTheQueue
    /\ TurnsAreDistinct
    /\ TailHoldsLast
    /\ WaitsForPredecessor
    /\ InArrivalOrder

USE CallsAssumption

\* At first no operation was called.
LEMMA InitQueueInv == Init => QueueInv
  BY DEF Init, QueueInv, TypeOK, Places, InnerCallsSkipTheQueue, TurnsAreDistinct,
         TailHoldsLast, WaitsForPredecessor, InArrivalOrder, Roots, RootsOn, Started, Settled

\* Every step keeps the operations on a session in a line.
LEMMA NextQueueInv == QueueInv /\ [Next]_vars => QueueInv'
<1> SUFFICES ASSUME QueueInv, [Next]_vars PROVE QueueInv'
  OBVIOUS
<1> USE DEF QueueInv, TypeOK, Places, Roots, RootsOn, Started, Settled
<1>1. ASSUME NEW c \in Calls, CallInline(c) PROVE QueueInv'
  BY <1>1 DEF CallInline, InnerCallsSkipTheQueue, TurnsAreDistinct, TailHoldsLast,
              WaitsForPredecessor, InArrivalOrder
<1>2. ASSUME NEW c \in Calls, CallQueued(c) PROVE QueueInv'
  <2> USE <1>2 DEF CallQueued
  <2>1. TypeOK'
    OBVIOUS
  <2>2. InnerCallsSkipTheQueue'
    BY DEF InnerCallsSkipTheQueue
  <2>3. TurnsAreDistinct'
    BY DEF TurnsAreDistinct
  <2>4. TailHoldsLast'
    BY DEF TailHoldsLast
  <2>5. WaitsForPredecessor'
    BY DEF WaitsForPredecessor, TailHoldsLast, TurnsAreDistinct
  <2>6. InArrivalOrder'
    BY DEF InArrivalOrder, TurnsAreDistinct
  <2> QED BY <2>1, <2>2, <2>3, <2>4, <2>5, <2>6
<1>3. ASSUME NEW c \in Calls, Start(c) PROVE QueueInv'
  <2> USE <1>3 DEF Start
  <2>1. TypeOK' /\ InnerCallsSkipTheQueue' /\ TurnsAreDistinct' /\ TailHoldsLast'
    BY DEF InnerCallsSkipTheQueue, TurnsAreDistinct, TailHoldsLast
  <2>2. WaitsForPredecessor'
    BY DEF WaitsForPredecessor
  <2>3. InArrivalOrder'
    BY DEF InArrivalOrder, WaitsForPredecessor, InnerCallsSkipTheQueue
  <2> QED BY <2>1, <2>2, <2>3
<1>4. ASSUME NEW c \in Calls, Resolve(c) \/ Reject(c) PROVE QueueInv'
  <2>1. /\ pc[c] = "running"
        /\ pc' = [pc EXCEPT ![c] = PlaceAfter(c)]
        /\ outcome' \in [Calls -> {"none", "ok", "failed"}]
        /\ UNCHANGED <<tail, previous, turn, arrivals>>
    BY <1>4 DEF Resolve, Reject
  <2> QED BY <2>1 DEF PlaceAfter, InnerCallsSkipTheQueue, TurnsAreDistinct, TailHoldsLast,
                      WaitsForPredecessor, InArrivalOrder
<1>5. ASSUME NEW c \in Calls, Finally(c) PROVE QueueInv'
  <2> USE <1>5 DEF Finally, EntryAfter
  <2>1. TypeOK' /\ InnerCallsSkipTheQueue' /\ TurnsAreDistinct'
    BY DEF InnerCallsSkipTheQueue, TurnsAreDistinct
  <2>2. TailHoldsLast'
    BY DEF TailHoldsLast, InnerCallsSkipTheQueue, TurnsAreDistinct, InArrivalOrder
  <2>3. WaitsForPredecessor' /\ InArrivalOrder'
    BY DEF WaitsForPredecessor, InArrivalOrder
  <2> QED BY <2>1, <2>2, <2>3
<1>6. CASE UNCHANGED vars
  BY <1>6 DEF vars, InnerCallsSkipTheQueue, TurnsAreDistinct, TailHoldsLast,
              WaitsForPredecessor, InArrivalOrder
<1> QED BY <1>1, <1>2, <1>3, <1>4, <1>5, <1>6 DEF Next

\* The invariant the three theorems below rest on: with it, the map and the
\* promises waited for always describe the queue of the session.
THEOREM QueueInvariant == Spec => []QueueInv
  BY InitQueueInv, NextQueueInv, PTL DEF Spec

\* The map, the promises and the counters of runSessionOperation keep their types.
THEOREM QueueTyped == Spec => []TypeOK
<1>1. QueueInv => TypeOK
  BY DEF QueueInv
<1> QED BY <1>1, QueueInvariant, PTL

\* runSessionOperation starts the operations of a session in the order the
\* calls were made, each after all its predecessors have settled.
THEOREM ArrivalOrderHolds == Spec => []InArrivalOrder
<1>1. QueueInv => InArrivalOrder
  BY DEF QueueInv
<1> QED BY <1>1, QueueInvariant, PTL

\* runSessionOperation never runs two operations of one session at once.
THEOREM MutualExclusionHolds == Spec => []MutualExclusion
<1>1. QueueInv => MutualExclusion
  BY DEF QueueInv, MutualExclusion, InArrivalOrder, TurnsAreDistinct, TypeOK, Started,
         Settled, Roots
<1> QED BY <1>1, QueueInvariant, PTL

\* The operations map holds the latest arrival of each session that has work
\* left, and no entry for any other session.
THEOREM TailIsLatestHolds == Spec => []TailIsLatest
<1>1. QueueInv => TailIsLatest
  BY DEF QueueInv, TailIsLatest, TailHoldsLast, TurnsAreDistinct, TypeOK, Roots, RootsOn
<1> QED BY <1>1, QueueInvariant, PTL
=============================================================================
