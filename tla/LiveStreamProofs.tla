-------------------------- MODULE LiveStreamProofs --------------------------
(***************************************************************************)
(* What holds of the activity tracker and of the live streams that lease   *)
(* it: for every timeout, every setting of the system clock, every finite  *)
(* set of streams and every length of the session.                         *)
(*                                                                         *)
(* First the tracker alone.  What makes its properties inductive: the      *)
(* counter equals the number of leases held (each closure releases once),  *)
(* and an armed timer always has at least the rest of the quiet period     *)
(* left to run.                                                            *)
(*                                                                         *)
(* Second, the server uses its tracker only through the tracker's          *)
(* operations: every step of LiveStream is a step of ActivityTracker or    *)
(* leaves it alone.  What is shown of a tracker thus holds in the server.  *)
(*                                                                         *)
(* Third, the order of what a client sees.  What makes it inductive: the   *)
(* chunks in the queue continue what was written, a polling source has     *)
(* lastSequence equal to the number of both, and a source starts only for  *)
(* a stream nothing was sent on.                                           *)
(***************************************************************************)
EXTENDS LiveStream, FiniteSetTheorems, SequenceTheorems, TLAPS

LeasesAreCounted == leases = Cardinality(Held)

TimerOutlastsQuiet == (~stopped /\ timer # NoTimer) => quiet + timer >= IdleTimeout

IdleOnce == onIdles = 1 => stopped

TrackerInv ==
    TypeOK /\ LeaseOrTimer /\ LeasesAreCounted /\ TimerOutlastsQuiet /\ IdleOnce

USE TrackerAssumption DEF TrackerAssumption

\* There are finitely many leases.
LEMMA HeldIsFinite == IsFiniteSet(Held) /\ Cardinality(Held) \in Nat
<1>1. Held \subseteq Leases
  BY DEF Held
<1> QED BY <1>1, LeasesAssumption, FS_Subset, FS_CardinalityType

\* No lease is held when none is counted.
LEMMA NoneHeld == Cardinality(Held) = 0 <=> Held = {}
  BY HeldIsFinite, FS_EmptySet

\* Acquiring counts one lease more.
LEMMA AcquireCounts ==
  ASSUME TypeOK, NEW l \in Leases, Acquire(l)
  PROVE  Cardinality(Held') = Cardinality(Held) + 1 /\ Held' # {}
<1>1. Held' = Held \cup {l} /\ l \notin Held
  BY DEF Acquire, Held, TypeOK
<1> QED BY <1>1, HeldIsFinite, FS_AddElement

\* Releasing counts one lease less.
LEMMA ReleaseCounts ==
  ASSUME TypeOK, NEW l \in Leases, Release(l)
  PROVE  Cardinality(Held') = Cardinality(Held) - 1 /\ Held # {}
<1>1. Held' = Held \ {l} /\ l \in Held
  BY DEF Release, Releasable, Held, TypeOK
<1> QED BY <1>1, HeldIsFinite, FS_RemoveElement

\* TypeOK in three parts: each is within a solver's reach, the whole is not.
LeaseTyped == lease \in [Leases -> {"free", "held", "released"}] /\ leases \in Nat

ClocksTyped ==
    /\ idle \in -MaxJump .. IdleTimeout
    /\ quiet \in 0 .. IdleTimeout
    /\ timer \in {NoTimer} \cup Nat

FlagsTyped == current \in BOOLEAN /\ stopped \in BOOLEAN /\ onIdles \in {0, 1}

\* The parts are the whole.
LEMMA TypeParts == TypeOK <=> LeaseTyped /\ ClocksTyped /\ FlagsTyped
  BY DEF TypeOK, LeaseTyped, ClocksTyped, FlagsTyped

\* The tracker begins without leases, its timer running.
LEMMA InitTrackerInv == Init => TrackerInv
<1> SUFFICES ASSUME Init PROVE TrackerInv
  OBVIOUS
<1>1. Held = {}
  BY DEF Init, Held
<1>2. Cardinality(Held) = 0
  BY <1>1, FS_EmptySet
<1>3. LeaseTyped /\ FlagsTyped
  BY DEF Init, LeaseTyped, FlagsTyped
<1>4. ClocksTyped
  BY DEF Init, ClocksTyped
<1>5. LeaseOrTimer
  BY <1>1 DEF Init, LeaseOrTimer
<1>6. LeasesAreCounted
  BY <1>2 DEF Init, LeasesAreCounted
<1>7. TimerOutlastsQuiet /\ IdleOnce
  BY DEF Init, TimerOutlastsQuiet, IdleOnce
<1> QED BY <1>3, <1>4, <1>5, <1>6, <1>7, TypeParts DEF TrackerInv

\* What an operation leaves in the clocks decides the rest of the invariant.
LEMMA TouchedClocks ==
  ASSUME TrackerInv, NoteActivity, leases' \in Nat, UNCHANGED <<stopped, onIdles>>,
         leases' = leases \/ leases = 1, leases' = 0 <=> Held' = {}
  PROVE  ClocksTyped' /\ FlagsTyped' /\ LeaseOrTimer' /\ TimerOutlastsQuiet' /\ IdleOnce'
<1>1. ClocksTyped /\ FlagsTyped /\ leases \in Nat
  BY TypeParts DEF TrackerInv, LeaseTyped
<1>2. ~stopped => (leases' # 0 => timer = NoTimer)
  BY NoneHeld DEF TrackerInv, LeaseOrTimer, LeasesAreCounted
<1>3. ClocksTyped'
  BY <1>1 DEF NoteActivity, Arm, ClocksTyped
<1>4. FlagsTyped'
  BY <1>1 DEF NoteActivity, Arm, FlagsTyped
<1>5. LeaseOrTimer'
  BY <1>2 DEF NoteActivity, Arm, LeaseOrTimer
<1>6. TimerOutlastsQuiet'
  BY <1>2 DEF NoteActivity, Arm, TimerOutlastsQuiet
<1>7. IdleOnce'
  BY DEF TrackerInv, IdleOnce
<1> QED BY <1>3, <1>4, <1>5, <1>6, <1>7

\* Every step keeps leases counted and the timer to the times without any.
LEMMA NextTrackerInv == TrackerInv /\ [Next]_vars => TrackerInv'
<1> SUFFICES ASSUME TrackerInv, [Next]_vars PROVE TrackerInv'
  OBVIOUS
<1>0. LeaseTyped /\ ClocksTyped /\ FlagsTyped
  BY TypeParts DEF TrackerInv
<1>00. LeaseTyped' /\ ClocksTyped' /\ FlagsTyped' => TypeOK'
  BY TypeParts, PTL
<1>1. CASE Touch
  <2>1. Held' = Held /\ LeaseTyped' /\ LeasesAreCounted'
    BY <1>0, <1>1 DEF Touch, Held, LeaseTyped, LeasesAreCounted, TrackerInv
  <2>2. leases' \in Nat /\ (leases' = 0 <=> Held' = {})
    BY <1>0, <1>1, <2>1, NoneHeld DEF Touch, LeaseTyped, LeasesAreCounted, TrackerInv
  <2> QED BY <1>00, <1>1, <2>1, <2>2, TouchedClocks DEF Touch, TrackerInv
<1>2. ASSUME NEW l \in Leases, Acquire(l) PROVE TrackerInv'
  <2>1. Cardinality(Held') = Cardinality(Held) + 1 /\ Held' # {}
    BY <1>2, AcquireCounts DEF TrackerInv
  <2>2. LeaseTyped' /\ LeasesAreCounted'
    BY <1>0, <1>2, <2>1, HeldIsFinite DEF Acquire, Counted, LeaseTyped, LeasesAreCounted, TrackerInv
  <2>3. ClocksTyped' /\ FlagsTyped'
    BY <1>0, <1>2 DEF Acquire, ClocksTyped, FlagsTyped
  <2>4. LeaseOrTimer' /\ TimerOutlastsQuiet' /\ IdleOnce'
    BY <1>2, <2>1 DEF Acquire, LeaseOrTimer, TimerOutlastsQuiet, IdleOnce, TrackerInv
  <2> QED BY <1>00, <2>2, <2>3, <2>4 DEF TrackerInv
<1>3. ASSUME NEW l \in Leases, Release(l) PROVE TrackerInv'
  <2>1. Cardinality(Held') = Cardinality(Held) - 1 /\ Held # {}
    BY <1>3, ReleaseCounts DEF TrackerInv
  <2>2. leases \in Nat \ {0} /\ leases' = leases - 1 /\ leases' = Cardinality(Held')
    BY <1>0, <1>3, <2>1, NoneHeld DEF Release, LeasesAreCounted, LeaseTyped, TrackerInv
  <2>3. leases' \in Nat /\ (leases' = 0 <=> Held' = {})
    <3>1. Held' \subseteq Leases
      BY DEF Held
    <3>2. IsFiniteSet(Held')
      BY <3>1, LeasesAssumption, FS_Subset
    <3> QED BY <2>2, <3>2, FS_EmptySet
  <2>4. LeaseTyped' /\ LeasesAreCounted'
    BY <1>0, <1>3, <2>2, <2>3 DEF Release, LeaseTyped, LeasesAreCounted
  <2>5. ClocksTyped' /\ FlagsTyped' /\ LeaseOrTimer' /\ TimerOutlastsQuiet' /\ IdleOnce'
    <3>1. CASE leases = 1
      BY <1>3, <2>3, <3>1, TouchedClocks DEF Release
    <3>2. CASE leases # 1
      <4>1. UNCHANGED <<idle, timer, current, quiet, stopped, onIdles>>
        BY <1>3, <3>2 DEF Release
      <4>2. ClocksTyped' /\ FlagsTyped'
        BY <1>0, <4>1 DEF ClocksTyped, FlagsTyped
      <4>3. Held' # {}
        BY <2>2, <2>3, <3>2
      <4> QED BY <2>1, <4>1, <4>2, <4>3
              DEF LeaseOrTimer, TimerOutlastsQuiet, IdleOnce, TrackerInv
    <3> QED BY <3>1, <3>2
  <2> QED BY <1>00, <2>4, <2>5 DEF TrackerInv
<1>4. CASE Stop
  <2>1. Held' = Held /\ LeaseTyped' /\ ClocksTyped' /\ FlagsTyped'
    BY <1>0, <1>4 DEF Stop, Held, LeaseTyped, ClocksTyped, FlagsTyped
  <2> QED BY <1>00, <1>4, <2>1
          DEF Stop, LeaseOrTimer, LeasesAreCounted, TimerOutlastsQuiet, IdleOnce, TrackerInv
<1>5. CASE SetClock
  <2>1. Held' = Held /\ LeaseTyped' /\ ClocksTyped' /\ FlagsTyped'
    BY <1>0, <1>5 DEF SetClock, Held, LeaseTyped, ClocksTyped, FlagsTyped
  <2> QED BY <1>00, <1>5, <2>1
          DEF SetClock, LeaseOrTimer, LeasesAreCounted, TimerOutlastsQuiet, IdleOnce, TrackerInv
<1>6. CASE TimerFires
  <2>1. Held' = Held /\ LeaseTyped'
    BY <1>0, <1>6 DEF TimerFires, Held, LeaseTyped, vars
  <2>2. ClocksTyped' /\ FlagsTyped'
    <3>1. ~stopped => onIdles = 0
      BY <1>0 DEF FlagsTyped, IdleOnce, TrackerInv
    <3>2. ClocksTyped'
      BY <1>0, <1>6 DEF TimerFires, Arm, Remaining, ClocksTyped, vars
    <3>3. FlagsTyped'
      <4>1. \/ UNCHANGED <<current, stopped, onIdles>>
            \/ current' = TRUE /\ UNCHANGED <<stopped, onIdles>>
            \/ ~stopped /\ stopped' = TRUE /\ onIdles' = onIdles + 1 /\ UNCHANGED current
        BY <1>6 DEF TimerFires, Arm, vars
      <4>2. onIdles' \in {0, 1}
        BY <1>0, <3>1, <4>1 DEF FlagsTyped
      <4> QED BY <1>0, <4>1, <4>2 DEF FlagsTyped
    <3> QED BY <3>2, <3>3
  <2>3. TimerOutlastsQuiet' /\ IdleOnce'
    BY <1>0, <1>6 DEF TimerFires, Arm, Remaining, ClocksTyped, FlagsTyped,
                      TimerOutlastsQuiet, IdleOnce, TrackerInv, vars
  <2>4. LeaseOrTimer' /\ LeasesAreCounted'
    BY <1>0, <1>6, <2>1 DEF TimerFires, Arm, Remaining, ClocksTyped, LeaseTyped,
                      LeaseOrTimer, LeasesAreCounted, TrackerInv, vars
  <2> QED BY <1>00, <2>1, <2>2, <2>3, <2>4 DEF TrackerInv
<1>7. CASE Pass
  <2>1. Held' = Held /\ LeaseTyped' /\ FlagsTyped'
    BY <1>0, <1>7 DEF Pass, Held, LeaseTyped, FlagsTyped
  <2>2. ClocksTyped' /\ TimerOutlastsQuiet' /\ IdleOnce'
    BY <1>0, <1>7 DEF Pass, AtMost, AtLeast, ClocksTyped, TimerOutlastsQuiet, IdleOnce, TrackerInv
  <2>3. LeaseOrTimer' /\ LeasesAreCounted'
    BY <1>0, <1>7, <2>1 DEF Pass, AtLeast, ClocksTyped, LeaseOrTimer, LeasesAreCounted, TrackerInv
  <2> QED BY <1>00, <2>1, <2>2, <2>3 DEF TrackerInv
<1>8. CASE UNCHANGED vars
  <2>1. Held' = Held /\ LeaseTyped' /\ ClocksTyped' /\ FlagsTyped'
    BY <1>0, <1>8 DEF vars, Held, LeaseTyped, ClocksTyped, FlagsTyped
  <2> QED BY <1>00, <1>8, <2>1
          DEF vars, LeaseOrTimer, LeasesAreCounted, TimerOutlastsQuiet, IdleOnce, TrackerInv
<1> QED BY <1>1, <1>2, <1>3, <1>4, <1>5, <1>6, <1>7, <1>8 DEF Next, Activity

\* So the tracker does in every state.
THEOREM TrackerInvariant == Spec => []TrackerInv
  BY InitTrackerInv, NextTrackerInv, PTL DEF Spec

\* The timer, the count and the flags of the tracker keep their types: the count
\* never falls below zero, however leases are taken and released.
THEOREM TrackerTyped == Spec => []TypeOK
<1>1. TrackerInv => TypeOK
  BY DEF TrackerInv
<1> QED BY <1>1, TrackerInvariant, PTL

\* While the daemon runs, either a stream holds a lease or a live timer is armed:
\* acquireLease, release and touch leave no third state.
THEOREM LeaseOrTimerHolds == Spec => []LeaseOrTimer
<1>1. TrackerInv => LeaseOrTimer
  BY DEF TrackerInv
<1> QED BY <1>1, TrackerInvariant, PTL

\* onIdle is called only after a whole idle timeout and under no lease, however
\* often the timer is re-armed and the system clock set.
THEOREM NeverStopsEarlyHolds == Spec => NeverStopsEarly
<1>1. TrackerInv /\ [Next]_vars => [onIdles' # onIdles => quiet = IdleTimeout /\ Held = {}]_vars
  <2> SUFFICES ASSUME TrackerInv, [Next]_vars, onIdles' # onIdles
               PROVE  quiet = IdleTimeout /\ Held = {}
    OBVIOUS
  <2>1. TimerFires
    BY DEF Next, Activity, Touch, Acquire, Release, Stop, SetClock, Pass, vars
  <2>2. ~stopped /\ leases = 0 /\ timer = 0
    BY <2>1, TypeParts DEF TimerFires, vars, TrackerInv, LeaseTyped
  <2>3. Held = {}
    BY <2>2, NoneHeld DEF TrackerInv, LeasesAreCounted
  <2>4. ClocksTyped
    BY TypeParts DEF TrackerInv
  <2>5. quiet + 0 >= IdleTimeout
    BY <2>2 DEF TrackerInv, TimerOutlastsQuiet
  <2> QED BY <2>3, <2>4, <2>5 DEF ClocksTyped
<1> QED BY <1>1, TrackerInvariant, PTL DEF Spec, NeverStopsEarly

-----------------------------------------------------------------------------
HIDE TrackerAssumption DEF TrackerAssumption

\* Every step of the server is one of the tracker.
LEMMA StreamStepIsTrackerStep == StreamNext => [Next]_vars
<1> SUFFICES ASSUME StreamNext PROVE [Next]_vars
  OBVIOUS
<1>1. CASE \E l \in Leases : Serve(l) \/ Client(l)
  <2> PICK l \in Leases : Serve(l) \/ Client(l)
    BY <1>1
  <2> QED BY DEF Serve, Client, OpenStream, RefuseStream, Poll, WriteChunk, EndStream,
                 Request, Drain, Disconnect, Next, Activity
<1>2. CASE Session
  BY <1>2 DEF Session, AddEvent, ResetSession, RemoveSession
<1>3. CASE StopServer \/ IdleTimer \/ OtherActivity \/ TimePasses \/ ClockIsSet
  BY <1>3 DEF StopServer, IdleTimer, OtherActivity, TimePasses, ClockIsSet, Next, Activity
<1> QED BY <1>1, <1>2, <1>3 DEF StreamNext

\* A daemon that serves streams implements the tracker: writeWebResponse, stop and
\* the request handler call touch, acquireLease, its release and stop, and
\* change nothing of it otherwise.
THEOREM StreamsUseTheTracker == StreamSpec => Spec
<1>1. StreamInit => Init
  BY DEF StreamInit
<1>2. [StreamNext]_allVars => [Next]_vars
  BY StreamStepIsTrackerStep DEF allVars
<1> QED BY <1>1, <1>2, PTL DEF StreamSpec, Spec

\* In the server as in the tracker alone: while the daemon runs, a stream holds
\* the lease or the timer is armed.
THEOREM ServerHasLeaseOrTimer == StreamSpec => [](TypeOK /\ LeaseOrTimer)
  BY StreamsUseTheTracker, TrackerTyped, LeaseOrTimerHolds, PTL

\* And the server is stopped as idle only after a quiet timeout without a stream.
THEOREM ServerNeverStopsEarly == StreamSpec => NeverStopsEarly
  BY StreamsUseTheTracker, NeverStopsEarlyHolds, PTL

-----------------------------------------------------------------------------
Event == [cycle : Nat, seq : Nat]

StreamTyped ==
    /\ cycle \in Nat
    /\ log \in Nat
    /\ conn \in [Leases -> {"none", "open", "closed"}]
    /\ source \in [Leases -> {"none", "polling", "closed", "errored"}]
    /\ writer \in [Leases -> {"none", "handling", "reading", "blocked", "done"}]
    /\ chunks \in [Leases -> Seq(Event)]
    /\ lastSequence \in [Leases -> Nat]
    /\ seen \in [Leases -> Seq(Event)]

\* The events of a queue that come after the first n, from cycles up to top.
Continues(events, n, top) ==
    \A i \in 1 .. Len(events) :
        /\ events[i].seq = n + i
        /\ events[i].cycle <= top
        /\ \A j \in 1 .. i : events[j].cycle <= events[i].cycle

\* No event of the second queue is from an earlier cycle than one of the first.
NoEarlier(s, t) == \A i \in 1 .. Len(s), j \in 1 .. Len(t) : s[i].cycle <= t[j].cycle

\* What was written is in order, and what is queued goes on from there.
QueueContinues(l) ==
    /\ Continues(seen[l], 0, cycle)
    /\ Continues(chunks[l], Len(seen[l]), cycle)
    /\ NoEarlier(seen[l], chunks[l])

\* A source knows how much it has sent, and starts with nothing sent.
SourceCounts(l) ==
    /\ source[l] = "polling" => lastSequence[l] = Len(seen[l]) + Len(chunks[l])
    /\ writer[l] \in {"none", "handling"} =>
           source[l] = "none" /\ lastSequence[l] = 0 /\ seen[l] = <<>> /\ chunks[l] = <<>>

\* No handler runs before the request came.
HandledAfterRequest == \A l \in Leases : conn[l] = "none" => writer[l] = "none"

StreamInv ==
    /\ StreamTyped
    /\ HandledAfterRequest
    /\ \A l \in Leases : QueueContinues(l) /\ SourceCounts(l)

\* The streams begin with nothing to show.
LEMMA InitStreamInv == StreamInit => StreamInv
  BY StreamAssumption
     DEF StreamInit, StreamInv, StreamTyped, HandledAfterRequest, QueueContinues,
         SourceCounts, Continues, NoEarlier

\* An empty queue continues anything.
LEMMA NothingContinues == \A n, top : Continues(<<>>, n, top)
  BY DEF Continues

-----------------------------------------------------------------------------
(***************************************************************************)
(* Queues of events, whatever they hold.                                   *)
(***************************************************************************)
LEMMA TheRest ==
  ASSUME NEW n \in Nat, NEW k \in Nat
  PROVE  AtLeast(n - k, 0) \in Nat /\ AtLeast(n, k) = k + AtLeast(n - k, 0)
  BY DEF AtLeast

\* Sums may be taken in any order.
LEMMA SumOfThree == \A i, j, k \in Nat : (i + j) + k = i + (j + k)
  OBVIOUS

\* A function on the first numbers is a sequence.
LEMMA MapIsSeq ==
  ASSUME NEW S, NEW n \in Nat, NEW f \in [1 .. n -> S]
  PROVE  f \in Seq(S) /\ Len(f) = n
  OBVIOUS

\* Events that continue others make a longer continuation.
LEMMA AppendedContinues ==
  ASSUME NEW s \in Seq(Event), NEW t \in Seq(Event), NEW n \in Nat, NEW top \in Nat,
         Continues(s, n, top), Continues(t, n + Len(s), top), NoEarlier(s, t)
  PROVE  Continues(s \o t, n, top)
<1>1. /\ Len(s) \in Nat /\ Len(t) \in Nat
      /\ Len(s \o t) = Len(s) + Len(t)
      /\ \A i \in 1 .. Len(s) : (s \o t)[i] = s[i]
      /\ \A i \in 1 .. Len(t) : (s \o t)[Len(s) + i] = t[i]
  BY LenProperties, ConcatProperties
<1>2. ASSUME NEW i \in 1 .. Len(s \o t)
      PROVE  \/ i \in 1 .. Len(s)
             \/ \E k \in 1 .. Len(t) : i = Len(s) + k
  <2>1. CASE i > Len(s)
    <3>1. i - Len(s) \in 1 .. Len(t) /\ i = Len(s) + (i - Len(s))
      BY <1>1, <2>1
    <3> QED BY <3>1
  <2> QED BY <1>1, <2>1
<1>3. ASSUME NEW i \in 1 .. Len(s \o t)
      PROVE  (s \o t)[i].seq = n + i /\ (s \o t)[i].cycle <= top
  BY <1>1, <1>2 DEF Continues
<1>4. ASSUME NEW i \in 1 .. Len(s \o t), NEW j \in 1 .. i
      PROVE  (s \o t)[j].cycle <= (s \o t)[i].cycle
  <2>1. CASE i \in 1 .. Len(s)
    <3>1. j \in 1 .. Len(s)
      BY <1>1, <2>1
    <3> QED BY <1>1, <2>1, <3>1 DEF Continues
  <2>2. CASE \E k \in 1 .. Len(t) : i = Len(s) + k
    <3> PICK k \in 1 .. Len(t) : i = Len(s) + k
      BY <2>2
    <3>1. \/ j \in 1 .. Len(s)
          \/ \E m \in 1 .. k : j = Len(s) + m
      <4>1. CASE j > Len(s)
        <5>1. j - Len(s) \in 1 .. k /\ j = Len(s) + (j - Len(s))
          BY <1>1, <4>1
        <5> QED BY <5>1
      <4> QED BY <1>1, <4>1
    <3>2. CASE j \in 1 .. Len(s)
      BY <1>1, <3>2 DEF NoEarlier
    <3>3. CASE \E m \in 1 .. k : j = Len(s) + m
      <4> PICK m \in 1 .. k : j = Len(s) + m
        BY <3>3
      <4>1. m \in 1 .. Len(t)
        BY <1>1
      <4> QED BY <1>1, <4>1 DEF Continues
    <3> QED BY <3>1, <3>2, <3>3
  <2> QED BY <1>2, <2>1, <2>2
<1> QED BY <1>3, <1>4 DEF Continues

\* Events no earlier than others stay so with more of them.
LEMMA AppendedNoEarlier ==
  ASSUME NEW r \in Seq(Event), NEW s \in Seq(Event), NEW t \in Seq(Event),
         NoEarlier(r, s), NoEarlier(r, t)
  PROVE  NoEarlier(r, s \o t)
<1>1. /\ Len(s) \in Nat /\ Len(t) \in Nat
      /\ Len(s \o t) = Len(s) + Len(t)
      /\ \A i \in 1 .. Len(s) : (s \o t)[i] = s[i]
      /\ \A i \in 1 .. Len(t) : (s \o t)[Len(s) + i] = t[i]
  BY LenProperties, ConcatProperties
<1> SUFFICES ASSUME NEW i \in 1 .. Len(r), NEW j \in 1 .. Len(s \o t)
             PROVE  r[i].cycle <= (s \o t)[j].cycle
  BY DEF NoEarlier
<1>2. CASE j > Len(s)
  <2>1. j - Len(s) \in 1 .. Len(t) /\ j = Len(s) + (j - Len(s))
    BY <1>1, <1>2
  <2> QED BY <1>1, <2>1 DEF NoEarlier
<1> QED BY <1>1, <1>2 DEF NoEarlier

\* Events of one cycle, numbered on from n.
LEMMA FreshContinues ==
  ASSUME NEW k \in Nat, NEW n \in Nat, NEW c \in Nat, NEW t \in Seq(Event),
         t = [i \in 1 .. k |-> [cycle |-> c, seq |-> n + i]]
  PROVE  Continues(t, n, c) /\ \A s \in Seq(Event) : Continues(s, 0, c) => NoEarlier(s, t)
<1>1. Len(t) = k /\ \A i \in 1 .. k : t[i].cycle = c /\ t[i].seq = n + i
  OBVIOUS
<1> QED BY <1>1 DEF Continues, NoEarlier

\* Moving the head of the second queue to the end of the first changes nothing.
LEMMA MovedContinues ==
  ASSUME NEW s \in Seq(Event), NEW t \in Seq(Event), NEW top \in Nat, t # <<>>,
         Continues(s, 0, top), Continues(t, Len(s), top), NoEarlier(s, t)
  PROVE  /\ Append(s, Head(t)) \in Seq(Event) /\ Tail(t) \in Seq(Event)
         /\ Len(Append(s, Head(t))) + Len(Tail(t)) = Len(s) + Len(t)
         /\ Continues(Append(s, Head(t)), 0, top)
         /\ Continues(Tail(t), Len(Append(s, Head(t))), top)
         /\ NoEarlier(Append(s, Head(t)), Tail(t))
<1> DEFINE u == Append(s, Head(t))
           v == Tail(t)
<1>1. Len(s) \in Nat /\ Len(t) \in Nat \ {0}
  BY LenProperties, EmptySeq
<1>2. /\ u \in Seq(Event) /\ Len(u) = Len(s) + 1 /\ u[Len(s) + 1] = t[1]
      /\ \A i \in 1 .. Len(s) : u[i] = s[i]
  BY <1>1, HeadTailProperties
<1>3. v \in Seq(Event) /\ Len(v) = Len(t) - 1 /\ \A i \in 1 .. Len(v) : v[i] = t[i + 1]
  BY HeadTailProperties
<1>4. \A i \in 1 .. Len(v) : i + 1 \in 1 .. Len(t) /\ 1 \in 1 .. i + 1
  BY <1>1, <1>3
<1>5. \A i \in 1 .. Len(u) : i \in 1 .. Len(s) \/ i = Len(s) + 1
  BY <1>1, <1>2
<1> HIDE DEF u, v
<1>6. Continues(u, 0, top)
  <2>1. ASSUME NEW i \in 1 .. Len(u) PROVE u[i].seq = 0 + i /\ u[i].cycle <= top
    BY <1>1, <1>2, <1>5 DEF Continues
  <2>2. ASSUME NEW i \in 1 .. Len(u), NEW j \in 1 .. i PROVE u[j].cycle <= u[i].cycle
    <3>1. CASE i \in 1 .. Len(s)
      <4>1. j \in 1 .. Len(s)
        BY <1>1, <3>1
      <4> QED BY <1>2, <3>1, <4>1 DEF Continues
    <3>2. CASE i = Len(s) + 1
      <4>1. CASE j \in 1 .. Len(s)
        BY <1>1, <1>2, <3>2, <4>1 DEF NoEarlier
      <4>2. CASE j = Len(s) + 1
        <5>1. 1 \in 1 .. Len(t) /\ 1 \in 1 .. 1
          BY <1>1
        <5>2. t[1].cycle <= t[1].cycle
          BY <5>1 DEF Continues
        <5> QED BY <1>2, <3>2, <4>2, <5>2
      <4> QED BY <1>1, <3>2, <4>1, <4>2
    <3> QED BY <1>5, <3>1, <3>2
  <2> QED BY <2>1, <2>2 DEF Continues
<1>7. Continues(v, Len(u), top)
  <2>1. ASSUME NEW i \in 1 .. Len(v)
        PROVE  v[i].seq = Len(u) + i /\ v[i].cycle <= top
    <3>1. t[i + 1].seq = Len(s) + (i + 1) /\ t[i + 1].cycle <= top
      BY <1>4 DEF Continues
    <3>2. i \in Nat /\ Len(s) + (i + 1) = (Len(s) + 1) + i
      BY <1>1, <1>3
    <3> QED BY <1>2, <1>3, <3>1, <3>2
  <2>2. ASSUME NEW i \in 1 .. Len(v), NEW j \in 1 .. i PROVE v[j].cycle <= v[i].cycle
    <3>1. j \in 1 .. Len(v) /\ j + 1 \in 1 .. i + 1
      BY <1>1, <1>3
    <3> QED BY <1>3, <1>4, <3>1 DEF Continues
  <2> QED BY <2>1, <2>2 DEF Continues
<1>8. NoEarlier(u, v)
  <2> SUFFICES ASSUME NEW i \in 1 .. Len(u), NEW j \in 1 .. Len(v)
               PROVE  u[i].cycle <= v[j].cycle
    BY DEF NoEarlier
  <2>1. CASE i \in 1 .. Len(s)
    BY <1>2, <1>3, <1>4, <2>1 DEF NoEarlier
  <2>2. CASE i = Len(s) + 1
    BY <1>2, <1>3, <1>4, <2>2 DEF Continues
  <2> QED BY <1>5, <2>1, <2>2
<1> QED BY <1>1, <1>2, <1>3, <1>6, <1>7, <1>8 DEF u, v

-----------------------------------------------------------------------------
\* What the source finds continues what it has sent: its ids go on from
\* lastSequence and are of the present cycle.
LEMMA PollContinues ==
  ASSUME StreamInv, NEW l \in Leases, source[l] = "polling"
  PROVE  /\ chunks[l] \o Unsent(l) \in Seq(Event)
         /\ Reached(l) = Len(seen[l]) + Len(chunks[l] \o Unsent(l))
         /\ Continues(chunks[l] \o Unsent(l), Len(seen[l]), cycle)
         /\ NoEarlier(seen[l], chunks[l] \o Unsent(l))
<1> DEFINE more == AtLeast(log - lastSequence[l], 0)
<1>1. /\ log \in Nat /\ cycle \in Nat /\ lastSequence[l] \in Nat
      /\ chunks[l] \in Seq(Event) /\ seen[l] \in Seq(Event)
  BY DEF StreamInv, StreamTyped
<1>2. lastSequence[l] = Len(seen[l]) + Len(chunks[l]) /\ QueueContinues(l)
  BY DEF StreamInv, SourceCounts
<1>3. Len(seen[l]) \in Nat /\ Len(chunks[l]) \in Nat
  BY <1>1, LenProperties
<1>4. more \in Nat /\ Reached(l) = lastSequence[l] + more
  BY <1>1, TheRest DEF Reached
<1>5. Unsent(l) = [i \in 1 .. more |-> [cycle |-> cycle, seq |-> lastSequence[l] + i]]
  BY DEF Unsent
<1> HIDE DEF more
<1>6. Unsent(l) \in [1 .. more -> Event]
  BY <1>1, <1>4, <1>5 DEF Event
<1>7. Unsent(l) \in Seq(Event) /\ Len(Unsent(l)) = more
  BY <1>4, <1>6, MapIsSeq
<1>8. Continues(Unsent(l), lastSequence[l], cycle)
      /\ \A s \in Seq(Event) : Continues(s, 0, cycle) => NoEarlier(s, Unsent(l))
  BY <1>1, <1>4, <1>5, <1>7, FreshContinues
<1>9. NoEarlier(seen[l], Unsent(l))
  BY <1>1, <1>2, <1>8 DEF QueueContinues
<1>10. NoEarlier(chunks[l], Unsent(l))
  <2>1. \A i \in 1 .. Len(chunks[l]), j \in 1 .. more :
            chunks[l][i].cycle <= cycle /\ Unsent(l)[j].cycle = cycle
    BY <1>2, <1>5 DEF QueueContinues, Continues
  <2> QED BY <1>7, <2>1 DEF NoEarlier
<1>11. NoEarlier(seen[l], chunks[l] \o Unsent(l))
  BY <1>1, <1>2, <1>7, <1>9, AppendedNoEarlier DEF QueueContinues
<1>12. Continues(chunks[l] \o Unsent(l), Len(seen[l]), cycle)
  BY <1>1, <1>2, <1>3, <1>7, <1>8, <1>10, AppendedContinues DEF QueueContinues
<1>13. chunks[l] \o Unsent(l) \in Seq(Event)
       /\ Len(chunks[l] \o Unsent(l)) = Len(chunks[l]) + more
  BY <1>1, <1>7, ConcatProperties
<1> DEFINE all == chunks[l] \o Unsent(l)
<1>14. Len(all) = Len(chunks[l]) + more
  BY <1>13
<1> HIDE DEF all
<1>15. (Len(seen[l]) + Len(chunks[l])) + more = Len(seen[l]) + (Len(chunks[l]) + more)
  BY <1>3, <1>4, SumOfThree
<1>16. Reached(l) = Len(seen[l]) + Len(all)
  BY <1>2, <1>4, <1>14, <1>15, Zenon
<1> QED BY <1>11, <1>12, <1>13, <1>16 DEF all

\* An event of an earlier cycle stays one.
LEMMA LaterCycle ==
  ASSUME NEW s, NEW n, NEW c \in Nat, NEW d \in Nat, c <= d, Continues(s, n, c),
         s \in Seq(Event)
  PROVE  Continues(s, n, d)
<1>1. \A i \in 1 .. Len(s) : s[i].cycle \in Nat
  <2>1. \A i \in 1 .. Len(s) : s[i] \in Event
    BY ElementOfSeq
  <2> QED BY <2>1 DEF Event
<1> QED BY <1>1 DEF Continues

\* What one stream's step leaves of the others.
Unmoved(l) ==
    UNCHANGED <<source[l], writer[l], chunks[l], lastSequence[l], seen[l]>>

\* A stream that does not move keeps what holds of it.
LEMMA UnmovedKeeps ==
  ASSUME StreamInv, StreamTyped', NEW l \in Leases, Unmoved(l), cycle' \in {cycle, cycle + 1}
  PROVE  QueueContinues(l)' /\ SourceCounts(l)'
<1>1. cycle \in Nat /\ cycle' \in Nat /\ cycle <= cycle'
      /\ chunks[l] \in Seq(Event) /\ seen[l] \in Seq(Event)
  BY DEF StreamInv, StreamTyped
<1>2. Continues(seen[l], 0, cycle') /\ Continues(chunks[l], Len(seen[l]), cycle')
  BY <1>1, LaterCycle DEF StreamInv, QueueContinues
<1>3. NoEarlier(seen[l], chunks[l]) /\ SourceCounts(l)
  BY DEF StreamInv, QueueContinues
<1> QED BY <1>2, <1>3 DEF Unmoved, QueueContinues, SourceCounts

-----------------------------------------------------------------------------
\* A step of one stream: which it is, and that the others do not move.
LEMMA ServeKeeps ==
  ASSUME StreamInv, NEW l \in Leases, Serve(l) \/ Client(l)
  PROVE  StreamInv'
<1> USE DEF QueueContinues, SourceCounts
<1>1. cycle' = cycle /\ log' = log /\ cycle \in Nat /\ log \in Nat
  BY DEF Serve, Client, OpenStream, RefuseStream, Poll, WriteChunk, EndStream, Request,
         Drain, Disconnect, sessionVars, StreamInv, StreamTyped
<1>0. HandledAfterRequest'
  BY DEF Serve, Client, OpenStream, RefuseStream, Poll, WriteChunk, EndStream, Request,
         Drain, Disconnect, StreamInv, StreamTyped, HandledAfterRequest
<1>2. ASSUME StreamTyped', QueueContinues(l)', SourceCounts(l)',
             \A m \in Leases \ {l} : Unmoved(m)
      PROVE  StreamInv'
  <2>1. \A m \in Leases \ {l} : QueueContinues(m)' /\ SourceCounts(m)'
    BY <1>1, <1>2, UnmovedKeeps
  <2> QED BY <1>0, <1>2, <2>1 DEF StreamInv
<1>3. /\ QueueContinues(l) /\ SourceCounts(l)
      /\ chunks[l] \in Seq(Event) /\ seen[l] \in Seq(Event)
      /\ lastSequence[l] \in Nat
  <2>1. QueueContinues(l) /\ SourceCounts(l)
    BY DEF StreamInv
  <2>2. chunks[l] \in Seq(Event) /\ seen[l] \in Seq(Event) /\ lastSequence[l] \in Nat
    BY DEF StreamInv, StreamTyped
  <2> QED BY <2>1, <2>2
<1>4. CASE Request(l)
  <2>1. StreamTyped' /\ \A m \in Leases \ {l} : Unmoved(m)
    BY <1>1, <1>4 DEF Request, StreamInv, StreamTyped, Unmoved
  <2>2. writer[l] = "none"
    BY <1>4 DEF Request, StreamInv, HandledAfterRequest
  <2>3. QueueContinues(l)' /\ SourceCounts(l)'
    BY <1>1, <1>3, <1>4, <2>2 DEF Request
  <2> QED BY <1>2, <2>1, <2>3
<1>5. CASE OpenStream(l)
  <2>1. StreamTyped' /\ \A m \in Leases \ {l} : Unmoved(m)
    BY <1>1, <1>5 DEF OpenStream, StreamInv, StreamTyped, Unmoved
  <2>2. QueueContinues(l)'
    BY <1>1, <1>3, <1>5 DEF OpenStream
  <2>3. SourceCounts(l)'
    BY <1>3, <1>5 DEF OpenStream, StreamInv, StreamTyped
  <2> QED BY <1>2, <2>1, <2>2, <2>3
<1>6. CASE RefuseStream(l)
  BY <1>1, <1>2, <1>3, <1>6 DEF RefuseStream, StreamInv, StreamTyped, Unmoved
<1>7. CASE Poll(l)
  <2>1. CASE chunks' = [chunks EXCEPT ![l] = chunks[l] \o Unsent(l)]
             /\ lastSequence' = [lastSequence EXCEPT ![l] = Reached(l)] /\ UNCHANGED source
    <3>1. Reached(l) \in Nat
      BY <1>1, <1>3 DEF Reached, AtLeast
    <3>2. StreamTyped'
      BY <1>1, <1>7, <2>1, <3>1, PollContinues DEF Poll, StreamInv, StreamTyped
    <3>3. \A m \in Leases \ {l} : Unmoved(m)
      BY <1>7, <2>1 DEF Poll, StreamInv, StreamTyped, Unmoved
    <3>4. chunks'[l] = chunks[l] \o Unsent(l) /\ lastSequence'[l] = Reached(l)
          /\ UNCHANGED <<seen, writer>> /\ source[l] = "polling"
      BY <1>7, <2>1 DEF Poll, StreamInv, StreamTyped
    <3>5. QueueContinues(l)'
      BY <1>1, <1>3, <3>4, PollContinues
    <3>6. SourceCounts(l)'
      BY <1>3, <2>1, <3>4, PollContinues
    <3> QED BY <1>2, <3>2, <3>3, <3>5, <3>6
  <2>2. CASE source' = [source EXCEPT ![l] = "closed"] /\ UNCHANGED <<chunks, lastSequence>>
    BY <1>1, <1>2, <1>3, <1>7, <2>2 DEF Poll, StreamInv, StreamTyped, Unmoved
  <2>3. CASE source' = [source EXCEPT ![l] = "errored"]
             /\ chunks' = [chunks EXCEPT ![l] = <<>>] /\ UNCHANGED lastSequence
    <3>1. StreamTyped' /\ \A m \in Leases \ {l} : Unmoved(m)
      BY <1>1, <1>7, <2>3 DEF Poll, StreamInv, StreamTyped, Unmoved
    <3>2. chunks'[l] = <<>> /\ source'[l] = "errored" /\ UNCHANGED <<seen, writer>>
      BY <1>7, <2>3 DEF Poll, StreamInv, StreamTyped
    <3>3. QueueContinues(l)' /\ SourceCounts(l)'
      BY <1>1, <1>3, <1>7, <3>2, NothingContinues DEF Poll, NoEarlier
    <3> QED BY <1>2, <3>1, <3>3
  <2> QED BY <1>7, <2>1, <2>2, <2>3 DEF Poll
<1>8. CASE WriteChunk(l)
  <2> DEFINE u == Append(seen[l], Head(chunks[l]))
             v == Tail(chunks[l])
  <2>1. /\ u \in Seq(Event) /\ v \in Seq(Event)
        /\ Len(u) + Len(v) = Len(seen[l]) + Len(chunks[l])
        /\ Continues(u, 0, cycle) /\ Continues(v, Len(u), cycle) /\ NoEarlier(u, v)
    BY <1>1, <1>3, <1>8, MovedContinues DEF WriteChunk
  <2> HIDE DEF u, v
  <2>2. seen' = [seen EXCEPT ![l] = u] /\ chunks' = [chunks EXCEPT ![l] = v]
    BY <1>8 DEF WriteChunk, u, v
  <2>3. StreamTyped' /\ \A m \in Leases \ {l} : Unmoved(m)
    BY <1>1, <1>8, <2>1, <2>2 DEF WriteChunk, StreamInv, StreamTyped, Unmoved
  <2>4. seen'[l] = u /\ chunks'[l] = v /\ UNCHANGED <<source, lastSequence>>
        /\ writer'[l] \in {"reading", "blocked"}
    BY <1>8, <2>2 DEF WriteChunk, StreamInv, StreamTyped
  <2>5. QueueContinues(l)' /\ SourceCounts(l)'
    BY <1>1, <1>3, <2>1, <2>4
  <2> QED BY <1>2, <2>3, <2>5
<1>9. CASE EndStream(l)
  <2>1. StreamTyped' /\ \A m \in Leases \ {l} : Unmoved(m)
    BY <1>1, <1>9 DEF EndStream, StreamInv, StreamTyped, Unmoved
  <2>2. chunks'[l] = <<>> /\ source'[l] = "closed" /\ writer'[l] = "done" /\ UNCHANGED seen
    BY <1>9 DEF EndStream, StreamInv, StreamTyped
  <2>3. QueueContinues(l)' /\ SourceCounts(l)'
    BY <1>1, <1>3, <2>2, NothingContinues DEF NoEarlier
  <2> QED BY <1>2, <2>1, <2>3
<1>10. CASE Drain(l)
  BY <1>1, <1>2, <1>3, <1>10 DEF Drain, StreamInv, StreamTyped, Unmoved
<1>11. CASE Disconnect(l)
  BY <1>1, <1>2, <1>3, <1>11 DEF Disconnect, StreamInv, StreamTyped, Unmoved
<1> QED BY <1>4, <1>5, <1>6, <1>7, <1>8, <1>9, <1>10, <1>11 DEF Serve, Client

\* Every step keeps every stream in the order of its source.
LEMMA NextStreamInv == StreamInv /\ [StreamNext]_allVars => StreamInv'
<1> SUFFICES ASSUME StreamInv, [StreamNext]_allVars PROVE StreamInv'
  OBVIOUS
<1>1. CASE \E l \in Leases : Serve(l) \/ Client(l)
  BY <1>1, ServeKeeps
<1>2. ASSUME UNCHANGED <<source, writer, chunks, lastSequence, seen>>, StreamTyped',
             cycle' \in {cycle, cycle + 1}, conn' = conn \/ CloseConnections
      PROVE  StreamInv'
  <2>0. HandledAfterRequest'
    BY <1>2 DEF CloseConnections, StreamInv, StreamTyped, HandledAfterRequest
  <2>1. \A l \in Leases : Unmoved(l)
    BY <1>2 DEF Unmoved
  <2> QED BY <1>2, <2>0, <2>1, UnmovedKeeps DEF StreamInv
<1>3. CASE Session
  BY <1>2, <1>3 DEF Session, AddEvent, ResetSession, RemoveSession, streamVars, StreamInv,
                    StreamTyped
<1>4. CASE StopServer \/ IdleTimer \/ OtherActivity \/ TimePasses \/ ClockIsSet
  <2>1. UNCHANGED <<source, writer, chunks, lastSequence, seen, cycle, log>>
    BY <1>4 DEF StopServer, IdleTimer, OtherActivity, TimePasses, ClockIsSet, sessionVars,
                streamVars
  <2>2. conn' = conn \/ CloseConnections
    BY <1>4 DEF StopServer, IdleTimer, OtherActivity, TimePasses, ClockIsSet, streamVars
  <2>3. StreamTyped'
    BY <2>1, <2>2 DEF CloseConnections, StreamInv, StreamTyped
  <2> QED BY <1>2, <2>1, <2>2, <2>3
<1>5. CASE UNCHANGED allVars
  BY <1>2, <1>5 DEF allVars, sessionVars, streamVars, StreamInv, StreamTyped
<1> QED BY <1>1, <1>3, <1>4, <1>5 DEF StreamNext

\* The queues of every stream continue what its client has seen, through resets
\* and removals of the session, aborts and a shutdown.
THEOREM StreamInvariant == StreamSpec => []StreamInv
  BY InitStreamInv, NextStreamInv, PTL DEF StreamSpec

\* Every client sees the ids 1, 2, 3, ... of the live endpoint without a gap or a
\* repetition, and never an event of a cycle after one of a later cycle.
THEOREM StreamIsGaplessHolds == StreamSpec => []StreamIsGapless
<1>1. StreamInv => StreamIsGapless
  <2> SUFFICES ASSUME StreamInv, NEW l \in Leases, NEW i \in DOMAIN seen[l]
               PROVE  seen[l][i].seq = i
                      /\ \A j \in 1 .. i : seen[l][j].cycle <= seen[l][i].cycle
    BY DEF StreamIsGapless
  <2>1. seen[l] \in Seq(Event) /\ Continues(seen[l], 0, cycle)
    BY DEF StreamInv, StreamTyped, QueueContinues
  <2>2. i \in 1 .. Len(seen[l]) /\ Len(seen[l]) \in Nat
    BY <2>1, LenProperties
  <2> QED BY <2>1, <2>2 DEF Continues
<1> QED BY <1>1, StreamInvariant, PTL
=============================================================================
