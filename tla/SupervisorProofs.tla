------------------------- MODULE SupervisorProofs -------------------------
(***************************************************************************)
(* Proofs about DaemonSupervisor, for any number of commands, stops and    *)
(* daemons and any budget of crashes, deaths, late answers and timeouts:   *)
(* a daemon that serves is not evicted before ProbeAttempts health         *)
(* requests have timed out, one with sessions is stopped by nobody but the *)
(* stop command, and stop does not report success over a live daemon; and  *)
(* one daemon at most serves as long as no write is stale and no live      *)
(* daemon answers late.                                                    *)
(***************************************************************************)
EXTENDS DaemonSupervisor, TLAPS

\* Where a stop command can be: it takes no lock and starts no daemon.
StopPlaces == {"look", "shut", "drain", "probe", "evict", "gone", "done", "crashed"}

\* Where a call has a daemon to retire, and where it has a child.
Retiring == {"probe", "shut", "drain", "evict", "gone"}

Starting == {"await", "hear", "child", "reaped"}

\* What a call has read by the time it gets to a place.
PlaceInv ==
    /\ \A s \in Stops : pc[s] \in StopPlaces
    /\ \A c \in Calls :
          /\ pc[c] = "candidate" => owner[c] \in Ensures
          /\ pc[c] \in Retiring => seen[c] \in Daemons
          /\ pc[c] \in Starting => child[c] \in Daemons

\* Both loops that use tries begin from zero and end at their bound.
TriesInv ==
    \A c \in Calls :
        /\ pc[c] = "spawn" => tries[c] < SpawnAttempts
        /\ pc[c] \in Retiring \ {"probe"} => tries[c] = 0
        /\ c \in Stops /\ pc[c] = "look" => tries[c] = 0

\* The daemon has come up, or failed to: it will not come up again.
Past(d) == d \in Daemons => phase[d] \notin {"unborn", "starting"}

\* Only daemons that have come up are recorded, ready, or looked at.
KnownInv ==
    /\ Past(state)
    /\ \A e \in Ensures : Past(ready[e])
    /\ \A c \in Calls : Past(seen[c])

\* Against a daemon that serves, every probe without an answer is one health
\* request that has timed out.
PatienceInv ==
    \A c \in Calls : Serving(seen[c]) =>
        /\ pc[c] = "probe" => tries[c] <= slow
        /\ pc[c] = "evict" => ProbeAttempts <= slow

\* A replacement asks no busy daemon to stop, and starts no old one.
BusyInv ==
    /\ \A e \in Ensures : pc[e] = "shut" => seen[e] \notin Busy
    /\ \A c \in Calls : child[c] \notin Old

\* A stop command reads daemon.json once, and is done with it when its daemon
\* takes no requests.
StopInv ==
    \A s \in Stops :
        /\ pc[s] = "look" => seen[s] = NoDaemon /\ result[s] = "none"
        /\ pc[s] = "drain" => seen[s] \in asked

TypedInv == TypeOK /\ PlaceInv /\ TriesInv

SupervisorInv ==
    /\ TypedInv
    /\ KnownInv
    /\ PatienceInv
    /\ BusyInv
    /\ StopInv
    /\ slow < ProbeAttempts => BusyDaemonIsKept
    /\ StopMeansStopped

\* What no step does: bring a daemon up again that has come up before.
NoDaemonReturns ==
    \A x \in Daemons : phase[x] \notin {"unborn", "starting"} =>
        /\ phase'[x] \notin {"unborn", "starting"}
        /\ phase'[x] = "serving" => phase[x] = "serving"

\* The initial states satisfy the invariant.
LEMMA InitSupervisorInv == Init => SupervisorInv
<1> SUFFICES ASSUME Init PROVE SupervisorInv
  OBVIOUS
<1> USE SupervisorAssumption DEF Init, Calls
<1>1. TypedInv
  <2>1. aged \in BOOLEAN
    OBVIOUS
  <2>2. TypeOK
    BY <2>1 DEF TypeOK, Places, Phases
  <2>3. PlaceInv /\ TriesInv
    BY DEF PlaceInv, Retiring, Starting, StopPlaces, TriesInv
  <2> QED
    BY <2>2, <2>3 DEF TypedInv
<1>2. KnownInv /\ PatienceInv
  BY DEF KnownInv, Past, PatienceInv
<1>3. BusyInv /\ StopInv
  BY DEF BusyInv, StopInv
<1>4. BusyDaemonIsKept /\ StopMeansStopped
  BY DEF BusyDaemonIsKept, StopMeansStopped
<1> QED
  BY <1>1, <1>2, <1>3, <1>4 DEF SupervisorInv

-----------------------------------------------------------------------------
\* Every step keeps the types, and a call at a place has what it needs there.
LEMMA NextTyped ==
  ASSUME TypedInv, Next
  PROVE  TypedInv'
<1> USE SupervisorAssumption DEF TypedInv, TypeOK, PlaceInv, Retiring, Starting,
        StopPlaces, Calls, files, daemons, locals, budgets,
        Places, Phases, TriesInv
<1>1. ASSUME NEW c \in Calls, Look(c) \/ Ask(c) \/ GiveUp(c)
      PROVE  TypedInv'
  BY <1>1 DEF Look, Return, Goto, Ask, Heard, Unheard, Serving, Quiet, GiveUp,
      Fail
<1>2. ASSUME NEW c \in Calls, Mkdir(c)
      PROVE  TypedInv'
  <2>1. aged' \in BOOLEAN
    BY ONLY TypedInv, <1>2 DEF TypedInv, TypeOK, Mkdir
  <2>2. lock' \in {"absent", "unowned"} \cup Ensures
    BY <1>2 DEF Mkdir
  <2>3. UNCHANGED <<state, ready, daemons, holds, seen, owner, child, tries, result,
                   expired, budgets>>
    BY <1>2 DEF Mkdir, LockUnchanged
  <2>4. pc' = [pc EXCEPT ![c] = "own"] \/ pc' = [pc EXCEPT ![c] = "contend"]
    BY <1>2 DEF Mkdir, Goto
  <2>5. pc[c] = "mkdir"
    BY <1>2 DEF Mkdir
  <2> QED
    BY <2>1, <2>2, <2>3, <2>4, <2>5
<1>3. ASSUME NEW c \in Calls, WriteOwner(c)
      PROVE  TypedInv'
  BY <1>3 DEF WriteOwner, Fail, Goto, LockUnchanged
<1>4. ASSUME NEW c \in Calls, Contend(c)
      PROVE  TypedInv'
  BY <1>4 DEF Contend, Goto, LockUnchanged
<1>5. ASSUME NEW c \in Calls, CheckUnowned(c) \/ CheckOwner(c) \/ Break(c)
            \/ Release(c) \/ Unlock(c)
      PROVE  TypedInv'
  BY <1>5 DEF CheckUnowned, Goto, LockUnchanged, CheckOwner, Break, Release,
      Unlock
<1>6. ASSUME NEW c \in Calls, ReadCandidate(c) \/ Adopt(c) \/ Record(c)
            \/ Unready(c)
      PROVE  TypedInv'
  BY <1>6 DEF ReadCandidate, Goto, AdoptUnchanged, Adopt, Heard, Unheard,
      Serving, Quiet, Record, Unready
<1>7. ASSUME NEW c \in Calls, Retire(c) \/ Probe(c) \/ Shut(c) \/ Drain(c)
            \/ DrainTimesOut(c) \/ Evict(c) \/ Gone(c) \/ Kill(c)
      PROVE  TypedInv'
  BY <1>7 DEF Retire, Goto, RetireUnchanged, Probe, Heard, Unheard, Serving,
      Fail, Return, SilentForGood, Quiet, Shut, Refused, Drain, Proceed,
      DrainTimesOut, Evict, Terminate, Gone, Kill
<1>8. ASSUME NEW c \in Calls, NEW d \in Daemons, Spawn(c, d)
      PROVE  TypedInv'
  BY <1>8 DEF Spawn, Goto, SpawnUnchanged
<1>9. ASSUME NEW c \in Calls, SpawnFails(c) \/ Await(c) \/ Hear(c)
            \/ CheckChild(c) \/ AwaitTimesOut(c) \/ Reaped(c)
      PROVE  TypedInv'
  BY <1>9 DEF SpawnFails, Fail, Goto, SpawnUnchanged, Await, Hear, Heard,
      Unheard, Serving, Quiet, CheckChild, AwaitTimesOut, Terminate, Reaped
<1>10. ASSUME NEW c \in Calls, Crash(c) \/ Expire(c)
      PROVE  TypedInv'
  BY <1>10 DEF Crash, Goto, Ended, Expire
<1>11. ASSUME NEW d \in Daemons, PublishReady(d) \/ BeginStop(d)
            \/ ReadOwnState(d) \/ UnlinkState(d) \/ RemoveCandidate(d)
            \/ Exit(d) \/ Die(d)
      PROVE  TypedInv'
  BY <1>11 DEF PublishReady, DaemonUnchanged, BeginStop, ReadOwnState,
      UnlinkState, RemoveCandidate, Exit, Die
<1>12. ASSUME Age
      PROVE  TypedInv'
  BY <1>12 DEF Age
<1> QED
  BY <1>1, <1>2, <1>3, <1>4, <1>5, <1>6, <1>7, <1>8, <1>9, <1>10, <1>11, <1>12
     DEF Next, Step, Serve

\* A daemon comes up once: only its launcher's spawn and its own start move it
\* up, and both find it before that.
LEMMA NextNoDaemonReturns ==
  ASSUME TypedInv, Next
  PROVE  NoDaemonReturns
<1> USE SupervisorAssumption DEF TypedInv, TypeOK, PlaceInv, Retiring, Starting,
        StopPlaces, Calls, files, daemons, locals, budgets, NoDaemonReturns
<1>1. ASSUME NEW c \in Calls, Step(c)
      PROVE  NoDaemonReturns
  BY <1>1 DEF Step, Look, Return, Goto, Ask, Heard, Unheard, Quiet, Mkdir,
      LockUnchanged, WriteOwner, Fail, Contend, CheckUnowned, CheckOwner,
      Break, Release, Unlock, ReadCandidate, AdoptUnchanged, Adopt, Record,
      Unready, Retire, RetireUnchanged, Probe, SilentForGood, Shut, Refused,
      Drain, Proceed, Evict, Terminate, Gone, Spawn, SpawnUnchanged, Await,
      Hear, CheckChild, Reaped
<1>2. ASSUME NEW c \in Calls, GiveUp(c) \/ Crash(c) \/ Expire(c)
            \/ AwaitTimesOut(c) \/ DrainTimesOut(c) \/ Kill(c) \/ SpawnFails(c)
      PROVE  NoDaemonReturns
  BY <1>2 DEF GiveUp, Fail, Goto, Crash, Expire, AwaitTimesOut, Terminate,
      SpawnUnchanged, DrainTimesOut, Refused, RetireUnchanged, Kill, SpawnFails
<1>3. ASSUME NEW d \in Daemons, Serve(d) \/ Die(d)
      PROVE  NoDaemonReturns
  BY <1>3 DEF Serve, PublishReady, DaemonUnchanged, BeginStop, ReadOwnState,
      UnlinkState, RemoveCandidate, Exit, Die
<1>4. ASSUME Age
      PROVE  NoDaemonReturns
  BY <1>4 DEF Age
<1> QED
  BY <1>1, <1>2, <1>3, <1>4 DEF Next

\* What is recorded, ready or looked at has come up: it was published by the
\* daemon itself, and is copied from then on.
LEMMA NextKnown ==
  ASSUME TypedInv, KnownInv, NoDaemonReturns, Next
  PROVE  KnownInv'
<1> USE SupervisorAssumption DEF TypedInv, TypeOK, PlaceInv, Retiring, Starting,
        StopPlaces, Calls, files, daemons, locals, budgets, KnownInv, Past,
        NoDaemonReturns
<1>1. ASSUME NEW c \in Calls, Step(c)
      PROVE  KnownInv'
  BY <1>1 DEF Step, Look, Return, Goto, Ask, Heard, Unheard, Serving, Quiet,
      Mkdir, LockUnchanged, WriteOwner, Fail, Contend, CheckUnowned,
      CheckOwner, Break, Release, Unlock, ReadCandidate, AdoptUnchanged, Adopt,
      Record, Unready, Retire, RetireUnchanged, Probe, SilentForGood, Shut,
      Refused, Drain, Proceed, Evict, Terminate, Gone, Spawn, SpawnUnchanged,
      Await, Hear, CheckChild, Reaped
<1>2. ASSUME NEW c \in Calls, GiveUp(c) \/ Crash(c) \/ Expire(c)
            \/ AwaitTimesOut(c) \/ DrainTimesOut(c) \/ Kill(c) \/ SpawnFails(c)
      PROVE  KnownInv'
  BY <1>2 DEF GiveUp, Fail, Goto, Crash, Expire, AwaitTimesOut, Terminate,
      SpawnUnchanged, DrainTimesOut, Refused, RetireUnchanged, Kill, SpawnFails
<1>3. ASSUME NEW d \in Daemons, Serve(d) \/ Die(d)
      PROVE  KnownInv'
  BY <1>3 DEF Serve, PublishReady, DaemonUnchanged, BeginStop, ReadOwnState,
      UnlinkState, RemoveCandidate, Exit, Die
<1>4. ASSUME Age
      PROVE  KnownInv'
  BY <1>4 DEF Age
<1> QED
  BY <1>1, <1>2, <1>3, <1>4 DEF Next

\* Probes without an answer of a daemon that serves use up the budget of late
\* answers one by one.
LEMMA NextPatience ==
  ASSUME TypedInv, TypedInv', KnownInv, NoDaemonReturns, PatienceInv, Next
  PROVE  PatienceInv'
<1> USE SupervisorAssumption DEF TypedInv, TypeOK, PlaceInv, Retiring, Starting,
        StopPlaces, Calls, files, daemons, locals, budgets, TriesInv, KnownInv, Past,
        NoDaemonReturns, PatienceInv, Serving
<1>1. ASSUME NEW c \in Calls, Step(c)
      PROVE  PatienceInv'
  BY <1>1 DEF Step, Look, Return, Goto, Ask, Heard, Unheard, Quiet, Mkdir,
      LockUnchanged, WriteOwner, Fail, Contend, CheckUnowned, CheckOwner,
      Break, Release, Unlock, ReadCandidate, AdoptUnchanged, Adopt, Record,
      Unready, Retire, RetireUnchanged, Probe, SilentForGood, Shut, Refused,
      Drain, Proceed, Evict, Terminate, Gone, Spawn, SpawnUnchanged, Await,
      Hear, CheckChild, Reaped
<1>2. ASSUME NEW c \in Calls, GiveUp(c) \/ Crash(c) \/ Expire(c)
            \/ AwaitTimesOut(c) \/ DrainTimesOut(c) \/ Kill(c) \/ SpawnFails(c)
      PROVE  PatienceInv'
  BY <1>2 DEF GiveUp, Fail, Goto, Crash, Expire, AwaitTimesOut, Terminate,
      SpawnUnchanged, DrainTimesOut, Refused, RetireUnchanged, Kill, SpawnFails
<1>3. ASSUME NEW d \in Daemons, Serve(d) \/ Die(d)
      PROVE  PatienceInv'
  BY <1>3 DEF Serve, PublishReady, DaemonUnchanged, BeginStop, ReadOwnState,
      UnlinkState, RemoveCandidate, Exit, Die
<1>4. ASSUME Age
      PROVE  PatienceInv'
  BY <1>4 DEF Age
<1> QED
  BY <1>1, <1>2, <1>3, <1>4 DEF Next

\* A replacement gets to its shutdown request past a probe that found no
\* sessions.
LEMMA NextBusy ==
  ASSUME TypedInv, BusyInv, Next
  PROVE  BusyInv'
<1> USE SupervisorAssumption DEF TypedInv, TypeOK, PlaceInv, Retiring, Starting,
        StopPlaces, Calls, files, daemons, locals, budgets, BusyInv
<1>1. ASSUME NEW c \in Calls, Step(c)
      PROVE  BusyInv'
  BY <1>1 DEF Step, Look, Return, Goto, Ask, Heard, Unheard, Serving, Quiet,
      Mkdir, LockUnchanged, WriteOwner, Fail, Contend, CheckUnowned,
      CheckOwner, Break, Release, Unlock, ReadCandidate, AdoptUnchanged, Adopt,
      Record, Unready, Retire, RetireUnchanged, Probe, SilentForGood, Shut,
      Refused, Drain, Proceed, Evict, Terminate, Gone, Spawn, SpawnUnchanged,
      Await, Hear, CheckChild, Reaped, InUse
<1>2. ASSUME NEW c \in Calls, GiveUp(c) \/ Crash(c) \/ Expire(c)
            \/ AwaitTimesOut(c) \/ DrainTimesOut(c) \/ Kill(c) \/ SpawnFails(c)
      PROVE  BusyInv'
  BY <1>2 DEF GiveUp, Fail, Goto, Crash, Expire, AwaitTimesOut, Terminate,
      SpawnUnchanged, DrainTimesOut, Refused, RetireUnchanged, Kill,
      SpawnFails, InUse
<1>3. ASSUME NEW d \in Daemons, Serve(d) \/ Die(d)
      PROVE  BusyInv'
  BY <1>3 DEF Serve, PublishReady, DaemonUnchanged, BeginStop, ReadOwnState,
      UnlinkState, RemoveCandidate, Exit, Die, InUse
<1>4. ASSUME Age
      PROVE  BusyInv'
  BY <1>4 DEF Age
<1> QED
  BY <1>1, <1>2, <1>3, <1>4 DEF Next

\* A stop command looks once.
LEMMA NextStop ==
  ASSUME TypedInv, StopInv, Next
  PROVE  StopInv'
<1> USE SupervisorAssumption DEF TypedInv, TypeOK, PlaceInv, Retiring, Starting,
        StopPlaces, Calls, files, daemons, locals, budgets, StopInv
<1>1. ASSUME NEW c \in Calls, Step(c)
      PROVE  StopInv'
  BY <1>1 DEF Step, Look, Return, Goto, Ask, Heard, Unheard, Serving, Quiet,
      Mkdir, LockUnchanged, WriteOwner, Fail, Contend, CheckUnowned,
      CheckOwner, Break, Release, Unlock, ReadCandidate, AdoptUnchanged, Adopt,
      Record, Unready, Retire, RetireUnchanged, Probe, SilentForGood, Shut,
      Refused, Drain, Proceed, Evict, Terminate, Gone, Spawn, SpawnUnchanged,
      Await, Hear, CheckChild, Reaped
<1>2. ASSUME NEW c \in Calls, GiveUp(c) \/ Crash(c) \/ Expire(c)
            \/ AwaitTimesOut(c) \/ DrainTimesOut(c) \/ Kill(c) \/ SpawnFails(c)
      PROVE  StopInv'
  BY <1>2 DEF GiveUp, Fail, Goto, Crash, Expire, AwaitTimesOut, Terminate,
      SpawnUnchanged, DrainTimesOut, Refused, RetireUnchanged, Kill, SpawnFails
<1>3. ASSUME NEW d \in Daemons, Serve(d) \/ Die(d)
      PROVE  StopInv'
  BY <1>3 DEF Serve, PublishReady, DaemonUnchanged, BeginStop, ReadOwnState,
      UnlinkState, RemoveCandidate, Exit, Die
<1>4. ASSUME Age
      PROVE  StopInv'
  BY <1>4 DEF Age
<1> QED
  BY <1>1, <1>2, <1>3, <1>4 DEF Next

-----------------------------------------------------------------------------
\* Who is asked to stop: no daemon with sessions by a replacement, unless it
\* was too slow for all the probes.
LEMMA NextBusyKept ==
  ASSUME SupervisorInv, Next
  PROVE  (slow < ProbeAttempts => BusyDaemonIsKept)'
<1> USE SupervisorAssumption DEF TypedInv, TypeOK, PlaceInv, Retiring, Starting,
        StopPlaces, Calls, files, daemons, locals, budgets, SupervisorInv, StopInv,
        BusyInv, PatienceInv, Serving, BusyDaemonIsKept
<1>1. ASSUME NEW c \in Calls, Step(c)
      PROVE  (slow < ProbeAttempts => BusyDaemonIsKept)'
  BY <1>1 DEF Step, Look, Return, Goto, Ask, Heard, Unheard, Quiet, Mkdir,
      LockUnchanged, WriteOwner, Fail, Contend, CheckUnowned, CheckOwner,
      Break, Release, Unlock, ReadCandidate, AdoptUnchanged, Adopt, Record,
      Unready, Retire, RetireUnchanged, Probe, SilentForGood, Shut, Refused,
      Drain, Proceed, Evict, Terminate, Gone, Spawn, SpawnUnchanged, Await,
      Hear, CheckChild, Reaped
<1>2. ASSUME NEW c \in Calls, GiveUp(c) \/ Crash(c) \/ Expire(c)
            \/ AwaitTimesOut(c) \/ DrainTimesOut(c) \/ Kill(c) \/ SpawnFails(c)
      PROVE  (slow < ProbeAttempts => BusyDaemonIsKept)'
  BY <1>2 DEF GiveUp, Fail, Goto, Crash, Expire, AwaitTimesOut, Terminate,
      SpawnUnchanged, DrainTimesOut, Refused, RetireUnchanged, Kill, SpawnFails
<1>3. ASSUME NEW d \in Daemons, Serve(d) \/ Die(d)
      PROVE  (slow < ProbeAttempts => BusyDaemonIsKept)'
  BY <1>3 DEF Serve, PublishReady, DaemonUnchanged, BeginStop, ReadOwnState,
      UnlinkState, RemoveCandidate, Exit, Die
<1>4. ASSUME Age
      PROVE  (slow < ProbeAttempts => BusyDaemonIsKept)'
  BY <1>4 DEF Age
<1> QED
  BY <1>1, <1>2, <1>3, <1>4 DEF Next

\* When stop has ended well, its daemon takes no more requests, or was asked.
LEMMA NextStopped ==
  ASSUME SupervisorInv, NoDaemonReturns, Next
  PROVE  StopMeansStopped'
<1> USE SupervisorAssumption DEF TypedInv, TypeOK, PlaceInv, Retiring, Starting,
        StopPlaces, Calls, files, daemons, locals, budgets, SupervisorInv, KnownInv, Past,
        NoDaemonReturns, StopInv, Up, StopMeansStopped
<1>1. ASSUME NEW c \in Calls, Step(c)
      PROVE  StopMeansStopped'
  BY <1>1 DEF Step, Look, Return, Goto, Ask, Heard, Unheard, Serving, Quiet,
      Mkdir, LockUnchanged, WriteOwner, Fail, Contend, CheckUnowned,
      CheckOwner, Break, Release, Unlock, ReadCandidate, AdoptUnchanged, Adopt,
      Record, Unready, Retire, RetireUnchanged, Probe, SilentForGood, Shut,
      Refused, Drain, Proceed, Evict, Terminate, Gone, Spawn, SpawnUnchanged,
      Await, Hear, CheckChild, Reaped
<1>2. ASSUME NEW c \in Calls, GiveUp(c) \/ Crash(c) \/ Expire(c)
            \/ AwaitTimesOut(c) \/ DrainTimesOut(c) \/ Kill(c) \/ SpawnFails(c)
      PROVE  StopMeansStopped'
  BY <1>2 DEF GiveUp, Fail, Goto, Crash, Expire, AwaitTimesOut, Terminate,
      SpawnUnchanged, DrainTimesOut, Refused, RetireUnchanged, Kill, SpawnFails
<1>3. ASSUME NEW d \in Daemons, Serve(d) \/ Die(d)
      PROVE  StopMeansStopped'
  BY <1>3 DEF Serve, PublishReady, DaemonUnchanged, BeginStop, ReadOwnState,
      UnlinkState, RemoveCandidate, Exit, Die
<1>4. ASSUME Age
      PROVE  StopMeansStopped'
  BY <1>4 DEF Age
<1> QED
  BY <1>1, <1>2, <1>3, <1>4 DEF Next

-----------------------------------------------------------------------------
\* The invariant is inductive.
LEMMA NextSupervisorInv ==
  ASSUME SupervisorInv, Next
  PROVE  SupervisorInv'
<1>1. TypedInv'
  BY NextTyped DEF SupervisorInv
<1>2. NoDaemonReturns
  BY NextNoDaemonReturns DEF SupervisorInv
<1>3. KnownInv'
  BY <1>2, NextKnown DEF SupervisorInv
<1>4. PatienceInv'
  BY <1>1, <1>2, NextPatience DEF SupervisorInv
<1>5. BusyInv' /\ StopInv'
  BY NextBusy, NextStop DEF SupervisorInv
<1>6. (slow < ProbeAttempts => BusyDaemonIsKept)' /\ StopMeansStopped'
  BY <1>2, NextBusyKept, NextStopped
<1> QED
  BY <1>1, <1>3, <1>4, <1>5, <1>6 DEF SupervisorInv

\* Steps that change nothing keep it too.
LEMMA StutterSupervisorInv ==
  ASSUME SupervisorInv, UNCHANGED vars
  PROVE  SupervisorInv'
  BY DEF vars, files, daemons, locals, budgets, SupervisorInv, TypedInv, TypeOK, PlaceInv,
         Retiring, Starting, TriesInv, KnownInv, Past, PatienceInv, Serving, BusyInv,
         StopInv,
         BusyDaemonIsKept, StopMeansStopped, Up

\* The inductive invariant holds in every reachable state: the files, the calls and
\* the daemons fit together as the parts of SupervisorInv say.
THEOREM SupervisorInvariant == Spec => []SupervisorInv
<1>1. Init => SupervisorInv
  BY InitSupervisorInv
<1>2. SupervisorInv /\ [Next]_vars => SupervisorInv'
  BY NextSupervisorInv, StutterSupervisorInv
<1> QED
  BY <1>1, <1>2, PTL DEF Spec

\* Every variable keeps its type, and the loops of probes and of children their
\* bounds, for any numbers of either.
THEOREM SupervisorTyped == Spec => []TypeOK
<1>1. SupervisorInv => TypeOK
  BY DEF SupervisorInv, TypedInv
<1> QED
  BY <1>1, SupervisorInvariant, PTL

\* A process that has served and stopped does not come back: what was read of
\* it before stays true of it.
THEOREM NoDaemonReturnsHolds == Spec => [][NoDaemonReturns]_vars
<1>1. SupervisorInv /\ [Next]_vars => [NoDaemonReturns]_vars
  BY NextNoDaemonReturns DEF SupervisorInv
<1> QED
  BY <1>1, SupervisorInvariant, PTL DEF Spec

\* As long as fewer than ProbeAttempts health requests have timed out, nobody is
\* about to signal a daemon that serves, whatever the interleaving.
THEOREM PatienceKeepsTheDaemon == Spec => [](slow < ProbeAttempts => HealthyDaemonIsKept)
<1>1. SupervisorInv => (slow < ProbeAttempts => HealthyDaemonIsKept)
  BY SupervisorAssumption DEF SupervisorInv, TypedInv, TypeOK, PatienceInv,
     HealthyDaemonIsKept
<1> QED
  BY <1>1, SupervisorInvariant, PTL

\* So a system in which so few are late at all never does.
THEOREM HealthyDaemonIsKeptHolds ==
  ASSUME MaxSlow < ProbeAttempts
  PROVE  Spec => []HealthyDaemonIsKept
<1>1. SupervisorInv => HealthyDaemonIsKept
  BY SupervisorAssumption DEF SupervisorInv, TypedInv, TypeOK, PatienceInv,
     HealthyDaemonIsKept
<1> QED
  BY <1>1, SupervisorInvariant, PTL

\* A daemon with sessions is asked to stop by the stop command only.
THEOREM BusyDaemonIsKeptHolds ==
  ASSUME MaxSlow < ProbeAttempts
  PROVE  Spec => []BusyDaemonIsKept
<1>1. SupervisorInv => BusyDaemonIsKept
  BY SupervisorAssumption DEF SupervisorInv, TypedInv, TypeOK
<1> QED
  BY <1>1, SupervisorInvariant, PTL

\* When stop reports success its daemon does not serve or was told to stop,
\* however late the answers and whatever else runs.
THEOREM StopMeansStoppedHolds == Spec => []StopMeansStopped
<1>1. SupervisorInv => StopMeansStopped
  BY DEF SupervisorInv
<1> QED
  BY <1>1, SupervisorInvariant, PTL

-----------------------------------------------------------------------------
(***************************************************************************)
(* One service.  Three steps write by path what was judged in an earlier   *)
(* one: breaking a lock, recording an adopted daemon, and removing         *)
(* daemon.json.  Such a write is stale when what it removes or replaces is *)
(* no longer what was judged.  In the behaviours without a stale write,    *)
(* and without a late answer of a live daemon, there is one daemon at most *)
(* and the next command finds it, whatever dies, crashes or times out.     *)
(* TLC finds two daemons as soon as one of the four is allowed: they are   *)
(* what there is to mend, and all there is to mend.                        *)
(***************************************************************************)
StaleBreak(c) == Break(c) /\ lock \notin {"absent", owner[c]} /\ ~Abandoned

StaleRecord(c) == Record(c) /\ c \notin holds /\ lock # owner[c]

StaleUnlink(d) == UnlinkState(d) /\ state # d

StaleWrite ==
    \/ \E c \in Calls : StaleBreak(c) \/ StaleRecord(c)
    \/ \E d \in Daemons : StaleUnlink(d)

LateAnswer == slow' # slow

CarefulNext == Next /\ ~StaleWrite /\ ~LateAnswer

CarefulSpec == Init /\ [][CarefulNext]_vars

\* Where a call holds the lock, and where it has not taken it.
Holding == {"release", "unlock", "retire", "spawn"} \cup Starting

Contending == {"mkdir", "own", "contend", "unowned", "candidate", "adopt", "expiry", "adopted",
               "break"}

Adopting == {"candidate", "adopt", "expiry", "adopted"}

\* mkdir excludes, and so does owner.json from then on: the creator of a
\* directory without an owner is alone, and a live holder finds its own name.
LockInv ==
    /\ \A c \in Calls : pc[c] = "own" => lock = "unowned" /\ ~aged
    /\ \A b, c \in Calls : pc[b] = "own" /\ pc[c] = "own" => b = c
    /\ \A c \in holds : ~Ended(c) => lock = c
    /\ lock \in Ensures => lock \in holds

\* A call is where its lock lets it be.
HoldsInv ==
    /\ \A c \in Calls : pc[c] \in Contending => c \notin holds
    /\ \A c \in Calls : pc[c] \in Holding => c \in holds
    /\ \A e \in Ensures : pc[e] \in Retiring => e \in holds

\* Whoever is named as the owner of a lock has had it, and is dead before anyone
\* looks for its daemon, breaks its lock or finds it overdue.
OwnerHeld == \A c \in Calls : owner[c] # NoCall => owner[c] \in holds

OwnerEnded ==
    \A c \in Calls :
        pc[c] \in Adopting \/ (pc[c] \in {"record", "unready"} /\ c \notin holds) =>
            owner[c] \in Ensures /\ Ended(owner[c])

BrokenEnded == \A c \in Calls : pc[c] = "break" /\ lock = owner[c] => Ended(owner[c])

ExpiredEnded == \A c \in expired : Ended(c)

OwnerInv == OwnerHeld /\ OwnerEnded /\ BrokenEnded /\ ExpiredEnded

\* A daemon that is up is the last child of its launcher, whose other children
\* are dead.
ChildInv ==
    /\ \A d \in Daemons : phase[d] = "starting" => launcher[d] \in Ensures
    /\ \A d \in Daemons : phase[d] = "unborn" => launcher[d] = NoCall
    /\ \A d \in Daemons : launcher[d] \in Ensures /\ child[launcher[d]] # d => phase[d] = "dead"
    /\ \A c \in Calls : child[c] \in Daemons =>
          /\ launcher[child[c]] = c
          /\ c \in holds
          /\ pc[c] \in Starting \cup {"spawn", "record", "unready", "release", "unlock", "done",
                                      "crashed"}
          /\ pc[c] = "spawn" => phase[child[c]] = "dead"
    /\ \A d \in Daemons : launcher[d] \in expired => phase[d] # "starting"

\* The daemons that are up are those that daemon.json names, and those that the
\* holder of the lock has started; of the two kinds there is one at a time.
UpInv ==
    /\ OneService
    /\ \A d \in Up : state = d \/ (launcher[d] \in Ensures /\ lock = launcher[d])
    /\ lock \in Ensures /\ child[lock] \in Daemons => Up \subseteq {child[lock]}

\* What the holder of the lock knows of them.
HolderInv ==
    \A e \in Ensures :
        /\ pc[e] = "spawn" => Up = {}
        /\ pc[e] \in Retiring => Up \subseteq {seen[e]}
        /\ pc[e] = "record" /\ e \in holds => Up \subseteq {seen[e]}
        /\ pc[e] = "unready" /\ e \in holds => Up \subseteq {state}
        /\ pc[e] \in {"release", "unlock"} => Up \subseteq {state}

\* What a contender knows of them while the lock is still the one it judged.
AdopterInv ==
    \A e \in Ensures : lock = owner[e] =>
        /\ pc[e] = "record" /\ e \notin holds => Up \subseteq {seen[e]}
        /\ pc[e] = "unready" /\ e \notin holds => Up \subseteq {state}
        /\ pc[e] \in {"adopted", "break"} => Up \subseteq {state}
        /\ pc[e] = "expiry" /\ owner[e] \in expired => Up \subseteq {state}
        /\ pc[e] = "adopt" /\ owner[e] \in expired => Up \subseteq {state, seen[e]}

\* A daemon that serves and is not recorded is there to be adopted.
ReadyInv ==
    \A d \in Daemons : phase[d] = "serving" =>
        state = d \/ (launcher[d] \in Ensures /\ ready[launcher[d]] = d)

ServiceInv ==
    /\ LockInv
    /\ HoldsInv
    /\ OwnerInv
    /\ ChildInv
    /\ UpInv
    /\ HolderInv
    /\ AdopterInv
    /\ ReadyInv

\* How startup.lock changes: it is made where there is none, given an owner by its
\* creator, and removed by its holder or by a contender that judged it.
LockMoves ==
    \/ lock' = lock
    \/ lock = "absent" /\ lock' = "unowned"
    \/ \E e \in Ensures : pc[e] = "own" /\ lock # "absent" /\ lock' = e
    \/ /\ lock' = "absent"
       /\ \/ lock = "absent"
          \/ Abandoned
          \/ \E e \in Ensures : pc[e] = "break" /\ lock = owner[e]
          \/ \E e \in Ensures : pc[e] = "unlock"

\* How daemon.json changes: to a daemon that was launched or adopted under the
\* lock, or from one that does not run to none.
Recorded(e) == pc[e] = "record" /\ state' = seen[e] /\ (e \in holds \/ lock = owner[e])

StateMoves ==
    \/ state' = state
    \/ \E e \in Ensures : Recorded(e)
    \/ state \notin Up /\ state' = NoDaemon

\* How the ready candidates change, as far as a daemon that serves is concerned.
ReadyMoves(d) ==
    \/ ready' = ready /\ (phase'[d] = "serving" => phase[d] = "serving")
    \/ \E x \in Daemons : PublishReady(x) \/ RemoveCandidate(x)
    \/ phase' = phase /\ \E c \in Calls : Unready(c)

\* What happens to a call in a step: nothing that the invariants speak of, or it
\* gets to a place in one of the ways that lead there.
Stays(c) ==
    /\ pc'[c] = pc[c]
    /\ owner'[c] = owner[c]
    /\ seen'[c] = seen[c]
    /\ child'[c] = child[c]
    /\ c \in holds' <=> c \in holds

Arrives(c) ==
    \/ pc'[c] \in {"look", "ask", "mkdir", "contend", "unowned", "await", "hear", "child",
                   "reaped", "retire", "done", "crashed"}
    \/ pc'[c] = "own" /\ Mkdir(c)
    \/ pc'[c] = "candidate" /\ Contend(c)
    \/ pc'[c] = "adopt" /\ ReadCandidate(c)
    \/ pc'[c] = "expiry" /\ (ReadCandidate(c) \/ Adopt(c))
    \/ pc'[c] = "adopted" /\ Unready(c)
    \/ pc'[c] = "break" /\ (CheckUnowned(c) \/ CheckOwner(c))
    \/ pc'[c] = "record" /\ (Adopt(c) \/ Hear(c))
    \/ pc'[c] = "unready" /\ Record(c)
    \/ pc'[c] = "probe" /\ (Retire(c) \/ Probe(c) \/ c \in Stops)
    \/ pc'[c] = "shut" /\ (Probe(c) \/ c \in Stops)
    \/ pc'[c] = "drain" /\ Shut(c)
    \/ pc'[c] = "evict" /\ Probe(c)
    \/ pc'[c] = "gone" /\ Evict(c)
    \/ pc'[c] = "spawn" /\ (Retire(c) \/ Drain(c) \/ Gone(c) \/ SpawnFails(c) \/ CheckChild(c))
    \/ pc'[c] = "release" /\ (Ask(c) \/ Probe(c) \/ Shut(c) \/ DrainTimesOut(c) \/ SpawnFails(c)
                             \/ CheckChild(c) \/ Reaped(c) \/ Unready(c))
    \/ pc'[c] = "unlock" /\ Release(c)

-----------------------------------------------------------------------------
\* Between two steps of a call nothing of it changes, and each of its steps leads
\* to a place that belongs to the step.
LEMMA NextArrives ==
  ASSUME TypedInv, HoldsInv, Next, NEW b \in Calls
  PROVE  Stays(b) \/ Arrives(b)
<1> USE SupervisorAssumption DEF TypedInv, TypeOK, PlaceInv, Retiring, Starting,
        StopPlaces, Calls, files, daemons, locals, budgets, HoldsInv, Holding, Contending,
        Stays, Arrives
<1>1. ASSUME NEW c \in Calls, Step(c)
      PROVE  Stays(b) \/ Arrives(b)
  <2>1. CASE Look(c) \/ Ask(c)
    BY <2>1 DEF Look, Return, Goto, Ask, Heard, Unheard, Serving, Quiet
  <2>2. CASE Mkdir(c) \/ WriteOwner(c) \/ Contend(c) \/ CheckUnowned(c) \/ CheckOwner(c)
             \/ Break(c) \/ Release(c) \/ Unlock(c)
    BY <2>2 DEF Mkdir, LockUnchanged, WriteOwner, Fail, Goto, Contend, CheckUnowned,
        CheckOwner, Break, Release, Unlock, Return
  <2>3. CASE ReadCandidate(c) \/ Adopt(c) \/ Record(c) \/ Unready(c)
    BY <2>3 DEF ReadCandidate, AdoptUnchanged, Adopt, Record, Unready, Return, Goto,
        Heard, Unheard, Serving, Quiet
  <2>4. CASE Retire(c) \/ Probe(c) \/ Shut(c) \/ Drain(c) \/ Evict(c) \/ Gone(c)
    BY <2>4 DEF Retire, RetireUnchanged, Probe, SilentForGood, Shut, Refused, Drain,
        Proceed, Evict, Terminate, Gone, Return, Goto, Fail, Heard, Unheard, Serving, Quiet
  <2>5. CASE (\E d \in Daemons : Spawn(c, d)) \/ Await(c) \/ Hear(c)
             \/ CheckChild(c) \/ Reaped(c)
    BY <2>5 DEF Spawn, SpawnUnchanged, Await, Hear, CheckChild, Reaped, Return, Goto, Fail,
        Heard, Unheard, Serving, Quiet
  <2> QED BY <1>1, <2>1, <2>2, <2>3, <2>4, <2>5 DEF Step
<1>2. ASSUME NEW c \in Calls, GiveUp(c) \/ Crash(c) \/ Expire(c)
            \/ AwaitTimesOut(c) \/ DrainTimesOut(c) \/ Kill(c) \/ SpawnFails(c)
      PROVE  Stays(b) \/ Arrives(b)
  BY <1>2 DEF GiveUp, Fail, Goto, Crash, Expire, AwaitTimesOut, Terminate,
      SpawnUnchanged, DrainTimesOut, Refused, RetireUnchanged, Kill, SpawnFails
<1>3. ASSUME NEW d \in Daemons, Serve(d) \/ Die(d)
      PROVE  Stays(b) \/ Arrives(b)
  BY <1>3 DEF Serve, PublishReady, DaemonUnchanged, BeginStop, ReadOwnState,
      UnlinkState, RemoveCandidate, Exit, Die
<1>4. ASSUME Age
      PROVE  Stays(b) \/ Arrives(b)
  BY <1>4 DEF Age
<1> QED
  BY <1>1, <1>2, <1>3, <1>4 DEF Next

\* The lock moves in no other way when it is not broken late.
LEMMA NextLock ==
  ASSUME TypedInv, HoldsInv, Next, ~StaleWrite
  PROVE  LockMoves
<1> USE SupervisorAssumption DEF TypedInv, TypeOK, PlaceInv, Retiring, Starting,
        StopPlaces, Calls, files, daemons, locals, budgets,
        StaleWrite, StaleBreak, LockMoves
<1>1. ASSUME NEW c \in Calls, Step(c)
      PROVE  LockMoves
  BY <1>1 DEF Step, Look, Return, Goto, Ask, Heard, Unheard, Serving, Quiet,
      Mkdir, LockUnchanged, WriteOwner, Fail, Contend, CheckUnowned,
      CheckOwner, Break, Release, Unlock, ReadCandidate, AdoptUnchanged, Adopt,
      Record, Unready, Retire, RetireUnchanged, Probe, SilentForGood, Shut,
      Refused, Drain, Proceed, Evict, Terminate, Gone, Spawn, SpawnUnchanged,
      Await, Hear, CheckChild, Reaped
<1>2. ASSUME NEW c \in Calls, GiveUp(c) \/ Crash(c) \/ Expire(c)
            \/ AwaitTimesOut(c) \/ DrainTimesOut(c) \/ Kill(c) \/ SpawnFails(c)
      PROVE  LockMoves
  BY <1>2 DEF GiveUp, Fail, Goto, Crash, Expire, AwaitTimesOut, Terminate,
      SpawnUnchanged, DrainTimesOut, Refused, RetireUnchanged, Kill, SpawnFails
<1>3. ASSUME NEW d \in Daemons, Serve(d) \/ Die(d)
      PROVE  LockMoves
  BY <1>3 DEF Serve, PublishReady, DaemonUnchanged, BeginStop, ReadOwnState,
      UnlinkState, RemoveCandidate, Exit, Die
<1>4. ASSUME Age
      PROVE  LockMoves
  BY <1>4 DEF Age
<1> QED
  BY <1>1, <1>2, <1>3, <1>4 DEF Next

\* Only a spawn adds to the daemons that are up.
LEMMA NextUp ==
  ASSUME TypedInv, Next
  PROVE  \/ Up' \subseteq Up /\ UNCHANGED <<launcher, child>>
         \/ \E c \in Ensures, d \in Daemons : Spawn(c, d)
<1> USE SupervisorAssumption DEF TypedInv, TypeOK, PlaceInv, Retiring, Starting,
        StopPlaces, Calls, files, daemons, locals, budgets, Up
<1>1. ASSUME NEW c \in Calls, Step(c)
      PROVE  \/ Up' \subseteq Up /\ UNCHANGED <<launcher, child>>
             \/ \E b \in Ensures, x \in Daemons : Spawn(b, x)
  BY <1>1 DEF Step, Look, Return, Goto, Ask, Heard, Unheard, Serving, Quiet,
      Mkdir, LockUnchanged, WriteOwner, Fail, Contend, CheckUnowned,
      CheckOwner, Break, Release, Unlock, ReadCandidate, AdoptUnchanged, Adopt,
      Record, Unready, Retire, RetireUnchanged, Probe, SilentForGood, Shut,
      Refused, Drain, Proceed, Evict, Terminate, Gone, Spawn, SpawnUnchanged,
      Await, Hear, CheckChild, Reaped
<1>2. ASSUME NEW c \in Calls, GiveUp(c) \/ Crash(c) \/ Expire(c)
            \/ AwaitTimesOut(c) \/ DrainTimesOut(c) \/ Kill(c) \/ SpawnFails(c)
      PROVE  \/ Up' \subseteq Up /\ UNCHANGED <<launcher, child>>
             \/ \E b \in Ensures, x \in Daemons : Spawn(b, x)
  BY <1>2 DEF GiveUp, Fail, Goto, Crash, Expire, AwaitTimesOut, Terminate,
      SpawnUnchanged, DrainTimesOut, Refused, RetireUnchanged, Kill, SpawnFails
<1>3. ASSUME NEW d \in Daemons, Serve(d) \/ Die(d)
      PROVE  \/ Up' \subseteq Up /\ UNCHANGED <<launcher, child>>
             \/ \E b \in Ensures, x \in Daemons : Spawn(b, x)
  BY <1>3 DEF Serve, PublishReady, DaemonUnchanged, BeginStop, ReadOwnState,
      UnlinkState, RemoveCandidate, Exit, Die
<1>4. ASSUME Age
      PROVE  \/ Up' \subseteq Up /\ UNCHANGED <<launcher, child>>
             \/ \E b \in Ensures, x \in Daemons : Spawn(b, x)
  BY <1>4 DEF Age
<1> QED
  BY <1>1, <1>2, <1>3, <1>4 DEF Next

\* daemon.json moves in no other way when no write is stale.
LEMMA NextState ==
  ASSUME TypedInv, Next, ~StaleWrite
  PROVE  StateMoves
<1> USE SupervisorAssumption DEF TypedInv, TypeOK, PlaceInv, Retiring, Starting,
        StopPlaces, Calls, files, daemons, locals, budgets,
        StaleWrite, StaleRecord, StaleUnlink, Up, StateMoves, Recorded
<1>1. ASSUME NEW c \in Calls, Step(c)
      PROVE  StateMoves
  BY <1>1 DEF Step, Look, Return, Goto, Ask, Heard, Unheard, Serving, Quiet,
      Mkdir, LockUnchanged, WriteOwner, Fail, Contend, CheckUnowned,
      CheckOwner, Break, Release, Unlock, ReadCandidate, AdoptUnchanged, Adopt,
      Record, Unready, Retire, RetireUnchanged, Probe, SilentForGood, Shut,
      Refused, Drain, Proceed, Evict, Terminate, Gone, Spawn, SpawnUnchanged,
      Await, Hear, CheckChild, Reaped
<1>2. ASSUME NEW c \in Calls, GiveUp(c) \/ Crash(c) \/ Expire(c)
            \/ AwaitTimesOut(c) \/ DrainTimesOut(c) \/ Kill(c) \/ SpawnFails(c)
      PROVE  StateMoves
  BY <1>2 DEF GiveUp, Fail, Goto, Crash, Expire, AwaitTimesOut, Terminate,
      SpawnUnchanged, DrainTimesOut, Refused, RetireUnchanged, Kill, SpawnFails
<1>3. ASSUME NEW d \in Daemons, Serve(d) \/ Die(d)
      PROVE  StateMoves
  BY <1>3 DEF Serve, PublishReady, DaemonUnchanged, BeginStop, ReadOwnState,
      UnlinkState, RemoveCandidate, Exit, Die
<1>4. ASSUME Age
      PROVE  StateMoves
  BY <1>4 DEF Age
<1> QED
  BY <1>1, <1>2, <1>3, <1>4 DEF Next

\* A call that contends has not had the lock, and one that manages daemons has.
LEMMA NextHolds ==
  ASSUME TypedInv, HoldsInv, Next
  PROVE  HoldsInv'
<1> USE SupervisorAssumption DEF TypedInv, TypeOK, PlaceInv, Retiring, Starting,
        StopPlaces, Calls, files, daemons, locals, budgets, HoldsInv, Holding, Contending
<1>1. ASSUME NEW c \in Calls, Step(c)
      PROVE  HoldsInv'
  BY <1>1 DEF Step, Look, Return, Goto, Ask, Heard, Unheard, Serving, Quiet,
      Mkdir, LockUnchanged, WriteOwner, Fail, Contend, CheckUnowned,
      CheckOwner, Break, Release, Unlock, ReadCandidate, AdoptUnchanged, Adopt,
      Record, Unready, Retire, RetireUnchanged, Probe, SilentForGood, Shut,
      Refused, Drain, Proceed, Evict, Terminate, Gone, Spawn, SpawnUnchanged,
      Await, Hear, CheckChild, Reaped
<1>2. ASSUME NEW c \in Calls, GiveUp(c) \/ Crash(c) \/ Expire(c)
            \/ AwaitTimesOut(c) \/ DrainTimesOut(c) \/ Kill(c) \/ SpawnFails(c)
      PROVE  HoldsInv'
  BY <1>2 DEF GiveUp, Fail, Goto, Crash, Expire, AwaitTimesOut, Terminate,
      SpawnUnchanged, DrainTimesOut, Refused, RetireUnchanged, Kill, SpawnFails
<1>3. ASSUME NEW d \in Daemons, Serve(d) \/ Die(d)
      PROVE  HoldsInv'
  BY <1>3 DEF Serve, PublishReady, DaemonUnchanged, BeginStop, ReadOwnState,
      UnlinkState, RemoveCandidate, Exit, Die
<1>4. ASSUME Age
      PROVE  HoldsInv'
  BY <1>4 DEF Age
<1> QED
  BY <1>1, <1>2, <1>3, <1>4 DEF Next

\* A call that has ended stays so.
LEMMA NextEnded ==
  ASSUME TypedInv, Next
  PROVE  \A x \in Calls : Ended(x) => Ended(x)'
<1> USE SupervisorAssumption DEF TypedInv, TypeOK, PlaceInv, Retiring, Starting,
        StopPlaces, Calls, files, daemons, locals, budgets, Ended
<1>1. ASSUME NEW c \in Calls, Step(c)
      PROVE  \A x \in Calls : Ended(x) => Ended(x)'
  BY <1>1 DEF Step, Look, Return, Goto, Ask, Heard, Unheard, Serving, Quiet,
      Mkdir, LockUnchanged, WriteOwner, Fail, Contend, CheckUnowned,
      CheckOwner, Break, Release, Unlock, ReadCandidate, AdoptUnchanged, Adopt,
      Record, Unready, Retire, RetireUnchanged, Probe, SilentForGood, Shut,
      Refused, Drain, Proceed, Evict, Terminate, Gone, Spawn, SpawnUnchanged,
      Await, Hear, CheckChild, Reaped
<1>2. ASSUME NEW c \in Calls, GiveUp(c) \/ Crash(c) \/ Expire(c)
            \/ AwaitTimesOut(c) \/ DrainTimesOut(c) \/ Kill(c) \/ SpawnFails(c)
      PROVE  \A x \in Calls : Ended(x) => Ended(x)'
  BY <1>2 DEF GiveUp, Fail, Goto, Crash, Expire, AwaitTimesOut, Terminate,
      SpawnUnchanged, DrainTimesOut, Refused, RetireUnchanged, Kill, SpawnFails
<1>3. ASSUME NEW d \in Daemons, Serve(d) \/ Die(d)
      PROVE  \A x \in Calls : Ended(x) => Ended(x)'
  BY <1>3 DEF Serve, PublishReady, DaemonUnchanged, BeginStop, ReadOwnState,
      UnlinkState, RemoveCandidate, Exit, Die
<1>4. ASSUME Age
      PROVE  \A x \in Calls : Ended(x) => Ended(x)'
  BY <1>4 DEF Age
<1> QED
  BY <1>1, <1>2, <1>3, <1>4 DEF Next

\* owner.json is only ever written by a call that then has a lock to release.
LEMMA NextOwnerHeld ==
  ASSUME TypedInv, LockInv, OwnerHeld, Next
  PROVE  OwnerHeld'
<1> USE SupervisorAssumption DEF TypedInv, TypeOK, PlaceInv, Retiring, Starting,
        StopPlaces, Calls, files, daemons, locals, budgets, LockInv, OwnerHeld
<1>1. ASSUME NEW c \in Calls, Step(c)
      PROVE  OwnerHeld'
  BY <1>1 DEF Step, Look, Return, Goto, Ask, Heard, Unheard, Serving, Quiet,
      Mkdir, LockUnchanged, WriteOwner, Fail, Contend, CheckUnowned,
      CheckOwner, Break, Release, Unlock, ReadCandidate, AdoptUnchanged, Adopt,
      Record, Unready, Retire, RetireUnchanged, Probe, SilentForGood, Shut,
      Refused, Drain, Proceed, Evict, Terminate, Gone, Spawn, SpawnUnchanged,
      Await, Hear, CheckChild, Reaped
<1>2. ASSUME NEW c \in Calls, GiveUp(c) \/ Crash(c) \/ Expire(c)
            \/ AwaitTimesOut(c) \/ DrainTimesOut(c) \/ Kill(c) \/ SpawnFails(c)
      PROVE  OwnerHeld'
  BY <1>2 DEF GiveUp, Fail, Goto, Crash, Expire, AwaitTimesOut, Terminate,
      SpawnUnchanged, DrainTimesOut, Refused, RetireUnchanged, Kill, SpawnFails
<1>3. ASSUME NEW d \in Daemons, Serve(d) \/ Die(d)
      PROVE  OwnerHeld'
  BY <1>3 DEF Serve, PublishReady, DaemonUnchanged, BeginStop, ReadOwnState,
      UnlinkState, RemoveCandidate, Exit, Die
<1>4. ASSUME Age
      PROVE  OwnerHeld'
  BY <1>4 DEF Age
<1> QED
  BY <1>1, <1>2, <1>3, <1>4 DEF Next

\* Only the deadline of a call that has ended passes.
LEMMA NextExpired ==
  ASSUME TypedInv, Next
  PROVE  \A x \in expired' : x \in expired \/ Ended(x)
<1> USE SupervisorAssumption DEF TypedInv, TypeOK, PlaceInv, Retiring, Starting,
        StopPlaces, Calls, files, daemons, locals, budgets
<1>1. ASSUME NEW c \in Calls, Step(c)
      PROVE  \A x \in expired' : x \in expired \/ Ended(x)
  BY <1>1 DEF Step, Look, Return, Goto, Ask, Heard, Unheard, Serving, Quiet,
      Mkdir, LockUnchanged, WriteOwner, Fail, Contend, CheckUnowned,
      CheckOwner, Break, Release, Unlock, ReadCandidate, AdoptUnchanged, Adopt,
      Record, Unready, Retire, RetireUnchanged, Probe, SilentForGood, Shut,
      Refused, Drain, Proceed, Evict, Terminate, Gone, Spawn, SpawnUnchanged,
      Await, Hear, CheckChild, Reaped
<1>2. ASSUME NEW c \in Calls, GiveUp(c) \/ Crash(c) \/ Expire(c)
            \/ AwaitTimesOut(c) \/ DrainTimesOut(c) \/ Kill(c) \/ SpawnFails(c)
      PROVE  \A x \in expired' : x \in expired \/ Ended(x)
  BY <1>2 DEF GiveUp, Fail, Goto, Crash, Expire, AwaitTimesOut, Terminate,
      SpawnUnchanged, DrainTimesOut, Refused, RetireUnchanged, Kill, SpawnFails
<1>3. ASSUME NEW d \in Daemons, Serve(d) \/ Die(d)
      PROVE  \A x \in expired' : x \in expired \/ Ended(x)
  BY <1>3 DEF Serve, PublishReady, DaemonUnchanged, BeginStop, ReadOwnState,
      UnlinkState, RemoveCandidate, Exit, Die
<1>4. ASSUME Age
      PROVE  \A x \in expired' : x \in expired \/ Ended(x)
  BY <1>4 DEF Age
<1> QED
  BY <1>1, <1>2, <1>3, <1>4 DEF Next

\* The owner that a contender acts on is dead.
LEMMA NextOwner ==
  ASSUME TypedInv, ServiceInv, Next, ~StaleWrite
  PROVE  OwnerInv'
<1> USE DEF ServiceInv, OwnerInv
<1>e. \A x \in Calls : Ended(x) => pc'[x] \in {"done", "crashed"}
  BY NextEnded DEF Ended
<1>t. pc \in [Calls -> Places] /\ owner \in [Calls -> Ensures \cup {NoCall}]
      /\ Ensures \subseteq Calls
  BY DEF TypedInv, TypeOK, Calls
<1>1. OwnerHeld'
  BY NextOwnerHeld
<1>2. OwnerEnded'
  <2> SUFFICES ASSUME NEW b \in Calls,
                      pc'[b] \in Adopting \/ (pc'[b] \in {"record", "unready"} /\ b \notin holds')
               PROVE  owner'[b] \in Ensures /\ pc'[owner'[b]] \in {"done", "crashed"}
    BY DEF OwnerEnded, Ended
  <2>1. CASE Stays(b)
    BY <1>e, <1>t, <2>1 DEF Stays, OwnerEnded
  <2>2. CASE Arrives(b)
    <3>1. CASE Contend(b)
      <4>1. pc'[b] = "candidate" /\ owner'[b] = lock /\ Ended(lock) /\ lock \in Ensures
        BY <1>t, <3>1 DEF Contend, Goto, TypedInv, TypeOK, Adopting
      <4> QED
        BY <1>e, <1>t, <4>1
    <3>2. CASE ~Contend(b)
      <4>1. owner'[b] = owner[b] /\ (b \in holds' <=> b \in holds)
        BY <2>2, <3>2 DEF Arrives, Adopting, ReadCandidate, Adopt, Unready, Hear, Record,
           AdoptUnchanged, SpawnUnchanged
      <4>2. pc[b] \in Adopting \/ (pc[b] \in {"record", "unready"} /\ b \notin holds)
        BY <1>t, <2>2, <3>2, <4>1
           DEF Arrives, Adopting, ReadCandidate, Adopt, Unready, Hear, Record, HoldsInv,
               Holding,
               Starting, Goto
      <4> QED
        BY <1>e, <1>t, <4>1, <4>2 DEF OwnerEnded
    <3> QED
      BY <3>1, <3>2
  <2> QED
    BY <2>1, <2>2, NextArrives
<1>3. BrokenEnded'
  <2> SUFFICES ASSUME NEW b \in Calls, pc'[b] = "break", lock' = owner'[b]
               PROVE  pc'[owner'[b]] \in {"done", "crashed"}
    BY DEF BrokenEnded, Ended
  <2>1. owner'[b] = owner[b]
    BY <1>t, NextArrives DEF Stays, Arrives, CheckUnowned, CheckOwner
  <2>2. owner[b] \in Ensures /\ owner[b] \in holds
    BY <1>t, <2>1, NextTyped, SupervisorAssumption DEF TypedInv, TypeOK, OwnerHeld, Calls
  <2>3. lock = owner[b]
    BY <2>1, <2>2, NextLock, SupervisorAssumption
       DEF LockMoves, HoldsInv, Contending, Calls
  <2>4. CASE Stays(b)
    BY <1>e, <1>t, <2>1, <2>2, <2>3, <2>4 DEF Stays, BrokenEnded
  <2>5. CASE CheckUnowned(b)
    BY <2>2, <2>3, <2>5, SupervisorAssumption
       DEF CheckUnowned, Goto, Abandoned, Calls, TypedInv, TypeOK
  <2>6. CASE CheckOwner(b)
    BY <1>e, <1>t, <2>1, <2>2, <2>6 DEF CheckOwner, OwnerEnded, Adopting
  <2> QED
    BY <2>4, <2>5, <2>6, NextArrives DEF Arrives
<1>4. ExpiredEnded'
  <2>1. \A x \in expired' : x \in expired \/ Ended(x)
    BY NextExpired
  <2>2. expired' \subseteq Ensures
    BY NextTyped DEF TypedInv, TypeOK
  <2> QED
    BY <1>e, <1>t, <2>1, <2>2 DEF ExpiredEnded, Ended
<1> QED
  BY <1>1, <1>2, <1>3, <1>4

\* A lock that is broken in time is nobody's: no creator is about to own it, and
\* no holder is alive.
LEMMA SoundBreak ==
  ASSUME TypedInv, ServiceInv, ~StaleWrite, NEW b \in Calls, Break(b)
  PROVE  (\A x \in Calls : pc[x] # "own") /\ (\A x \in holds : Ended(x))
<1>1. lock \in {"absent", owner[b]} \/ Abandoned
  BY SMT DEF StaleWrite, StaleBreak
<1>2. lock = owner[b] => lock \in Ensures /\ Ended(lock)
  BY SupervisorAssumption DEF ServiceInv, OwnerInv, BrokenEnded, Break, TypedInv, TypeOK
<1> QED
  BY <1>1, <1>2, SupervisorAssumption
     DEF ServiceInv, LockInv, Abandoned, TypedInv, TypeOK, Calls

\* Mutual exclusion of the holders of startup.lock.
LEMMA NextLockInv ==
  ASSUME TypedInv, LockInv, HoldsInv, Next,
         \A b \in Calls : Break(b) =>
             (\A x \in Calls : pc[x] # "own") /\ (\A x \in holds : Ended(x))
  PROVE  LockInv'
<1> USE SupervisorAssumption DEF TypedInv, TypeOK, PlaceInv, Retiring, Starting,
        StopPlaces, Calls, files, daemons, locals, budgets,
        LockInv, HoldsInv, Holding, Contending, Ended
<1>1. ASSUME NEW c \in Calls, Look(c) \/ Ask(c) \/ GiveUp(c)
      PROVE  LockInv'
  BY <1>1 DEF Look, Return, Goto, Ask, Heard, Unheard, Serving, Quiet, GiveUp,
      Fail
<1>2. ASSUME NEW c \in Calls, Mkdir(c)
      PROVE  LockInv'
  BY <1>2 DEF Mkdir, Goto, LockUnchanged
<1>3. ASSUME NEW c \in Calls, WriteOwner(c)
      PROVE  LockInv'
  BY <1>3 DEF WriteOwner, Fail, Goto, LockUnchanged
<1>4. ASSUME NEW c \in Calls, Break(c)
      PROVE  LockInv'
  BY <1>4 DEF Break, Goto, LockUnchanged

<1>5. ASSUME NEW c \in Calls, Contend(c) \/ CheckUnowned(c) \/ CheckOwner(c)
            \/ Release(c) \/ Unlock(c)
      PROVE  LockInv'
  BY <1>5 DEF Contend, Goto, LockUnchanged, CheckUnowned, CheckOwner, Release,
      Unlock
<1>6. ASSUME NEW c \in Calls, ReadCandidate(c) \/ Adopt(c) \/ Record(c)
            \/ Unready(c)
      PROVE  LockInv'
  BY <1>6 DEF ReadCandidate, Goto, AdoptUnchanged, Adopt, Heard, Unheard,
      Serving, Quiet, Record, Unready
<1>7. ASSUME NEW c \in Calls, Retire(c) \/ Probe(c) \/ Shut(c) \/ Drain(c)
            \/ DrainTimesOut(c) \/ Evict(c) \/ Gone(c) \/ Kill(c)
      PROVE  LockInv'
  BY <1>7 DEF Retire, Goto, RetireUnchanged, Probe, Heard, Unheard, Serving,
      Fail, Return, SilentForGood, Quiet, Shut, Refused, Drain, Proceed,
      DrainTimesOut, Evict, Terminate, Gone, Kill
<1>8. ASSUME NEW c \in Calls, NEW d \in Daemons, Spawn(c, d)
      PROVE  LockInv'
  BY <1>8 DEF Spawn, Goto, SpawnUnchanged
<1>9. ASSUME NEW c \in Calls, SpawnFails(c) \/ Await(c) \/ Hear(c)
            \/ CheckChild(c) \/ AwaitTimesOut(c) \/ Reaped(c)
      PROVE  LockInv'
  BY <1>9 DEF SpawnFails, Fail, Goto, SpawnUnchanged, Await, Hear, Heard,
      Unheard, Serving, Quiet, CheckChild, AwaitTimesOut, Terminate, Reaped
<1>10. ASSUME NEW c \in Calls, Crash(c) \/ Expire(c)
      PROVE  LockInv'
  BY <1>10 DEF Crash, Goto, Expire
<1>11. ASSUME NEW d \in Daemons, PublishReady(d) \/ BeginStop(d)
            \/ ReadOwnState(d) \/ UnlinkState(d) \/ RemoveCandidate(d)
            \/ Exit(d) \/ Die(d)
      PROVE  LockInv'
  BY <1>11 DEF PublishReady, DaemonUnchanged, BeginStop, ReadOwnState,
      UnlinkState, RemoveCandidate, Exit, Die
<1>12. ASSUME Age
      PROVE  LockInv'
  BY <1>12 DEF Age
<1> QED
  BY <1>1, <1>2, <1>3, <1>4, <1>5, <1>6, <1>7, <1>8, <1>9, <1>10, <1>11, <1>12
     DEF Next, Step, Serve

\* A launcher starts its next child when the one before is dead.
LEMMA NextChild ==
  ASSUME TypedInv, LockInv, HoldsInv, ExpiredEnded, ChildInv, Next
  PROVE  ChildInv'
<1> USE SupervisorAssumption DEF TypedInv, TypeOK, PlaceInv, Retiring, Starting,
        StopPlaces, Calls, files, daemons, locals, budgets,
        LockInv, HoldsInv, ExpiredEnded, ChildInv, Holding, Contending, Ended
<1>1. ASSUME NEW c \in Calls, Look(c) \/ Ask(c) \/ GiveUp(c)
      PROVE  ChildInv'
  BY <1>1 DEF Look, Return, Goto, Ask, Heard, Unheard, Serving, Quiet, GiveUp,
      Fail
<1>2. ASSUME NEW c \in Calls, Mkdir(c) \/ WriteOwner(c) \/ Contend(c)
            \/ CheckUnowned(c) \/ CheckOwner(c) \/ Break(c) \/ Release(c)
            \/ Unlock(c)
      PROVE  ChildInv'
  BY <1>2 DEF Mkdir, Goto, LockUnchanged, WriteOwner, Fail, Contend,
      CheckUnowned, CheckOwner, Break, Release, Unlock
<1>3. ASSUME NEW c \in Calls, ReadCandidate(c) \/ Adopt(c) \/ Record(c)
            \/ Unready(c)
      PROVE  ChildInv'
  BY <1>3 DEF ReadCandidate, Goto, AdoptUnchanged, Adopt, Heard, Unheard,
      Serving, Quiet, Record, Unready
<1>4. ASSUME NEW c \in Calls, Retire(c) \/ Probe(c) \/ Shut(c) \/ Drain(c)
            \/ DrainTimesOut(c) \/ Evict(c) \/ Gone(c) \/ Kill(c)
      PROVE  ChildInv'
  BY <1>4 DEF Retire, Goto, RetireUnchanged, Probe, Heard, Unheard, Serving,
      Fail, Return, SilentForGood, Quiet, Shut, Refused, Drain, Proceed,
      DrainTimesOut, Evict, Terminate, Gone, Kill
<1>5. ASSUME NEW c \in Calls, NEW d \in Daemons, Spawn(c, d)
      PROVE  ChildInv'
  <2>1. phase' = [phase EXCEPT ![d] = "starting"] /\ launcher' = [launcher EXCEPT ![d] = c]
    BY <1>5 DEF Spawn
  <2>2. child' = [child EXCEPT ![c] = d] /\ pc' = [pc EXCEPT ![c] = "await"]
        /\ UNCHANGED <<holds, expired>>
    BY <1>5 DEF Spawn, Goto, SpawnUnchanged
  <2>3. c \in holds /\ c \in Ensures /\ pc[c] = "spawn" /\ c \notin expired
    BY <1>5 DEF Spawn
  <2>4. phase[d] = "unborn" /\ launcher[d] = NoCall
    BY <1>5 DEF Spawn
  <2>5. \A x \in Daemons : launcher[x] = c => phase[x] = "dead"
    BY <2>3, <2>4
  <2>6. \A x \in Calls : child[x] # d
    BY <2>4
  <2> HIDE DEF LockInv, HoldsInv, ExpiredEnded
  <2>7. \A x \in Daemons :
           launcher'[x] \in Ensures /\ child'[launcher'[x]] # x => phase'[x] = "dead"
    BY <2>1, <2>2, <2>3, <2>4, <2>5
  <2>8. \A x \in Calls : child'[x] \in Daemons =>
          /\ launcher'[child'[x]] = x
          /\ x \in holds'
          /\ pc'[x] \in Starting \cup {"spawn", "record", "unready", "release", "unlock", "done",
                                      "crashed"}
          /\ pc'[x] = "spawn" => phase'[child'[x]] = "dead"
    BY <2>1, <2>2, <2>3, <2>4, <2>6
  <2> QED
    BY <2>1, <2>2, <2>3, <2>4, <2>7, <2>8

<1>6. ASSUME NEW c \in Calls, SpawnFails(c) \/ Await(c) \/ Hear(c)
            \/ CheckChild(c) \/ AwaitTimesOut(c) \/ Reaped(c)
      PROVE  ChildInv'
  BY <1>6 DEF SpawnFails, Fail, Goto, SpawnUnchanged, Await, Hear, Heard,
      Unheard, Serving, Quiet, CheckChild, AwaitTimesOut, Terminate, Reaped
<1>7. ASSUME NEW c \in Calls, Crash(c) \/ Expire(c)
      PROVE  ChildInv'
  BY <1>7 DEF Crash, Goto, Expire
<1>8. ASSUME NEW d \in Daemons, PublishReady(d) \/ BeginStop(d)
            \/ ReadOwnState(d) \/ UnlinkState(d) \/ RemoveCandidate(d)
            \/ Exit(d) \/ Die(d)
      PROVE  ChildInv'
  BY <1>8 DEF PublishReady, DaemonUnchanged, BeginStop, ReadOwnState,
      UnlinkState, RemoveCandidate, Exit, Die
<1>9. ASSUME Age
      PROVE  ChildInv'
  BY <1>9 DEF Age
<1> QED
  BY <1>1, <1>2, <1>3, <1>4, <1>5, <1>6, <1>7, <1>8, <1>9
     DEF Next, Step, Serve

\* The deadline of a dead owner does not pass between a contender's reading of the
\* candidate and its look at the clock.
LEMMA NextExpiry ==
  ASSUME TypedInv, Next, NEW e \in Ensures, pc[e] \in {"adopt", "expiry"}
  PROVE  expired' = expired
<1> USE SupervisorAssumption DEF TypedInv, TypeOK, PlaceInv, Retiring, Starting,
        StopPlaces, Calls, files, daemons, locals, budgets
<1>1. ASSUME NEW c \in Calls, Step(c)
      PROVE  expired' = expired
  BY <1>1 DEF Step, Look, Return, Goto, Ask, Heard, Unheard, Serving, Quiet,
      Mkdir, LockUnchanged, WriteOwner, Fail, Contend, CheckUnowned,
      CheckOwner, Break, Release, Unlock, ReadCandidate, AdoptUnchanged, Adopt,
      Record, Unready, Retire, RetireUnchanged, Probe, SilentForGood, Shut,
      Refused, Drain, Proceed, Evict, Terminate, Gone, Spawn, SpawnUnchanged,
      Await, Hear, CheckChild, Reaped
<1>2. ASSUME NEW c \in Calls, GiveUp(c) \/ Crash(c) \/ Expire(c)
            \/ AwaitTimesOut(c) \/ DrainTimesOut(c) \/ Kill(c) \/ SpawnFails(c)
      PROVE  expired' = expired
  BY <1>2 DEF GiveUp, Fail, Goto, Crash, Expire, AwaitTimesOut, Terminate,
      SpawnUnchanged, DrainTimesOut, Refused, RetireUnchanged, Kill, SpawnFails
<1>3. ASSUME NEW d \in Daemons, Serve(d) \/ Die(d)
      PROVE  expired' = expired
  BY <1>3 DEF Serve, PublishReady, DaemonUnchanged, BeginStop, ReadOwnState,
      UnlinkState, RemoveCandidate, Exit, Die
<1>4. ASSUME Age
      PROVE  expired' = expired
  BY <1>4 DEF Age
<1> QED
  BY <1>1, <1>2, <1>3, <1>4 DEF Next

\* Whoever spawns a daemon holds the lock.
LEMMA SpawnerHolds ==
  ASSUME TypedInv, LockInv, HoldsInv, NEW c \in Ensures, NEW d \in Daemons, Spawn(c, d)
  PROVE  /\ lock = c /\ lock' = c /\ ~Ended(c) /\ pc'[c] = "await"
         /\ child' = [child EXCEPT ![c] = d] /\ launcher' = [launcher EXCEPT ![d] = c]
         /\ Up' = Up \cup {d}
<1>1. pc[c] = "spawn" /\ lock' = lock /\ pc' = [pc EXCEPT ![c] = "await"]
  BY DEF Spawn, SpawnUnchanged, Goto
<1>2. lock = c /\ ~Ended(c)
  BY <1>1 DEF HoldsInv, Holding, LockInv, Ended, Calls
<1>3. pc'[c] = "await"
  BY <1>1 DEF TypedInv, TypeOK, Calls
<1>4. Up' = Up \cup {d}
  BY DEF Up, Spawn, TypedInv, TypeOK
<1> QED
  BY <1>1, <1>2, <1>3, <1>4 DEF Spawn

\* As long as nothing is spawned, a daemon that daemon.json names stays named.
LEMMA RecordedStays ==
  ASSUME TypedInv, ServiceInv, Next, ~StaleWrite, Up \subseteq {state}, Up' \subseteq Up
  PROVE  Up' \subseteq {state'}
<1>1. CASE state' = state
  BY <1>1
<1>2. CASE \E e \in Ensures : Recorded(e)
  <2>1. PICK e \in Ensures : Recorded(e)
    BY <1>2
  <2>2. Up \subseteq {seen[e]}
    BY <2>1 DEF Recorded, ServiceInv, HolderInv, AdopterInv
  <2> QED
    BY <2>1, <2>2 DEF Recorded
<1>3. CASE state \notin Up /\ state' = NoDaemon
  BY <1>3
<1>4. \/ state' = state
      \/ \E e \in Ensures : Recorded(e)
      \/ state \notin Up /\ state' = NoDaemon
  BY NextState DEF StateMoves
<1> QED
  BY <1>1, <1>2, <1>3, <1>4

\* While the lock has an owner, nobody but the owner spawns.
LEMMA UpUnlessSpawn ==
  ASSUME TypedInv, LockInv, HoldsInv, Next, NEW e \in Ensures, lock = e,
         Ended(e) \/ pc'[e] # "await"
  PROVE  Up' \subseteq Up /\ UNCHANGED <<launcher, child>>
  BY NextUp, SpawnerHolds

\* There is one daemon at most, and it is recorded or under its launcher's lock.
LEMMA NextUpInv ==
  ASSUME TypedInv, TypedInv', ServiceInv, Next, ~StaleWrite
  PROVE  UpInv'
<1> USE DEF ServiceInv
<1>1. ASSUME NEW c \in Ensures, NEW d \in Daemons, Spawn(c, d)
      PROVE  UpInv'
  <2>1. Up' = {d}
    BY <1>1, SpawnerHolds DEF HolderInv, Spawn
  <2>2. lock' = c /\ child'[c] = d /\ launcher'[d] = c
    BY <1>1, SpawnerHolds DEF TypedInv, TypeOK, Calls
  <2> QED
    BY <2>1, <2>2 DEF UpInv, OneService
<1>2. ASSUME Up' \subseteq Up, UNCHANGED <<launcher, child>>
      PROVE  UpInv'
  <2>1. OneService'
    BY <1>2 DEF UpInv, OneService
  <2>2. ASSUME NEW d \in Up'
        PROVE  state' = d \/ (launcher'[d] \in Ensures /\ lock' = launcher'[d])
    <3>1. Up = {d}
      BY <1>2, <2>2 DEF UpInv, OneService
    <3>2. CASE Up \subseteq {state}
      BY <1>2, <3>1, <3>2, <2>2, RecordedStays
    <3>3. CASE ~(Up \subseteq {state})
      <4>1. launcher[d] \in Ensures /\ lock = launcher[d]
        BY <3>1, <3>3 DEF UpInv
      <4>2. lock' = lock
        BY <3>3, <4>1, NextLock, SupervisorAssumption
           DEF LockMoves, LockInv, HolderInv, AdopterInv, Abandoned, Calls
      <4> QED
        BY <1>2, <4>1, <4>2
    <3> QED
      BY <3>2, <3>3
  <2>3. ASSUME lock' \in Ensures, child'[lock'] \in Daemons
        PROVE  Up' \subseteq {child'[lock']}
    <3>1. CASE lock' = lock
      BY <1>2, <2>3, <3>1 DEF UpInv
    <3>2. CASE lock' # lock
      <4>1. pc[lock'] = "own"
        BY <2>3, <3>2, NextLock, SupervisorAssumption DEF LockMoves, Calls
      <4> QED
        BY <1>2, <2>3, <4>1 DEF ChildInv, Starting, Calls
    <3> QED
      BY <3>1, <3>2
  <2> QED
    BY <2>1, <2>2, <2>3 DEF UpInv
<1> QED
  BY <1>1, <1>2, NextUp

\* The holder of the lock spawns when nothing is up, and lets go of the lock when
\* what is up is recorded.
LEMMA NextHolder ==
  ASSUME TypedInv, KnownInv, ~LateAnswer, ServiceInv, Next, ~StaleWrite
  PROVE  HolderInv'
<1> USE DEF ServiceInv
<1> SUFFICES ASSUME NEW e \in Ensures
             PROVE  /\ pc'[e] = "spawn" => Up' = {}
                    /\ pc'[e] \in Retiring => Up' \subseteq {seen'[e]}
                    /\ pc'[e] = "record" /\ e \in holds' => Up' \subseteq {seen'[e]}
                    /\ pc'[e] = "unready" /\ e \in holds' => Up' \subseteq {state'}
                    /\ pc'[e] \in {"release", "unlock"} => Up' \subseteq {state'}
  BY DEF HolderInv
<1>t. e \in Calls /\ e \notin Stops
  BY SupervisorAssumption DEF Calls
<1>1. CASE Stays(e)
  <2>1. pc'[e] = pc[e] /\ seen'[e] = seen[e] /\ (e \in holds' <=> e \in holds)
    BY <1>1 DEF Stays
  <2>2. ASSUME pc[e] \in {"spawn", "release", "unlock"} \cup Retiring
               \/ (pc[e] \in {"record", "unready"} /\ e \in holds)
        PROVE  Up' \subseteq Up
    <3>1. e \in holds /\ ~Ended(e)
      BY <1>t, <2>2 DEF HoldsInv, Holding, Retiring, Ended
    <3>2. lock = e
      BY <3>1 DEF LockInv
    <3>3. pc'[e] # "await"
      BY <2>1, <2>2 DEF Retiring
    <3> QED
      BY <3>2, <3>3, UpUnlessSpawn
  <2>3. CASE pc[e] = "spawn" \/ pc[e] \in Retiring \/ (pc[e] = "record" /\ e \in holds)
    BY <2>1, <2>2, <2>3 DEF HolderInv, Retiring
  <2>4. CASE pc[e] \in {"release", "unlock"} \/ (pc[e] = "unready" /\ e \in holds)
    BY <2>1, <2>2, <2>4, RecordedStays DEF HolderInv, Retiring
  <2> QED
    BY <2>1, <2>3, <2>4
<1>2. CASE Arrives(e)
  <2>1. ASSUME e \in holds, ~Ended(e), pc'[e] # "await"
        PROVE  lock = e /\ Up' \subseteq Up
    BY <2>1, UpUnlessSpawn DEF LockInv
  <2>2. ASSUME e \in holds, pc[e] \in {"ask", "retire"} \cup Retiring
        PROVE  Up \subseteq {state}
    <3>1. child[e] \notin Daemons /\ lock = e
      BY <1>t, <2>2 DEF ChildInv, Starting, Retiring, LockInv, Ended
    <3> QED
      BY <3>1 DEF UpInv, ChildInv, Up
  <2>3. ASSUME pc[e] \in {"child", "reaped"}, phase[child[e]] = "dead"
        PROVE  Up = {}
    <3>1. e \in holds /\ lock = e /\ child[e] \in Daemons
      BY <1>t, <2>3 DEF HoldsInv, Holding, Starting, LockInv, Ended, TypedInv, PlaceInv
    <3> QED
      BY <2>3, <3>1 DEF UpInv, Up
  <2>4. ASSUME Unheard(seen[e])
        PROVE  seen[e] \notin Up
    BY <1>t, <2>4 DEF LateAnswer, Unheard, Serving, Up, KnownInv, Past, TypedInv, TypeOK
  <2>5. CASE pc'[e] = "spawn"
    <3>1. CASE Retire(e)
      BY <1>t, <2>1, <2>2, <2>5, <3>1, SupervisorAssumption
         DEF Retire, HoldsInv, Holding, Ended, Up, Goto, TypedInv, TypeOK
    <3>2. CASE Drain(e) \/ Gone(e)
      <4>1. Up = {} /\ e \in holds /\ ~Ended(e)
        BY <1>t, <2>4, <3>2 DEF Drain, Gone, HoldsInv, Retiring, HolderInv, Up, Ended
      <4> QED
        BY <2>1, <2>5, <4>1
    <3>3. CASE SpawnFails(e)
      BY <1>t, <2>1, <2>5, <3>3 DEF SpawnFails, HoldsInv, Holding, Ended, HolderInv
    <3>4. CASE CheckChild(e)
      BY <1>t, <2>1, <2>3, <2>5, <3>4
         DEF CheckChild, HoldsInv, Holding, Starting, Ended, Goto, TypedInv, TypeOK
    <3> QED
      BY <2>5, <3>1, <3>2, <3>3, <3>4, <1>2 DEF Arrives, Retiring
  <2>6. CASE pc'[e] \in Retiring
    <3>1. CASE Retire(e)
      BY <1>t, <2>1, <2>2, <2>6, <3>1
         DEF Retire, HoldsInv, Holding, Ended, Retiring, TypedInv, TypeOK
    <3>2. CASE Probe(e) \/ Shut(e) \/ Evict(e)
      BY <1>t, <2>1, <2>6, <3>2
         DEF Probe, Shut, Evict, HoldsInv, Retiring, HolderInv, Ended
    <3> QED
      BY <1>2, <1>t, <2>6, <3>1, <3>2 DEF Arrives, Retiring
  <2>7. CASE pc'[e] = "record" /\ e \in holds'
    <3>1. CASE Adopt(e)
      BY <1>t, <2>7, <3>1 DEF Adopt, AdoptUnchanged, HoldsInv, Contending
    <3>2. CASE Hear(e)
      <4>1. seen'[e] = seen[e] /\ seen[e] \in Up /\ e \in holds /\ ~Ended(e)
        BY <1>t, <2>7, <3>2
           DEF Hear, Heard, Serving, Up, HoldsInv, Holding, Starting, Ended, Goto,
               TypedInv, TypeOK
      <4> QED
        BY <2>1, <2>7, <4>1 DEF UpInv, OneService
    <3> QED
      BY <1>2, <2>7, <3>1, <3>2 DEF Arrives, Retiring
  <2>8. CASE pc'[e] = "unready" /\ e \in holds'
    BY <1>2, <1>t, <2>1, <2>8
       DEF Arrives, Record, AdoptUnchanged, HolderInv, Ended, Retiring
  <2>9. CASE pc'[e] \in {"release", "unlock"}
    <3>1. Up \subseteq {state} /\ e \in holds /\ ~Ended(e)
      <4>1. CASE Ask(e) \/ Probe(e) \/ Shut(e) \/ DrainTimesOut(e)
        BY <1>t, <2>2, <2>9, <4>1
           DEF Ask, Probe, Shut, DrainTimesOut, Return, Fail, Goto, Refused, Retiring,
               HoldsInv, Ended,
               TypedInv, TypeOK
      <4>2. CASE SpawnFails(e) \/ CheckChild(e) \/ Reaped(e)
        BY <1>t, <2>3, <2>9, <4>2
           DEF SpawnFails, CheckChild, Reaped, HoldsInv, Holding, Starting, Ended,
               HolderInv, Goto,
               TypedInv, TypeOK
      <4>3. CASE Unready(e) \/ Release(e)
        BY <1>t, <2>9, <4>3
           DEF Unready, Release, HoldsInv, Holding, Ended, HolderInv, Goto, TypedInv,
               TypeOK
      <4> QED
        BY <1>2, <1>t, <2>9, <4>1, <4>2, <4>3 DEF Arrives, Retiring
    <3>2. Up' \subseteq Up
      BY <2>1, <2>9, <3>1
    <3>3. Up' \subseteq {state'}
      BY <3>1, <3>2, RecordedStays
    <3> QED
      BY <2>9, <3>3 DEF Retiring
  <2> QED
    BY <2>5, <2>6, <2>7, <2>8, <2>9 DEF Retiring
<1> QED
  BY <1>t, <1>1, <1>2, NextArrives

\* A contender breaks the lock of a dead launcher when its daemon is recorded or
\* not up.
LEMMA NextAdopter ==
  ASSUME TypedInv, TypedInv', KnownInv, ~LateAnswer, ServiceInv, Next, ~StaleWrite
  PROVE  AdopterInv'
<1> USE DEF ServiceInv
<1> SUFFICES ASSUME NEW e \in Ensures, lock' = owner'[e]
             PROVE  /\ pc'[e] = "record" /\ e \notin holds' => Up' \subseteq {seen'[e]}
                    /\ pc'[e] = "unready" /\ e \notin holds' => Up' \subseteq {state'}
                    /\ pc'[e] \in {"adopted", "break"} => Up' \subseteq {state'}
                    /\ pc'[e] = "expiry" /\ owner'[e] \in expired' => Up' \subseteq {state'}
                    /\ pc'[e] = "adopt" /\ owner'[e] \in expired' =>
                          Up' \subseteq {state', seen'[e]}
  BY DEF AdopterInv
<1> DEFINE Judging == {"record", "unready", "adopted", "break", "expiry", "adopt"}
<1>t. e \in Calls /\ e \notin Stops
  BY SupervisorAssumption DEF Calls
<1>n. CASE pc'[e] \notin Judging \/ (pc'[e] \in {"record", "unready"} /\ e \in holds')
  BY <1>n
<1>j. CASE pc'[e] \in Judging /\ (pc'[e] \in {"record", "unready"} => e \notin holds')
  \* The lock is the one that was judged, and its owner is dead: nothing is spawned.
  <2>1. owner'[e] = owner[e] /\ (e \in holds' <=> e \in holds)
    BY <1>t, <1>j, NextArrives
       DEF Stays, Arrives, ReadCandidate, Adopt, Unready, Hear, Record, CheckUnowned,
           CheckOwner,
           AdoptUnchanged, SpawnUnchanged, LockUnchanged, Retiring
  <2>2. owner[e] \in Ensures /\ owner[e] \in holds
    BY <1>t, <2>1, SupervisorAssumption DEF TypedInv, TypeOK, OwnerInv, OwnerHeld, Calls
  <2>3. lock = owner[e]
    BY <2>1, <2>2, NextLock, SupervisorAssumption
       DEF LockMoves, HoldsInv, Contending, Calls
  <2>4. Ended(owner[e])
    <3>1. CASE Stays(e)
      BY <1>t, <1>j, <2>1, <2>3, <3>1
         DEF Stays, OwnerInv, OwnerEnded, BrokenEnded, Adopting
    <3>2. CASE CheckUnowned(e)
      BY <1>t, <1>j, <2>2, <2>3, <3>2, SupervisorAssumption
         DEF CheckUnowned, Goto, Abandoned, TypedInv, TypeOK, Calls
    <3>3. CASE ReadCandidate(e) \/ Adopt(e) \/ CheckOwner(e) \/ Unready(e) \/ Record(e) \/ Hear(e)
      BY <1>t, <1>j, <2>1, <3>3
         DEF ReadCandidate, Adopt, CheckOwner, Unready, Record, Hear, Goto, TypedInv,
             TypeOK,
             HoldsInv, Holding, Starting, OwnerInv, OwnerEnded, Adopting
    <3> QED
      BY <1>t, <1>j, <3>1, <3>2, <3>3, NextArrives DEF Arrives, Retiring
  <2>5. Up' \subseteq Up
    BY <2>2, <2>3, <2>4, UpUnlessSpawn
  <2>6. Up \subseteq {state} => Up' \subseteq {state'}
    BY <2>5, RecordedStays
  <2>7. CASE Stays(e)
    <3>1. pc[e] = pc'[e] /\ seen'[e] = seen[e]
      BY <2>7 DEF Stays
    <3>2. CASE pc[e] = "record"
      BY <1>j, <2>1, <2>3, <2>5, <3>1, <3>2 DEF AdopterInv
    <3>3. CASE pc[e] \in {"unready", "adopted", "break"}
      BY <1>j, <2>1, <2>3, <2>6, <3>1, <3>3 DEF AdopterInv
    <3>4. CASE pc[e] \in {"expiry", "adopt"} /\ owner[e] \in expired'
      <4>1. owner[e] \in expired
        BY <3>4, NextExpiry
      <4>2. Up \subseteq {state, seen[e]} => Up' \subseteq {state', seen[e]}
        BY <2>5, <2>6 DEF UpInv, OneService
      <4> QED
        BY <1>j, <2>1, <2>3, <2>6, <3>1, <3>4, <4>1, <4>2 DEF AdopterInv
    <3> QED
      BY <1>j, <2>1, <3>1, <3>2, <3>3, <3>4
  <2>8. CASE Arrives(e)
    <3>1. CASE pc'[e] = "record"
      <4>1. Adopt(e)
        BY <1>j, <1>t, <2>1, <2>8, <3>1
           DEF Arrives, Retiring, Hear, HoldsInv, Holding, Starting
      <4>2. seen'[e] = seen[e] /\ seen[e] \in Up
        BY <1>t, <3>1, <4>1 DEF Adopt, Heard, Serving, Up, Goto, TypedInv, TypeOK
      <4> QED
        BY <2>5, <3>1, <4>2 DEF UpInv, OneService
    <3>2. CASE pc'[e] = "unready"
      <4>1. pc[e] = "record" /\ state' = seen[e]
        BY <2>8, <3>2 DEF Arrives, Retiring, Record
      <4> QED
        BY <1>j, <2>1, <2>3, <2>5, <3>2, <4>1 DEF AdopterInv
    <3>3. CASE pc'[e] = "adopted"
      <4>1. pc[e] = "unready"
        BY <2>8, <3>3 DEF Arrives, Retiring, Unready
      <4> QED
        BY <1>j, <1>t, <2>1, <2>3, <2>6, <2>8, <3>3, <4>1
           DEF AdopterInv, Arrives, Retiring, Unready, Goto, TypedInv, TypeOK
    <3>4. CASE pc'[e] = "break"
      <4>1. pc[e] = "adopted" \/ (pc[e] = "expiry" /\ owner[e] \in expired)
        BY <1>t, <2>2, <2>3, <2>8, <3>4, SupervisorAssumption
           DEF Arrives, Retiring, CheckOwner, CheckUnowned, Overdue, Abandoned, Goto,
               TypedInv, TypeOK,
               Calls
      <4> QED
        BY <2>3, <2>6, <3>4, <4>1 DEF AdopterInv
    <3>5. CASE pc'[e] \in {"expiry", "adopt"} /\ owner[e] \in expired'
      <4>1. UNCHANGED expired
        BY <2>8, <3>5 DEF Arrives, Retiring, ReadCandidate, Adopt, AdoptUnchanged
      <4>2. ASSUME ReadCandidate(e), NEW d \in Up
            PROVE  d \in {state, ready[owner[e]]}
        <5>1. CASE state # d
          <6>1. launcher[d] = owner[e] /\ phase[d] # "starting"
            BY <2>3, <3>5, <4>1, <4>2, <5>1 DEF UpInv, ChildInv, Up
          <6> QED
            BY <4>2, <5>1, <6>1 DEF ReadyInv, Up
        <5> QED
          BY <5>1
      <4>3. CASE ReadCandidate(e) /\ pc'[e] = "adopt"
        BY <1>t, <2>5, <2>6, <4>2, <4>3
           DEF ReadCandidate, TypedInv, TypeOK, UpInv, OneService
      <4>4. CASE ReadCandidate(e) /\ pc'[e] = "expiry"
        <5>1. ready[owner[e]] = NoDaemon
          BY <1>t, <4>4 DEF ReadCandidate, Goto, TypedInv, TypeOK
        <5>2. Up \subseteq {state}
          BY <4>2, <4>4, <5>1, SupervisorAssumption DEF Up
        <5> QED
          BY <2>6, <4>4, <5>2
      <4>5. CASE Adopt(e) /\ pc'[e] = "expiry"
        <5>1. Unheard(seen[e]) /\ pc[e] = "adopt"
          BY <1>t, <4>5 DEF Adopt, Goto, TypedInv, TypeOK
        <5>2. seen[e] \notin Up
          BY <1>t, <5>1
             DEF LateAnswer, Unheard, Serving, Up, KnownInv, Past, TypedInv, TypeOK
        <5>3. Up \subseteq {state}
          BY <2>3, <3>5, <4>1, <5>1, <5>2 DEF AdopterInv
        <5> QED
          BY <2>6, <4>5, <5>3
      <4> QED
        BY <2>1, <2>8, <3>5, <4>3, <4>4, <4>5 DEF Arrives, Retiring
    <3> QED
      BY <1>j, <2>1, <3>1, <3>2, <3>3, <3>4, <3>5
  <2> QED
    BY <1>t, <2>7, <2>8, NextArrives
<1> QED
  BY <1>n, <1>j

\* The ready candidates move in no other way.
LEMMA NextReady ==
  ASSUME TypedInv, Next, NEW x \in Daemons
  PROVE  ReadyMoves(x)
<1> USE SupervisorAssumption DEF TypedInv, TypeOK, PlaceInv, Retiring, Starting,
        StopPlaces, Calls, files, daemons, locals, budgets, ReadyMoves
<1>1. ASSUME NEW c \in Calls, Step(c)
      PROVE  ReadyMoves(x)
  BY <1>1 DEF Step, Look, Return, Goto, Ask, Heard, Unheard, Serving, Quiet,
      Mkdir, LockUnchanged, WriteOwner, Fail, Contend, CheckUnowned,
      CheckOwner, Break, Release, Unlock, ReadCandidate, AdoptUnchanged, Adopt,
      Record, Unready, Retire, RetireUnchanged, Probe, SilentForGood, Shut,
      Refused, Drain, Proceed, Evict, Terminate, Gone, Spawn, SpawnUnchanged,
      Await, Hear, CheckChild, Reaped
<1>2. ASSUME NEW c \in Calls, GiveUp(c) \/ Crash(c) \/ Expire(c)
            \/ AwaitTimesOut(c) \/ DrainTimesOut(c) \/ Kill(c) \/ SpawnFails(c)
      PROVE  ReadyMoves(x)
  BY <1>2 DEF GiveUp, Fail, Goto, Crash, Expire, AwaitTimesOut, Terminate,
      SpawnUnchanged, DrainTimesOut, Refused, RetireUnchanged, Kill, SpawnFails
<1>3. ASSUME NEW d \in Daemons, Serve(d) \/ Die(d)
      PROVE  ReadyMoves(x)
  BY <1>3 DEF Serve, PublishReady, DaemonUnchanged, BeginStop, ReadOwnState,
      UnlinkState, RemoveCandidate, Exit, Die
<1>4. ASSUME Age
      PROVE  ReadyMoves(x)
  BY <1>4 DEF Age
<1> QED
  BY <1>1, <1>2, <1>3, <1>4 DEF Next

\* A ready candidate is there until its daemon is recorded.
LEMMA NextReadyInv ==
  ASSUME TypedInv, ServiceInv, Next, ~StaleWrite
  PROVE  ReadyInv'
<1> USE DEF ServiceInv
<1> SUFFICES ASSUME NEW d \in Daemons, phase'[d] = "serving", state' # d
             PROVE  launcher'[d] \in Ensures /\ ready'[launcher'[d]] = d
  BY DEF ReadyInv
<1>t. ready \in [Ensures -> Daemons \cup {NoDaemon}]
      /\ launcher \in [Daemons -> Ensures \cup {NoCall}]
  BY DEF TypedInv, TypeOK
<1>1. Up' \subseteq Up /\ UNCHANGED launcher
  <2>1. ASSUME NEW c \in Ensures, NEW x \in Daemons, Spawn(c, x)
        PROVE  FALSE
    <3>1. Up = {}
      BY <2>1 DEF HolderInv, Spawn
    <3>2. phase'[x] = "starting" /\ (x # d => phase'[d] = phase[d])
      BY <2>1 DEF Spawn, TypedInv, TypeOK
    <3> QED
      BY <3>1, <3>2 DEF Up
  <2> QED
    BY <2>1, NextUp
<1>2. Up = {d}
  BY <1>1 DEF Up, UpInv, OneService
<1>3. state # d
  BY <1>1, <1>2, RecordedStays DEF Up
<1>4. launcher[d] \in Ensures /\ lock = launcher[d]
  BY <1>2, <1>3 DEF UpInv
<1>5. CASE ready' = ready /\ (phase'[d] = "serving" => phase[d] = "serving")
  BY <1>1, <1>3, <1>4, <1>5 DEF ReadyInv
<1>6. ASSUME NEW x \in Daemons, PublishReady(x)
      PROVE  ready'[launcher[d]] = d
  <2>1. x = d
    BY <1>2, <1>6 DEF PublishReady, Up
  <2> QED
    BY <1>4, <1>6, <2>1, <1>t DEF PublishReady
<1>7. ASSUME NEW c \in Calls, Unready(c)
      PROVE  ready'[launcher[d]] = d
  <2>1. CASE c \in holds
    <3>1. c \in Ensures /\ pc[c] = "unready"
      BY <1>7, <2>1 DEF Unready, TypedInv, TypeOK
    <3> QED
      BY <1>2, <1>3, <2>1, <3>1 DEF HolderInv
  <2>2. CASE c \notin holds
    <3>1. ready' = [ready EXCEPT ![owner[c]] = NoDaemon] /\ UNCHANGED phase /\ pc[c] = "unready"
      BY <1>7, <2>2 DEF Unready, AdoptUnchanged, daemons
    <3>2. ready[launcher[d]] = d
      BY <1>3, <1>4, <3>1 DEF ReadyInv
    <3>3. c \in Ensures
      BY <3>1 DEF TypedInv, PlaceInv, StopPlaces, Calls
    <3>4. owner[c] # launcher[d]
      BY <1>2, <1>3, <1>4, <2>2, <3>1, <3>3 DEF AdopterInv
    <3> QED
      BY <1>4, <3>1, <3>2, <3>4, <1>t
  <2> QED
    BY <2>1, <2>2
<1>8. ASSUME NEW x \in Daemons, RemoveCandidate(x)
      PROVE  ready'[launcher[d]] = d
  <2>1. x # d /\ phase[d] = "serving" /\ phase[x] = "unlinked"
    BY <1>8, <1>2 DEF RemoveCandidate, TypedInv, TypeOK, Up
  <2>2. ready[launcher[d]] = d
    BY <1>3, <1>4, <2>1 DEF ReadyInv
  <2>3. launcher[x] # launcher[d]
    BY <1>4, <2>1 DEF ChildInv
  <2> QED
    BY <1>4, <1>8, <1>t, <2>2, <2>3 DEF RemoveCandidate
<1> QED
  BY <1>1, <1>4, <1>5, <1>6, <1>7, <1>8, NextReady DEF ReadyMoves

-----------------------------------------------------------------------------
\* The initial states satisfy the invariant: one daemon at most runs, and it is
\* recorded.
LEMMA InitServiceInv == Init => ServiceInv
<1> SUFFICES ASSUME Init PROVE ServiceInv
  OBVIOUS
<1> USE SupervisorAssumption DEF Init, Calls
<1>1. LockInv /\ HoldsInv
  BY DEF LockInv, HoldsInv, Contending, Holding, Starting, Retiring, Ended
<1>2. OwnerInv
  BY DEF OwnerInv, OwnerHeld, OwnerEnded, BrokenEnded, ExpiredEnded, Adopting
<1>3. ChildInv
  BY DEF ChildInv
<1>4. Up \subseteq {state}
  BY DEF Up
<1>5. UpInv /\ HolderInv /\ AdopterInv
  BY <1>4 DEF UpInv, OneService, HolderInv, AdopterInv, Retiring
<1>6. ReadyInv
  BY DEF ReadyInv
<1> QED
  BY <1>1, <1>2, <1>3, <1>5, <1>6 DEF ServiceInv

\* The invariant is inductive where no write is stale and no answer late.
LEMMA NextServiceInv ==
  ASSUME SupervisorInv, ServiceInv, CarefulNext
  PROVE  ServiceInv'
<1> USE DEF CarefulNext, SupervisorInv
<1>1. TypedInv'
  BY NextTyped
<1>2. LockInv'
  BY SoundBreak, NextLockInv DEF ServiceInv
<1>3. HoldsInv' /\ OwnerInv'
  BY NextHolds, NextOwner DEF ServiceInv
<1>4. ChildInv'
  BY NextChild DEF ServiceInv, OwnerInv
<1>5. UpInv' /\ HolderInv' /\ AdopterInv' /\ ReadyInv'
  BY <1>1, NextUpInv, NextHolder, NextAdopter, NextReadyInv
<1> QED
  BY <1>2, <1>3, <1>4, <1>5 DEF ServiceInv

\* Steps that change nothing keep it too.
LEMMA StutterServiceInv ==
  ASSUME ServiceInv, UNCHANGED vars
  PROVE  ServiceInv'
<1> USE DEF vars, files, daemons, locals, budgets, ServiceInv
<1>1. LockInv' /\ HoldsInv'
  BY DEF LockInv, HoldsInv, Contending, Holding, Starting, Retiring, Ended
<1>2. OwnerInv'
  BY DEF OwnerInv, OwnerHeld, OwnerEnded, BrokenEnded, ExpiredEnded, Adopting, Ended
<1>3. ChildInv'
  BY DEF ChildInv, Starting
<1>4. UpInv' /\ HolderInv' /\ AdopterInv' /\ ReadyInv'
  BY DEF UpInv, OneService, HolderInv, AdopterInv, ReadyInv, Retiring, Up
<1> QED
  BY <1>1, <1>2, <1>3, <1>4

\* With the second invariant, in every state that careful steps reach: who has the
\* lock, and what its holder and its contenders know of the daemons that are up.
THEOREM ServiceInvariant == CarefulSpec => [](SupervisorInv /\ ServiceInv)
<1>1. Init => SupervisorInv /\ ServiceInv
  BY InitSupervisorInv, InitServiceInv
<1>2. SupervisorInv /\ ServiceInv /\ [CarefulNext]_vars => SupervisorInv' /\ ServiceInv'
  BY NextSupervisorInv, StutterSupervisorInv, NextServiceInv, StutterServiceInv
     DEF CarefulNext
<1> QED
  BY <1>1, <1>2, PTL DEF CarefulSpec

\* Two daemons never run or start at once, for any number of commands, stops,
\* replaced versions, crashes, deaths and timeouts, as long as no write is stale
\* and no live daemon answers late.
THEOREM OneServiceUnlessStale == CarefulSpec => []OneService
<1>1. ServiceInv => OneService
  BY DEF ServiceInv, UpInv
<1> QED
  BY <1>1, ServiceInvariant, PTL

\* Under the same condition a daemon that serves is recorded, or its launcher is
\* alive to record it, or its launcher's lock and ready candidate are there.
THEOREM RecordedOrAdoptableUnlessStale == CarefulSpec => []RecordedOrAdoptable
<1>1. ServiceInv => RecordedOrAdoptable
  BY DEF ServiceInv, UpInv, ReadyInv, RecordedOrAdoptable, Up
<1> QED
  BY <1>1, ServiceInvariant, PTL

\* What makes a lock of startup.lock: under the same condition a live call that
\* has written its owner.json finds it there until it removes it itself.
THEOREM HolderKeepsItsLock == CarefulSpec => [](\A c \in holds : ~Ended(c) => lock = c)
<1>1. ServiceInv => (\A c \in holds : ~Ended(c) => lock = c)
  BY DEF ServiceInv, LockInv
<1> QED
  BY <1>1, ServiceInvariant, PTL

=============================================================================
