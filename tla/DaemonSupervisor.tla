-------------------------- MODULE DaemonSupervisor --------------------------
(***************************************************************************)
(* How the commands find, start, replace and stop the hidden daemon        *)
(* (src/cli/daemon-manager.ts, src/daemon/startup-lock.ts, state-file.ts,  *)
(* src/commands/stop.ts, and the start and stop of src/daemon/server.ts).  *)
(*                                                                         *)
(* The processes share four things under ~/.agent-debug-mode: the          *)
(* directory startup.lock with its owner.json, daemon.json, and the        *)
(* ready/<nonce>.json files.  None of them is ever locked, so each read    *)
(* and each write of one is a step, and anything may happen in between.    *)
(*                                                                         *)
(* A call of ensureDaemonOnce takes the lock at most once, so the call     *)
(* itself stands for the nonce, the pid and the deadline it writes into    *)
(* owner.json.  Time appears where the code compares it: a lock directory  *)
(* that has been without an owner for 250 ms, an owner whose deadline has  *)
(* passed, a deadline of one's own.                                        *)
(***************************************************************************)
EXTENDS Naturals, FiniteSets

CONSTANTS
    Ensures,       \* calls of ensureDaemonOnce, each by a process of this version
    Stops,         \* runs of the stop command
    Daemons,       \* daemon processes that ever run
    Old,           \* the daemons of another version that may run already
    Busy,          \* those of them that have sessions
    NoDaemon, NoCall,
    ProbeAttempts, \* probes before a daemon counts as dead (5)
    SpawnAttempts, \* children a call starts (3)
    MaxSlow,       \* health requests that time out against a live daemon
    MaxCrashes,    \* command processes that die
    MaxDeaths,     \* daemons that die, are idle for 30 minutes, or are not launched
    MaxTimeouts    \* waits that exceed their deadline

Calls == Ensures \cup Stops

ASSUME SupervisorAssumption ==
    /\ Ensures \cap Stops = {}
    /\ Old \subseteq Daemons
    /\ Busy \subseteq Old
    /\ NoDaemon \notin Daemons
    /\ NoCall \notin Calls
    /\ {"absent", "unowned"} \cap (Calls \cup {NoCall}) = {}
    /\ {ProbeAttempts, SpawnAttempts} \subseteq Nat \ {0}
    /\ {MaxSlow, MaxCrashes, MaxDeaths, MaxTimeouts} \subseteq Nat

VARIABLES
    \* The files.
    lock,     \* startup.lock: "absent", or "unowned", or the call in owner.json
    aged,     \* the directory is 250 ms old
    state,    \* daemon.json
    ready,    \* ready/<nonce>.json
    \* The daemons.
    phase,    \* how far each has come
    launcher, \* the nonce it was started with
    asked,    \* its shutdown was requested
    \* The calls.
    pc,       \* the next step of each
    holds,    \* it has a StartupLock to release
    seen,     \* the daemon it looks at, and in the end returns
    owner,    \* the owner.json it has read
    child,    \* the daemon it spawned last
    tries,    \* children spawned, and then probes sent
    result,
    expired,  \* its deadline has passed
    slow, crashes, deaths, timeouts   \* how much of each bound is used up

files   == <<lock, aged, state, ready>>
daemons == <<phase, launcher, asked>>
locals  == <<holds, seen, owner, child, tries, result>>
budgets == <<slow, crashes, deaths, timeouts>>
vars == <<files, daemons, pc, locals, expired, budgets>>

Init ==
    /\ lock = "absent"
    /\ aged = FALSE
    /\ state \in Old \cup {NoDaemon}
    /\ ready = [c \in Ensures |-> NoDaemon]
    /\ phase = [d \in Daemons |-> IF d = state THEN "serving" ELSE "unborn"]
    /\ launcher = [d \in Daemons |-> NoCall]
    /\ asked = {}
    /\ pc = [c \in Calls |-> "look"]
    /\ holds = {}
    /\ seen = [c \in Calls |-> NoDaemon]
    /\ owner = [c \in Calls |-> NoCall]
    /\ child = [c \in Calls |-> NoDaemon]
    /\ tries = [c \in Calls |-> 0]
    /\ result = [c \in Calls |-> "none"]
    /\ expired = {}
    /\ slow = 0
    /\ crashes = 0
    /\ deaths = 0
    /\ timeouts = 0

Goto(c, place) == pc' = [pc EXCEPT ![c] = place]

Ended(c) == pc[c] \in {"done", "crashed"}

Compatible(d) == d \notin Old

-----------------------------------------------------------------------------
(***************************************************************************)
(* A health request is answered by a daemon that serves, unless it is too  *)
(* busy to answer in time.                                                 *)
(***************************************************************************)
Serving(d) == d \in Daemons /\ phase[d] = "serving"

Heard(d) == Serving(d) /\ UNCHANGED slow

Unheard(d) ==
    IF Serving(d) THEN slow < MaxSlow /\ slow' = slow + 1 ELSE UNCHANGED slow

Quiet == UNCHANGED <<crashes, deaths, timeouts>>

\* The call ends well: it holds the lock and must release it first, or not.
Return(c) ==
    /\ result' = [result EXCEPT ![c] = "ok"]
    /\ Goto(c, IF c \in holds THEN "release" ELSE "done")

Fail(c) ==
    /\ result' = [result EXCEPT ![c] = "failed"]
    /\ Goto(c, IF c \in holds THEN "release" ELSE "done")

\* readReusableConnection, before the lock and once more under it.
Look(c) ==
    /\ pc[c] = "look"
    /\ seen' = [seen EXCEPT ![c] = state]
    /\ IF c \in Stops
       THEN IF state = NoDaemon THEN Return(c) ELSE Goto(c, "shut") /\ UNCHANGED result
       ELSE Goto(c, "ask") /\ UNCHANGED result
    /\ UNCHANGED <<files, daemons, holds, owner, child, tries, expired, budgets>>

Ask(c) ==
    /\ pc[c] = "ask"
    /\ \/ Heard(seen[c]) /\ Compatible(seen[c]) /\ Return(c)
       \/ /\ Unheard(seen[c]) \/ (Heard(seen[c]) /\ ~Compatible(seen[c]))
          /\ Goto(c, IF c \in holds THEN "retire" ELSE "mkdir")
          /\ UNCHANGED result
    /\ UNCHANGED <<files, daemons, holds, seen, owner, child, tries, expired>>
    /\ Quiet

\* The loop gives up when its own deadline has passed.
GiveUp(c) ==
    /\ pc[c] = "look"
    /\ c \in Ensures \ holds
    /\ timeouts < MaxTimeouts
    /\ timeouts' = timeouts + 1
    /\ Fail(c)
    /\ UNCHANGED <<files, daemons, holds, seen, owner, child, tries, expired,
                   slow, crashes, deaths>>

-----------------------------------------------------------------------------
(***************************************************************************)
(* StartupLock.                                                            *)
(***************************************************************************)
LockUnchanged == UNCHANGED <<state, ready, daemons, seen, child, tries, expired, budgets>>

\* Mistake: the directory may exist already.
MkdirRecursive(c) ==
    /\ pc[c] = "mkdir"
    /\ lock' = "unowned" /\ aged' = FALSE /\ Goto(c, "own")
    /\ UNCHANGED <<holds, owner, result>>
    /\ LockUnchanged

\* tryAcquire: mkdir is what excludes.
Mkdir(c) ==
    /\ pc[c] = "mkdir"
    /\ IF lock = "absent"
       THEN lock' = "unowned" /\ aged' = FALSE /\ Goto(c, "own")
       ELSE UNCHANGED <<lock, aged>> /\ Goto(c, "contend")
    /\ UNCHANGED <<holds, owner, result>>
    /\ LockUnchanged

\* ... and owner.json is written afterwards, by path: into whatever directory
\* is there, and not at all if there is none.
WriteOwner(c) ==
    /\ pc[c] = "own"
    /\ IF lock = "absent"
       THEN Fail(c) /\ UNCHANGED <<lock, holds>>
       ELSE /\ lock' = c
            /\ holds' = holds \cup {c}
            /\ Goto(c, "look")
            /\ UNCHANGED result
    /\ UNCHANGED <<aged, owner>>
    /\ LockUnchanged

\* A contender reads owner.json and looks for the process it names.
Contend(c) ==
    /\ pc[c] = "contend"
    /\ IF lock \in {"absent", "unowned"}
       THEN Goto(c, "unowned") /\ UNCHANGED owner
       ELSE /\ owner' = [owner EXCEPT ![c] = lock]
            /\ Goto(c, IF Ended(lock) THEN "candidate" ELSE "look")
    /\ UNCHANGED <<lock, aged, holds, result>>
    /\ LockUnchanged

\* Mistake: a directory without an owner is left to its creator.
AbandonedIfOwned == lock \in Calls /\ aged

Abandoned == lock = "unowned" /\ aged

\* breakIfUnownedAndOlderThan: stat and readOwner, and then rm.
CheckUnowned(c) ==
    /\ pc[c] = "unowned"
    /\ Goto(c, IF Abandoned THEN "break" ELSE "look")
    /\ UNCHANGED <<lock, aged, holds, owner, result>>
    /\ LockUnchanged

\* Mistake: the lock of a dead process is broken at once.
OverdueAtOnce(c) == TRUE

Overdue(c) == owner[c] \in expired

\* breakIfOwnedBy: readOwner, and then rm.
CheckOwner(c) ==
    /\ pc[c] \in {"expiry", "adopted"}
    /\ IF lock = owner[c] /\ (pc[c] = "expiry" => Overdue(c))
       THEN Goto(c, "break")
       ELSE Goto(c, IF pc[c] = "adopted" THEN "done" ELSE "look")
    /\ UNCHANGED <<lock, aged, holds, owner, result>>
    /\ LockUnchanged

\* The rm removes whatever directory is there by now.
Break(c) ==
    /\ pc[c] = "break"
    /\ lock' = "absent"
    /\ Goto(c, IF result[c] = "ok" THEN "done" ELSE "look")
    /\ UNCHANGED <<aged, holds, owner, result>>
    /\ LockUnchanged

\* The finally block.
Release(c) ==
    /\ pc[c] = "release"
    /\ Goto(c, IF lock = c THEN "unlock" ELSE "done")
    /\ UNCHANGED <<lock, aged, holds, owner, result>>
    /\ LockUnchanged

Unlock(c) ==
    /\ pc[c] = "unlock"
    /\ lock' = "absent"
    /\ Goto(c, "done")
    /\ UNCHANGED <<aged, holds, owner, result>>
    /\ LockUnchanged

-----------------------------------------------------------------------------
(***************************************************************************)
(* tryAdoptReadyCandidate: the launcher died, the daemon it started did    *)
(* not.                                                                    *)
(***************************************************************************)
AdoptUnchanged == UNCHANGED <<lock, aged, daemons, holds, owner, child, tries, expired>>

ReadCandidate(c) ==
    /\ pc[c] = "candidate"
    /\ seen' = [seen EXCEPT ![c] = ready[owner[c]]]
    /\ Goto(c, IF ready[owner[c]] = NoDaemon THEN "expiry" ELSE "adopt")
    /\ UNCHANGED <<state, ready, result, budgets>>
    /\ AdoptUnchanged

Adopt(c) ==
    /\ pc[c] = "adopt"
    /\ \/ Heard(seen[c]) /\ Goto(c, "record")
       \/ Unheard(seen[c]) /\ Goto(c, "expiry")
    /\ UNCHANGED <<state, ready, seen, result>>
    /\ AdoptUnchanged
    /\ Quiet

\* writeDaemonState, by the adopter and by a launcher.
Record(c) ==
    /\ pc[c] = "record"
    /\ state' = seen[c]
    /\ Goto(c, "unready")
    /\ UNCHANGED <<ready, seen, result, budgets>>
    /\ AdoptUnchanged

\* removeReadyCandidate; the call has its connection.
Unready(c) ==
    /\ pc[c] = "unready"
    /\ ready' = [ready EXCEPT ![IF c \in holds THEN c ELSE owner[c]] = NoDaemon]
    /\ result' = [result EXCEPT ![c] = "ok"]
    /\ Goto(c, IF c \in holds THEN "release" ELSE "adopted")
    /\ UNCHANGED <<state, seen, budgets>>
    /\ AdoptUnchanged

-----------------------------------------------------------------------------
(***************************************************************************)
(* retireVerifiedStaleProcess, under the lock; the stop command takes the  *)
(* same steps without it.                                                  *)
(***************************************************************************)
RetireUnchanged == UNCHANGED <<files, launcher, holds, owner, child, expired>>

Retire(c) ==
    /\ pc[c] = "retire"
    /\ seen' = [seen EXCEPT ![c] = state]
    /\ tries' = [tries EXCEPT ![c] = 0]
    /\ Goto(c, IF state = NoDaemon THEN "spawn" ELSE "probe")
    /\ UNCHANGED <<phase, asked, result, budgets>>
    /\ RetireUnchanged

\* Mistake: one unanswered probe is taken for silence.
SilentAtOnce(c) == TRUE

\* Mistake: one probe more than there are attempts.
SilentTooLate(c) == tries[c] = ProbeAttempts

\* Whether this was the last attempt of probeDaemonHealth.
SilentForGood(c) == tries[c] + 1 = ProbeAttempts

\* Mistake: the sessions of the other version are not counted.
NeverInUse(d) == FALSE

InUse(d) == d \in Busy

\* probeDaemonHealth, and what its answer means.
Probe(c) ==
    /\ pc[c] = "probe"
    /\ \/ /\ Heard(seen[c])
          /\ IF c \in Stops \/ InUse(seen[c]) THEN Fail(c)
             ELSE IF Compatible(seen[c]) THEN Return(c)
             ELSE Goto(c, "shut") /\ UNCHANGED result
          /\ tries' = [tries EXCEPT ![c] = 0]
       \/ /\ Unheard(seen[c])
          /\ UNCHANGED result
          /\ IF SilentForGood(c)
             THEN tries' = [tries EXCEPT ![c] = 0] /\ Goto(c, "evict")
             ELSE tries' = [tries EXCEPT ![c] = @ + 1] /\ UNCHANGED pc
    /\ UNCHANGED <<phase, asked, seen>>
    /\ RetireUnchanged
    /\ Quiet

\* What follows once the recorded daemon is out of the way.
Proceed(c) ==
    IF c \in Stops THEN Return(c) ELSE Goto(c, "spawn") /\ UNCHANGED result

\* Mistake: a daemon that does not take the request counts as stopped.
RefusedIsGone(c) == Proceed(c)

\* The stop command looks closer, a replacement gives up.
Refused(c) ==
    IF c \in Stops THEN Goto(c, "probe") /\ UNCHANGED result ELSE Fail(c)

\* requestDaemonShutdown: the request, and then health until there is none.
Shut(c) ==
    /\ pc[c] = "shut"
    /\ \/ /\ Heard(seen[c])
          /\ asked' = asked \cup {seen[c]}
          /\ Goto(c, "drain")
          /\ UNCHANGED result
       \/ /\ Unheard(seen[c])
          /\ UNCHANGED asked
          /\ Refused(c)
    /\ UNCHANGED <<phase, seen, tries>>
    /\ RetireUnchanged
    /\ Quiet

Drain(c) ==
    /\ pc[c] = "drain"
    /\ Unheard(seen[c])
    /\ Proceed(c)
    /\ UNCHANGED <<phase, asked, seen, tries>>
    /\ RetireUnchanged
    /\ Quiet

DrainTimesOut(c) ==
    /\ pc[c] = "drain"
    /\ timeouts < MaxTimeouts
    /\ timeouts' = timeouts + 1
    /\ Refused(c)
    /\ UNCHANGED <<phase, asked, seen, tries, slow, crashes, deaths>>
    /\ RetireUnchanged

\* SIGTERM ends a daemon that has not installed its handlers; later they stop it.
Terminate(d) ==
    CASE phase[d] = "starting" -> phase' = [phase EXCEPT ![d] = "dead"] /\ UNCHANGED asked
      [] phase[d] = "serving" -> asked' = asked \cup {d} /\ UNCHANGED phase
      [] OTHER -> UNCHANGED <<phase, asked>>

\* ensureRecordedProcessGone: signal the recorded process, wait until it is gone.
Evict(c) ==
    /\ pc[c] = "evict"
    /\ Terminate(seen[c])
    /\ Goto(c, "gone")
    /\ UNCHANGED <<seen, tries, result, budgets>>
    /\ RetireUnchanged

Gone(c) ==
    /\ pc[c] = "gone"
    /\ phase[seen[c]] = "dead"
    /\ Proceed(c)
    /\ UNCHANGED <<phase, asked, seen, tries, budgets>>
    /\ RetireUnchanged

\* ... or kill it.
Kill(c) ==
    /\ pc[c] \in {"gone", "reaped"}
    /\ timeouts < MaxTimeouts
    /\ timeouts' = timeouts + 1
    /\ LET d == IF pc[c] = "gone" THEN seen[c] ELSE child[c]
       IN phase[d] # "dead" /\ phase' = [phase EXCEPT ![d] = "dead"]
    /\ UNCHANGED <<pc, asked, seen, tries, result, slow, crashes, deaths>>
    /\ RetireUnchanged

-----------------------------------------------------------------------------
(***************************************************************************)
(* The attempts to spawn a daemon, and awaitReadyCandidate.                *)
(***************************************************************************)
SpawnUnchanged == UNCHANGED <<lock, aged, state, ready, holds, owner, expired>>

Spawn(c, d) ==
    /\ pc[c] = "spawn"
    /\ phase[d] = "unborn"
    /\ d \notin Old
    /\ phase' = [phase EXCEPT ![d] = "starting"]
    /\ launcher' = [launcher EXCEPT ![d] = c]
    /\ child' = [child EXCEPT ![c] = d]
    /\ tries' = [tries EXCEPT ![c] = @ + 1]
    /\ Goto(c, "await")
    /\ UNCHANGED <<asked, seen, result, budgets>>
    /\ SpawnUnchanged

SpawnFails(c) ==
    /\ pc[c] = "spawn"
    /\ deaths < MaxDeaths
    /\ deaths' = deaths + 1
    /\ tries' = [tries EXCEPT ![c] = @ + 1]
    /\ IF tries[c] + 1 < SpawnAttempts THEN UNCHANGED <<pc, result>> ELSE Fail(c)
    /\ UNCHANGED <<daemons, seen, child, slow, crashes, timeouts>>
    /\ SpawnUnchanged

Await(c) ==
    /\ pc[c] = "await"
    /\ seen' = [seen EXCEPT ![c] = ready[c]]
    /\ Goto(c, IF ready[c] = NoDaemon THEN "child" ELSE "hear")
    /\ UNCHANGED <<daemons, child, tries, result, budgets>>
    /\ SpawnUnchanged

Hear(c) ==
    /\ pc[c] = "hear"
    /\ \/ Heard(seen[c]) /\ Goto(c, "record")
       \/ Unheard(seen[c]) /\ Goto(c, "child")
    /\ UNCHANGED <<daemons, seen, child, tries, result>>
    /\ SpawnUnchanged
    /\ Quiet

\* hasExited: another attempt, while there is one left.
CheckChild(c) ==
    /\ pc[c] = "child"
    /\ IF phase[child[c]] # "dead" THEN Goto(c, "await") /\ UNCHANGED result
       ELSE IF tries[c] < SpawnAttempts THEN Goto(c, "spawn") /\ UNCHANGED result
       ELSE Fail(c)
    /\ UNCHANGED <<daemons, seen, child, tries, budgets>>
    /\ SpawnUnchanged

\* The startup deadline: the child is retired, whatever it has come to be.
AwaitTimesOut(c) ==
    /\ pc[c] = "await"
    /\ timeouts < MaxTimeouts
    /\ timeouts' = timeouts + 1
    /\ Terminate(child[c])
    /\ Goto(c, "reaped")
    /\ UNCHANGED <<launcher, seen, child, tries, result, slow, crashes, deaths>>
    /\ SpawnUnchanged

Reaped(c) ==
    /\ pc[c] = "reaped"
    /\ phase[child[c]] = "dead"
    /\ Fail(c)
    /\ UNCHANGED <<daemons, seen, child, tries, budgets>>
    /\ SpawnUnchanged

-----------------------------------------------------------------------------
(***************************************************************************)
(* The daemon: startDaemonServer, stop(), runDaemon.                       *)
(***************************************************************************)
DaemonUnchanged == UNCHANGED <<lock, aged, launcher, pc, locals, expired>>

PublishReady(d) ==
    /\ phase[d] = "starting"
    /\ phase' = [phase EXCEPT ![d] = "serving"]
    /\ ready' = [ready EXCEPT ![launcher[d]] = d]
    /\ UNCHANGED <<state, asked, budgets>>
    /\ DaemonUnchanged

\* stop(): a shutdown request, a signal or the idle timer; the listener closes.
BeginStop(d) ==
    /\ phase[d] = "serving"
    /\ \/ d \in asked /\ UNCHANGED deaths
       \/ d \notin asked /\ deaths < MaxDeaths /\ deaths' = deaths + 1
    /\ phase' = [phase EXCEPT ![d] = "closed"]
    /\ UNCHANGED <<state, ready, asked, slow, crashes, timeouts>>
    /\ DaemonUnchanged

\* removeOwnedDaemonState reads daemon.json ...
ReadOwnState(d) ==
    /\ phase[d] = "closed"
    /\ phase' = [phase EXCEPT ![d] = IF state = d THEN "unlinking" ELSE "unlinked"]
    /\ UNCHANGED <<state, ready, asked, budgets>>
    /\ DaemonUnchanged

\* ... and removes what is there by now.
UnlinkState(d) ==
    /\ phase[d] = "unlinking"
    /\ state' = NoDaemon
    /\ phase' = [phase EXCEPT ![d] = "unlinked"]
    /\ UNCHANGED <<ready, asked, budgets>>
    /\ DaemonUnchanged

RemoveCandidate(d) ==
    /\ phase[d] = "unlinked"
    /\ ready' = IF launcher[d] \in Ensures
                THEN [ready EXCEPT ![launcher[d]] = NoDaemon] ELSE ready
    /\ phase' = [phase EXCEPT ![d] = "draining"]
    /\ UNCHANGED <<state, asked, budgets>>
    /\ DaemonUnchanged

\* The observer finishes its tick, and the process exits.
Exit(d) ==
    /\ phase[d] = "draining"
    /\ phase' = [phase EXCEPT ![d] = "dead"]
    /\ UNCHANGED <<state, ready, asked, budgets>>
    /\ DaemonUnchanged

Die(d) ==
    /\ phase[d] \notin {"unborn", "dead"}
    /\ deaths < MaxDeaths
    /\ deaths' = deaths + 1
    /\ phase' = [phase EXCEPT ![d] = "dead"]
    /\ UNCHANGED <<state, ready, asked, slow, crashes, timeouts>>
    /\ DaemonUnchanged

-----------------------------------------------------------------------------
(***************************************************************************)
(* Crashes of commands, and time.                                          *)
(***************************************************************************)
Crash(c) ==
    /\ ~Ended(c)
    /\ crashes < MaxCrashes
    /\ crashes' = crashes + 1
    /\ Goto(c, "crashed")
    /\ UNCHANGED <<files, daemons, locals, expired, slow, deaths, timeouts>>

\* A live call writes owner.json within 250 ms of its mkdir.
Age ==
    /\ lock = "unowned"
    /\ ~aged
    /\ \A c \in Calls : pc[c] # "own"
    /\ aged' = TRUE
    /\ UNCHANGED <<lock, state, ready, daemons, pc, locals, expired, budgets>>

\* A daemon is ready seconds before its launcher's 15 are over, or never: the
\* deadline does not pass while one starts, nor between a contender's reading
\* of the candidate and its look at the clock.
Expire(c) ==
    /\ Ended(c)
    /\ c \notin expired
    /\ c \in Ensures
    /\ \A d \in Daemons : launcher[d] = c => phase[d] # "starting"
    /\ \A b \in Ensures : pc[b] \notin {"adopt", "expiry"}
    /\ expired' = expired \cup {c}
    /\ UNCHANGED <<files, daemons, pc, locals, budgets>>

-----------------------------------------------------------------------------
Step(c) ==
    \/ Look(c) \/ Ask(c)
    \/ Mkdir(c) \/ WriteOwner(c) \/ Contend(c) \/ CheckUnowned(c) \/ CheckOwner(c)
    \/ Break(c) \/ Release(c) \/ Unlock(c)
    \/ ReadCandidate(c) \/ Adopt(c) \/ Record(c) \/ Unready(c)
    \/ Retire(c) \/ Probe(c) \/ Shut(c) \/ Drain(c) \/ Evict(c) \/ Gone(c)
    \/ (\E d \in Daemons : Spawn(c, d))
    \/ Await(c) \/ Hear(c) \/ CheckChild(c) \/ Reaped(c)

Serve(d) ==
    \/ PublishReady(d) \/ ReadOwnState(d) \/ UnlinkState(d) \/ RemoveCandidate(d) \/ Exit(d)
    \/ BeginStop(d)

Next ==
    \/ \E c \in Calls : Step(c) \/ GiveUp(c) \/ Crash(c) \/ Expire(c)
    \/ \E c \in Calls : AwaitTimesOut(c) \/ DrainTimesOut(c) \/ Kill(c) \/ SpawnFails(c)
    \/ \E d \in Daemons : Serve(d) \/ Die(d)
    \/ Age

Spec == Init /\ [][Next]_vars

\* Commands run, time passes, and a daemon comes up, and goes down when told to.
Fairness ==
    /\ \A c \in Calls : WF_vars(Step(c)) /\ SF_vars(Expire(c))
    /\ \A d \in Daemons :
          WF_vars(PublishReady(d) \/ ReadOwnState(d) \/ UnlinkState(d)
                  \/ RemoveCandidate(d) \/ Exit(d) \/ (BeginStop(d) /\ d \in asked))
    /\ WF_vars(Age)

FairSpec == Spec /\ Fairness

-----------------------------------------------------------------------------
(***************************************************************************)
(* Properties.                                                             *)
(***************************************************************************)
Places == {"look", "ask", "mkdir", "own", "contend", "unowned", "expiry", "adopted", "break",
           "release", "unlock", "candidate", "adopt", "record", "unready", "retire", "probe",
           "shut", "drain", "evict", "gone", "spawn", "await", "hear", "child", "reaped",
           "done", "crashed"}

Phases == {"unborn", "starting", "serving", "closed", "unlinking", "unlinked", "draining", "dead"}

\* The variables have their types, and the two retry loops their bounds: no
\* more than ProbeAttempts probes and SpawnAttempts children.
TypeOK ==
    /\ lock \in {"absent", "unowned"} \cup Ensures
    /\ aged \in BOOLEAN
    /\ state \in Daemons \cup {NoDaemon}
    /\ ready \in [Ensures -> Daemons \cup {NoDaemon}]
    /\ phase \in [Daemons -> Phases]
    /\ launcher \in [Daemons -> Ensures \cup {NoCall}]
    /\ asked \subseteq Daemons
    /\ pc \in [Calls -> Places]
    /\ holds \subseteq Ensures
    /\ seen \in [Calls -> Daemons \cup {NoDaemon}]
    /\ owner \in [Calls -> Ensures \cup {NoCall}]
    /\ child \in [Calls -> Daemons \cup {NoDaemon}]
    /\ tries \in [Calls -> Nat]
    /\ \A c \in Calls :
          /\ pc[c] = "probe" => tries[c] < ProbeAttempts
          /\ pc[c] \notin {"probe", "crashed"} => tries[c] <= SpawnAttempts
    /\ result \in [Calls -> {"none", "ok", "failed"}]
    /\ expired \subseteq Ensures
    /\ slow \in 0 .. MaxSlow
    /\ crashes \in 0 .. MaxCrashes
    /\ deaths \in 0 .. MaxDeaths
    /\ timeouts \in 0 .. MaxTimeouts

Up == {d \in Daemons : phase[d] \in {"starting", "serving"}}

\* There is never more than one daemon that runs or is about to: "concurrent
\* callers can never publish or use two authoritative daemons".
OneService == \A d, e \in Up : d = e

\* A daemon that serves can be found by the next command: daemon.json names
\* it, or its launcher is alive to record it, or the lock of its launcher and
\* the ready candidate are both there for a contender to adopt it.  One that
\* was told to stop need not be found.
RecordedOrAdoptable ==
    \A d \in Daemons : phase[d] = "serving" /\ d \notin asked =>
        \/ state = d
        \/ /\ launcher[d] \in Ensures
           /\ \/ ~Ended(launcher[d]) /\ child[launcher[d]] = d
              \/ lock = launcher[d] /\ ready[launcher[d]] = d

\* A daemon that serves is not signalled by a command that takes it for dead,
\* while fewer than ProbeAttempts health requests time out: "only a daemon
\* that stays silent is declared dead".
HealthyDaemonIsKept == \A c \in Calls : pc[c] = "evict" => ~Serving(seen[c])

\* Only the stop command stops an incompatible daemon that has sessions.
BusyDaemonIsKept == \A d \in Busy \cap asked : \E s \in Stops : seen[s] = d

\* When stop reports success, the daemon it found recorded does not serve or
\* has been told to stop.
StopMeansStopped ==
    \A s \in Stops : result[s] = "ok" => seen[s] \notin Up \ asked

\* Every command gets its daemon or an error: a lock left behind by a dead
\* process, with or without owner.json, holds nobody up for good.
EveryCallEnds == \A c \in Calls : <>Ended(c)

=============================================================================
