--------------------------- MODULE ActivityTracker ---------------------------
(***************************************************************************)
(* ActivityTracker (src/daemon/activity.ts): when an idle daemon stops.    *)
(*                                                                         *)
(* Every request and every ingested line touches the tracker; a live event *)
(* stream holds a lease.  One timer is armed whenever no lease is held.    *)
(* The timer runs on the event loop's clock; how long the daemon has been  *)
(* idle is read off the system clock, which may be set.                    *)
(*                                                                         *)
(* Both clocks are kept as distances (time since the last activity, time   *)
(* left on the timer), so time need not be bounded.  The generation        *)
(* counter appears as the one bit the code ever reads of it: whether it    *)
(* has changed since the timer was armed.                                  *)
(***************************************************************************)
EXTENDS Integers, FiniteSets

CONSTANTS
    IdleTimeout,  \* IDLE_TIMEOUT_MILLISECONDS, in ticks
    Leases,       \* the leases ever taken
    MaxJump,      \* how far the system clock may be set back, in ticks
    NoTimer       \* this.timer is undefined

ASSUME TrackerAssumption ==
    /\ IdleTimeout \in Nat \ {0}
    /\ MaxJump \in Nat
    /\ NoTimer \notin Nat

ASSUME LeasesAssumption == IsFiniteSet(Leases)

VARIABLES
    idle,     \* clock.now() - lastActivity, counted no further than IdleTimeout
    timer,    \* what is left of the armed timer, or NoTimer
    current,  \* generation = the one the timer was armed under
    leases,   \* the number of leases the tracker counts
    lease,    \* where each lease is
    stopped,
    onIdles,  \* how often onIdle was called
    quiet     \* history: real time since the last activity, up to IdleTimeout

vars == <<idle, timer, current, leases, lease, stopped, onIdles, quiet>>

AtMost(n, bound) == IF n <= bound THEN n ELSE bound
AtLeast(n, bound) == IF n >= bound THEN n ELSE bound

Held == {l \in Leases : lease[l] = "held"}

\* The constructor arms the first timer.
Init ==
    /\ idle = 0
    /\ timer = IdleTimeout
    /\ current = TRUE
    /\ leases = 0
    /\ lease = [l \in Leases |-> "free"]
    /\ stopped = FALSE
    /\ onIdles = 0
    /\ quiet = 0

-----------------------------------------------------------------------------
\* armTimer: replaces whatever was armed, under the present generation.
Arm(ticks) == timer' = ticks /\ current' = TRUE

\* Mistake: the timer is armed also under a lease.
NoteAndAlwaysArm ==
    /\ idle' = 0
    /\ quiet' = 0
    /\ Arm(IdleTimeout)

\* The body of touch(), once leases is known: no timer runs under a lease.
NoteActivity ==
    /\ idle' = 0
    /\ quiet' = 0
    /\ IF leases' = 0 THEN Arm(IdleTimeout) ELSE current' = FALSE /\ UNCHANGED timer

Touch ==
    /\ ~stopped
    /\ UNCHANGED <<leases, lease, stopped, onIdles>>
    /\ NoteActivity

\* Mistake: a lease stops the timer but is not counted.
Uncounted == leases

\* The count with one more lease.
Counted == leases + 1

Acquire(l) ==
    /\ ~stopped
    /\ lease[l] = "free"
    /\ lease' = [lease EXCEPT ![l] = "held"]
    /\ leases' = Counted
    /\ current' = FALSE
    /\ timer' = NoTimer
    /\ UNCHANGED <<idle, stopped, onIdles, quiet>>

\* The closure acts once; after the tracker stopped it does nothing.
Releasable(l) == lease[l] = "held"

Release(l) ==
    /\ ~stopped
    /\ Releasable(l)
    /\ lease' = [lease EXCEPT ![l] = "released"]
    /\ leases' = leases - 1
    /\ IF leases = 1 THEN NoteActivity
       ELSE UNCHANGED <<idle, timer, current, quiet>>
    /\ UNCHANGED <<stopped, onIdles>>

\* stop(), from the server shutting down for another reason.
Stop ==
    /\ ~stopped
    /\ stopped' = TRUE
    /\ current' = FALSE
    /\ timer' = NoTimer
    /\ UNCHANGED <<idle, leases, lease, onIdles, quiet>>

\* What the callback finds left of the idle time.
Remaining == IdleTimeout - idle

\* The timer's callback.  It runs late when the loop is busy, never early.
TimerFires ==
    /\ timer = 0
    /\ IF stopped \/ leases > 0 \/ ~current
       THEN UNCHANGED vars
       ELSE IF Remaining > 0
       THEN /\ Arm(Remaining)
            /\ UNCHANGED <<idle, leases, lease, stopped, onIdles, quiet>>
       ELSE /\ stopped' = TRUE
            /\ timer' = NoTimer
            /\ onIdles' = onIdles + 1
            /\ UNCHANGED <<idle, current, leases, lease, quiet>>

\* A tick of both clocks.
Pass ==
    /\ idle' = AtMost(idle + 1, IdleTimeout)
    /\ quiet' = AtMost(quiet + 1, IdleTimeout)
    /\ timer' = IF timer = NoTimer THEN NoTimer ELSE AtLeast(timer - 1, 0)
    /\ UNCHANGED <<current, leases, lease, stopped, onIdles>>

\* The system clock is set.
SetClock ==
    /\ idle' \in -MaxJump .. IdleTimeout
    /\ UNCHANGED <<timer, current, leases, lease, stopped, onIdles, quiet>>

Activity == Touch \/ (\E l \in Leases : Acquire(l) \/ Release(l)) \/ Stop \/ SetClock

Next == Activity \/ TimerFires \/ Pass

Spec == Init /\ [][Next]_vars

-----------------------------------------------------------------------------
\* Every variable holds a value the tracker can hold.
TypeOK ==
    /\ idle \in -MaxJump .. IdleTimeout
    /\ timer \in {NoTimer} \cup Nat
    /\ current \in BOOLEAN
    /\ leases \in Nat
    /\ lease \in [Leases -> {"free", "held", "released"}]
    /\ stopped \in BOOLEAN
    /\ onIdles \in {0, 1}
    /\ quiet \in 0 .. IdleTimeout

\* A running tracker has a live timer exactly when no stream holds a lease: it
\* can neither stop under a stream nor be left with nothing that will stop it
\* (the callback's early return for a stale generation would be such a dead end).
LeaseOrTimer ==
    ~stopped =>
        IF Held = {} THEN timer # NoTimer /\ current ELSE timer = NoTimer

\* The daemon calls itself idle only after the whole timeout has passed since
\* the last activity and with no stream open, however the system clock was set.
NeverStopsEarly ==
    [][onIdles' # onIdles => quiet = IdleTimeout /\ Held = {}]_vars
=============================================================================
