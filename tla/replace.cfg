SPECIFICATION Spec
CONSTANTS
    e1 = e1
    e2 = e2
    s1 = s1
    idle = idle
    busy = busy
    d1 = d1
    d2 = d2
    Ensures = {e1, e2}
    Stops = {s1}
    Daemons = {idle, busy, d1, d2}
    Old = {idle, busy}
    Busy = {busy}
    ProbeAttempts = 2
    SpawnAttempts = 1
    MaxSlow = 1
    MaxCrashes = 0
    MaxDeaths = 0
    MaxTimeouts = 1
    NoDaemon = NoDaemon
    NoCall = NoCall
SYMMETRY Symmetric
INVARIANTS  StopMeansStopped BusyDaemonIsKept
CHECK_DEADLOCK FALSE
