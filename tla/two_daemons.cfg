SPECIFICATION Spec
CONSTANTS
    e1 = e1
    e2 = e2
    e3 = e3
    d1 = d1
    d2 = d2
    Ensures = {e1, e2, e3}
    Stops = {}
    Daemons = {d1, d2}
    Old = {}
    Busy = {}
    ProbeAttempts = 2
    SpawnAttempts = 1
    MaxSlow = 0
    MaxCrashes = 1
    MaxDeaths = 0
    MaxTimeouts = 0
    NoDaemon = NoDaemon
    NoCall = NoCall
SYMMETRY Symmetric
INVARIANT OneService
CHECK_DEADLOCK FALSE
