SPECIFICATION FairSpec
CONSTANTS
    e1 = e1
    e2 = e2
    d1 = d1
    d2 = d2
    d3 = d3
    Ensures = {e1, e2}
    Stops = {}
    Daemons = {d1, d2, d3}
    Old = {}
    Busy = {}
    ProbeAttempts = 2
    SpawnAttempts = 2
    MaxSlow = 0
    MaxCrashes = 1
    MaxDeaths = 1
    MaxTimeouts = 1
    NoDaemon = NoDaemon
    NoCall = NoCall
INVARIANTS TypeOK OneService RecordedOrAdoptable
PROPERTY EveryCallEnds
CHECK_DEADLOCK FALSE
