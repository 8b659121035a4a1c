CONSTANTS
    l1 = l1
    l2 = l2
    Leases = {l1, l2}
    IdleTimeout = 1
    MaxJump = 1
    NoTimer = NoTimer
    MaxEvents = 2
    MaxResets = 1
SPECIFICATION FairStreamSpec
INVARIANTS TypeOK LeaseOrTimer StreamIsGapless
PROPERTIES NeverStopsEarly AbandonedDaemonStops EventsReachStreams StopEndsStreams
