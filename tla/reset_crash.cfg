CONSTANTS
    plain = plain
    secret = secret
    bad = bad
    big = big
    c1 = c1
    Spool = Spool
    Unloaded = Unloaded
    Kind <- MCKind
    Contents = {secret, bad}
    Clients = {c1}
    MaxBatch = 1
    MaxSpool = 2
    MaxResets = 1
    MaxCrashes = 1
    MaxFaults = 0
    MaxReads = 1
SPECIFICATION ReadingSpec
INVARIANT EpochPinsEvidence
\* requests, lines, resets and faults are bounded, so the session may come to rest
CHECK_DEADLOCK FALSE
