CONSTANTS
    plain = plain
    secret = secret
    big = big
    c1 = c1
    Spool = Spool
    Unloaded = Unloaded
    NoSpool = NoSpool
    Kind <- MCKind
    Stamp <- MCStamp
    Outputs <- MCOutputs
    Contents = {plain, secret, big}
    Wanted = {plain, secret}
    Clients = {c1}
    MaxBatch = 2
    MaxSpool = 1
    MaxResets = 1
    MaxCrashes = 0
    MaxFaults = 0
    MaxReads = 3
    PageSize = 2
    LogLimit = 1
    SortChunk = 1
    FanIn = 2
SPECIFICATION ReadsSpec
INVARIANTS RedactionIsReported EpochPinsEvidence QueryPagesAreTheOutput LogPagesAreSorted NoStaleSpool RefusedForCause
PROPERTY ImplementsLog
\* requests, lines, resets and readers are bounded, so the session may come to rest
CHECK_DEADLOCK FALSE
