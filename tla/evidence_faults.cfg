CONSTANTS
    plain = plain
    secret = secret
    bad = bad
    big = big
    c1 = c1
    Spool = Spool
    Unloaded = Unloaded
    Kind <- MCKind
    Contents = {secret, bad}
    Clients = {c1}
    MaxBatch = 1
    MaxSpool = 2
    MaxResets = 1
    MaxCrashes = 1
    MaxFaults = 1
    MaxReads = 0
SPECIFICATION Spec
INVARIANTS TypeOK SequencesIncrease NothingTwice NoRecordSkipped AckedIsDurable CachesAreExact
\* requests, lines, resets and faults are bounded, so the session may come to rest
CHECK_DEADLOCK FALSE
