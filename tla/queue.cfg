CONSTANTS
    s1 = s1
    s2 = s2
    r1 = r1
    r2 = r2
    r3 = r3
    q1 = q1
    k1 = k1
    k2 = k2
    NoCall = NoCall
    Sessions = {s1, s2}
    Calls <- MCCalls
    SessionOf <- MCSessionOf
    ParentOf <- MCParentOf
SPECIFICATION FairSpec
INVARIANTS TypeOK MutualExclusion InArrivalOrder TailIsLatest
PROPERTY EveryCallReturns
\* every call is made once: the daemon is idle after the last one
CHECK_DEADLOCK FALSE
