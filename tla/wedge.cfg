SPECIFICATION FairSpec
CONSTANTS
    a = a
    Sessions = {a}
    Listings = {}
    Boot = boot
    MaxStops = 0
    MaxFaults = 1
PROPERTY ComesBack
CHECK_DEADLOCK FALSE
