SPECIFICATION FairSpec
CONSTANTS
    a = a
    b = b
    look = look
    Sessions = {a, b}
    Listings = {look}
    Boot = boot
    MaxStops = 1
    MaxFaults = 1
INVARIANTS TypeOK CreatedIsComplete ListingIsComplete
PROPERTIES StartFailsForCause ComesBackUnlessHalfThere
CHECK_DEADLOCK FALSE
