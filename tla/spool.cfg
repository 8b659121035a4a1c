CONSTANTS
    MaxRead = 3
    MaxRecord = 1
    MaxPreview = 4
    MaxFile = 8
    MaxResets = 1
    MaxFaults = 1
SPECIFICATION FairSpec
INVARIANTS StoredAreTheLines CursorIsHonest
 
\* bytes are bounded, so the spool may be read to its end
CHECK_DEADLOCK FALSE
