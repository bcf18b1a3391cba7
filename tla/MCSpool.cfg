SPECIFICATION FairSpec
CONSTANTS
    MaxPages = 2
    MaxCrashes = 2
INVARIANTS
    TypeOK
    NothingLost
    PageInOneDocument
    
PROPERTIES
    ThrownAwayStaysAway
    
    EachPageArrives
CHECK_DEADLOCK FALSE
