SPECIFICATION FairSpec
CHECK_DEADLOCK FALSE
CONSTANTS
    Upload = {u1, u2}
    MaxRow = 2
    MaxCrash = 1
INVARIANTS
    VerifiedBytes
    AckedServed

    
