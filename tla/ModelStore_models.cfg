SPECIFICATION FairSpec
CHECK_DEADLOCK FALSE
CONSTANTS
    Command = {c1, c2}
    Bytes = 2
    MaxFault = 2
INVARIANTS
    TypeOK
PROPERTIES
    ServesVerified
    Installs
