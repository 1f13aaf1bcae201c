SPECIFICATION Spec
CHECK_DEADLOCK FALSE
CONSTANTS
    Kind <- MergedKind
    Text = {"a", "b"}
    Time = {0, 1, 2, 3}
    MaxAmount = 2
    MaxPush = 3
INVARIANTS
    TypeOK
    
    ShownWithItsTime
    MinutesKept

    
