SPECIFICATION FairRetentionSpec
CONSTANTS
    Conn = {c1}
    Ent <- PullEnt
    Kind <- PullKind
    KindOf <- PullKindOf
    RefName <- PullRef
    Rule <- PullRule
    OpId <- PullOp
    Script <- PullScript
    Batch <- PullBatch
    Nil = "nil"
    Keep = "keep"
    MaxSeq = 12
    MaxCrash = 1
    Limit = 2
    Tables <- PullTables
    MaxAge = 1
INVARIANTS
    FreshRecord
    CursorComplete
    CopyHonest
    AppliedOnce
PROPERTIES
    PurgeIsKnown
    PullConverges
    OldIsPurged
