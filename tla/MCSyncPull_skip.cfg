SPECIFICATION RetentionSpec
CONSTANTS
    Conn = {c1, c2}
    Ent <- PullEnt
    Kind <- PullKind
    KindOf <- PullKindOf
    RefName <- PullRef
    Rule <- PullRule
    OpId <- PullOp
    Script <- PullScript
    Batch <- PullBatch
    Nil = "nil"
    Keep = "keep"
    MaxSeq = 12
    MaxCrash = 1
    Limit = 2
    Tables <- PullTables
    MaxAge = 0
INVARIANTS
    CursorComplete
