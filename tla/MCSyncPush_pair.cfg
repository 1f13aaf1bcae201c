CHECK_DEADLOCK FALSE
SPECIFICATION Spec
CONSTANTS
    Conn = {c1, c2}
    Ent <- PairEnt
    Kind <- PairKind
    KindOf <- PairKindOf
    RefName <- PairRef
    Rule <- PairRule
    OpId <- PairOp
    Script <- PairScript
    Batch <- PairBatch
    Nil = "nil"
    Keep = "keep"
    MaxSeq = 8
    MaxCrash = 1
SYMMETRY PairConn
INVARIANTS
    TypeOK
    VersionsLogged
    SeqFollowsVersion
    DeleteLogged
    LedgerTruth
    EffectsBooked
    AppliedOnce
PROPERTIES
    TombstoneFinal
    LedgerFinal
    FeedSpec
