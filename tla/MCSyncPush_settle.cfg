SPECIFICATION FairSpec
CONSTANTS
    Conn = {c1, c2}
    Ent <- PairEnt
    Kind <- PairKind
    KindOf <- PairKindOf
    RefName <- PairRef
    Rule <- PairRule
    OpId <- SettleOp
    Script <- SettleScript
    Batch <- SettleBatch
    Nil = "nil"
    Keep = "keep"
    MaxSeq = 16
    MaxCrash = 1
PROPERTIES
    PushSettles
