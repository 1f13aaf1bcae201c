SPECIFICATION Spec
CONSTANTS
    Conn = {c1}
    Ent <- SerialEnt
    Kind <- SerialKind
    KindOf <- SerialKindOf
    RefName <- SerialRef
    Rule <- SerialRule
    OpId <- SerialOp
    Script <- SerialScript
    Batch <- SerialBatch
    Nil = "nil"
    Keep = "keep"
    MaxSeq = 20
    MaxCrash = 0
INVARIANTS
    NoLostUpdate
    DeletedRowsConflict
    NoOrphan
