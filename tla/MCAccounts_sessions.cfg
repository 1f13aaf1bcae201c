SPECIFICATION Spec
CHECK_DEADLOCK FALSE
CONSTANTS
    Conn = {c1, c2, c3}
    d1 = d1
    d2 = d2
    t1 = t1
    t2 = t2
    t3 = t3
    t4 = t4
    User = User
    Device <- AccountDevice
    Tok <- AccountTok
    Code = {1, 2, 3}
    Start <- AccountStart
    MaxGuess = 1
    NoRow = NoRow
    Nil = Nil
SYMMETRY AccountSymmetry
INVARIANTS
    TypeOK
    OneHolder
    CodeSpentOnce
    CapHolds
PROPERTIES
    RevocationEnds
    SessionsSpec
