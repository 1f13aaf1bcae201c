SPECIFICATION Spec
CHECK_DEADLOCK FALSE
CONSTANTS
    Conn = {c1, c2}
    d1 = d1
    d2 = d2
    t1 = t1
    t2 = t2
    t3 = t3
    t4 = t4
    User = User
    Device <- AccountDevice
    Tok <- AccountTok
    Code = {1, 2, 3}
    Start <- ResetStart
    MaxGuess = 1
    NoRow = NoRow
    Nil = Nil
PROPERTIES
    ResetEnds
