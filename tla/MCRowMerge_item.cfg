SPECIFICATION Spec
CHECK_DEADLOCK FALSE
CONSTANTS
    Kind <- ItemKind
    Text = {"a", "b"}
    Time = {1, 2, 3}
    MaxAmount = 0
    MaxPush = 3
INVARIANTS
    NewestStatusWins
