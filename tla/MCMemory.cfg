SPECIFICATION MCSpec
CONSTANTS
    State = {s1, s2}
    Object = {m1, m2}
    Byte = {b1, b2}
    Value = {0, 1}
    Fresh <- Zeros
    Copy = {c1, c2, c3}
    None = None
    MaxKey = 3
VIEW Seen
INVARIANTS SharedNotOwned MapsExact
PROPERTY PrivateMemories
CHECK_DEADLOCK FALSE
