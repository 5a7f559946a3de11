SPECIFICATION ToldSpec
CONSTANTS
    Emitters = {r1, r2}
    Enders = {e1}
    Viewers = {v1}
    Limit = 3
    MaxConnects = 2
CHECK_DEADLOCK FALSE
INVARIANTS LiveTypeOK NoDuplicateSend NothingMissed
PROPERTY EarlyViewersClose
