SPECIFICATION GapSpec
CONSTANTS
    Emitters = {r1, r2}
    Enders = {}
    Viewers = {v1}
    Limit = 3
    MaxConnects = 2
CHECK_DEADLOCK FALSE
INVARIANT NothingLostInTheGap
