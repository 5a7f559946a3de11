SPECIFICATION LiveFairSpec
CONSTANTS
    Emitters = {r1}
    Enders = {}
    Viewers = {v1}
    Limit = 1
    MaxConnects = 1
CHECK_DEADLOCK FALSE
PROPERTY EndedStreamsClose
