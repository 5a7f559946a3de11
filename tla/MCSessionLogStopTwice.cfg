SPECIFICATION Spec
CONSTANTS
    Emitters = {r1}
    Enders = {e1, e2}
    Viewers = {}
    Limit = 2
CHECK_DEADLOCK FALSE
PROPERTY StopIsIdempotent
