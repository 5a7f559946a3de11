SPECIFICATION MCSpec
CONSTANTS
    Calls = {c1, c2}
    Payments = {p1}
    Cart <- MCCart
    Devices = {d1, d2, d3}
    Kinds = {"payment", "refund", "dispute", "issue", "free", "resend", "activate", "deactivate"}
    Mixes = {{"payment", "refund", "dispute"}, {"payment", "refund", "issue"}, {"issue", "free", "resend"}, {"free", "activate", "deactivate"}}
    DeviceLimit = 1
    RateLimit = 1
    DayHours = 3
    MaxLicences = 3
    MaxCuts = 1
SYMMETRY Symmetry
CHECK_DEADLOCK FALSE
INVARIANTS TypeOK OneKeyPerProduct HandledIsSent OvershootIsBounded
PROPERTIES TakenBackIsFinal
