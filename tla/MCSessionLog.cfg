SPECIFICATION FairSpec
CONSTANTS
    Emitters = {r1, r2}
    Enders = {e1, e2}
    Viewers = {}
    Limit = 2
CHECK_DEADLOCK FALSE
INVARIANTS TypeOK LiveSeqsAreFresh BufferIsPersisted CountIsExact ReplayIsComplete OneEnding Inv
PROPERTY ImplementsLedger CrossingEndsSession
