SPECIFICATION FairSpec
CONSTANTS
    Users = {u1}
    Sessions = {s1, s2}
    Txs = {t1, t2}
    Nobody = Nobody
    Overrides = {}
    LiveCaps = {}
    Exemptions = {TRUE, FALSE}
    Customers = {u1}
    DefStorage = 1
    ProStorage = 2
    DefMaxLive = 1
    FreeSessions = 1
    ProSessions = 2
    SessionLimit <- MCNoOwnLimit
    MaxBytes = 1
PROPERTY CallsEnd
