SPECIFICATION Spec
CONSTANTS
    Users = {u1}
    Sessions = {s1}
    Txs = {t1}
    Nobody = Nobody
    Overrides = {}
    LiveCaps = {}
    Exemptions = {}
    Customers = {u1}
    DefStorage = 1
    ProStorage = 2
    DefMaxLive = 2
    FreeSessions = 2
    ProSessions = 3
    SessionLimit <- MCNoOwnLimit
    MaxBytes = 1
CHECK_DEADLOCK FALSE
PROPERTIES ProStorageIsGranted
