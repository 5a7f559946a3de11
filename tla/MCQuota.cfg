SPECIFICATION Spec
CONSTANTS
    Users = {u1}
    Sessions = {s1, s2, s3}
    Txs = {t1, t2, t3}
    Nobody = Nobody
    Overrides = {}
    LiveCaps = {}
    Exemptions = {FALSE}
    Customers = {u1}
    DefStorage = 1
    ProStorage = 2
    DefMaxLive = 1
    FreeSessions = 1
    ProSessions = 2
    SessionLimit <- MCNoOwnLimit
    MaxBytes = 2
SYMMETRY QuotaSymmetry
INVARIANTS TypeOK CreatesStayAdmitted MeterIsExact CirclesInvolveForks
PROPERTIES CreatesRespectLimits
