CONSTANTS
    u1 = u1  None = None
    Keys = {k1, k2, k3}
    KeyUsers = {u1}
    Owner <- MCOwner
    KeyRequests = {q1, q2}
    MaxKeys = 1
    Limits = {0, 1}
    Expiries = {2, 9}
    Never = 9
    KeyTTL = 2
    KeyTimeout = 1
    KeyHorizon = 3
    KeyBudget = 3
    SignRequests = {q1, q2}
    Sids = {s1, s2, s3}
    Passwords = {1, 2}
    FirstPassword = 1
    MaxFailures = 2
    LockTicks = 1
    MaxSessions = 1
    SessionTicks = 2
    SignHorizon = 3
    SignBudget = 4
    CodeRequests = {q1, q2}
    MaxCodes = 2
    MaxErrors = 2
    DailyLimit = 2
    CodeTicks = 1
    CodeLockTicks = 2
    CodeHorizon = 4
    Routers = {p1}
    GlobalLimit = 2
    UserLimit = 1
    Window = 2
    RateHorizon = 5
    Validations = {v1, v2}
    LogRows = {l1}
    AskAttempts = 2
    OpenThreshold = 2
    CoolDown = 3
    AskLimit = 1
    FlushLimit = 2
    LogRetries = 1
    Ttl = 0
    MaxSkew = 1
SPECIFICATION Spec
SYMMETRY AccessSymmetry
INVARIANTS KeysBounded CacheIsRecent CutSessionsDead
INVARIANTS OneUseFewGuesses RatesBounded
PROPERTIES DisabledStays LimitsHold LostOnlyNearOutage
CHECK_DEADLOCK FALSE
