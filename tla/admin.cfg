CONSTANTS
    p1 = p1  p2 = p2  m1 = m1  m2 = m2  a1 = a1  a2 = a2  q1 = q1
    TokenRequests = {q1, q2}
    MaxPairs = 4
    AdminMaxFailures = 2
    TokenBudget = 4
    AdminEmails = {e0, e1}
    RootEmail = e0
    ChangeRequests = {q1, q2}
    Starters = {s1, s2}
    ResetOnStart = TRUE
    ChangeBudget = 3
    Pools = {p1, p2}
    Accounts = {a1, a2}
    PoolOf <- MCPoolOf
    Job = job
    Checks = {job, byhand}
    TierKeys = {t1}
    Slugs = {m1, m2}
    NoSlug = NoSlug
    SettingRequests = {q1, q2}
    SettingBudget = 2
    Calls = {c1, c2}
    CallAttempts = 2
    CircuitThreshold = 2
    Vendors = {v1}
    Categories = {g1, g2}
    Editors = {q1, q2}
    EditBudget = 4
SPECIFICATION Spec
INVARIANTS RootStays ForksBounded DisabledComesBack EffectsBounded CardFromEdits
PROPERTIES SuperSpared TierStaysServed
PROPERTIES DisabledLeaves RecoversAlone
CHECK_DEADLOCK FALSE
