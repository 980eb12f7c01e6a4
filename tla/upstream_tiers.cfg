CONSTANTS
    r1 = r1  r2 = r2  k1 = k1
    None = None
    Calls = {r1}
    Channels = {1, 2, 3}
    Priority <- MCThreeTiers
    Weight <- MCWeight
    Limit <- MCNoLimit
    Lists <- MCOneList
    Conversation <- MCNone
    Fragile = {}
    MaxRetries = 2
    Threshold = 5
    AutoDisable = TRUE
    Cycle = 12
SPECIFICATION Spec
PROPERTIES TiersDescend
CHECK_DEADLOCK FALSE
