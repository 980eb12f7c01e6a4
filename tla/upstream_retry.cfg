CONSTANTS
    r1 = r1  r2 = r2  k1 = k1
    None = None
    Calls = {r1, r2}
    Channels = {1, 2, 3}
    Priority <- MCPriority
    Weight <- MCWeight
    Limit <- MCLimit
    Lists <- MCLists
    Conversation <- MCConversation
    Fragile = {3}
    MaxRetries = 1
    Threshold = 2
    AutoDisable = TRUE
    Cycle = 12
SPECIFICATION LiveSpec
INVARIANT RoundRobinShare
PROPERTIES KeepsPromise BestEffort EveryCallEnds
CHECK_DEADLOCK FALSE
