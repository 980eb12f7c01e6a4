CONSTANTS
    m1 = m1  m2 = m2  extra = extra  r1 = r1
    CallIndexes = {0, 1}
    Deltas <- MCDeltas
    AnthropicChunks = 4
    ItemIndexes = {0, 1}
    CallLists <- MCCallLists
    ResponsesChunks = 4
    Published <- MCPublished
    RouterFile <- MCFile
    EngineFile <- MCFile
    Tiers = {1, 3}
    LastTier = 3
    Models = {m1, m2}
    Alias = auto
    Names = {m1, extra}
    Asking = {r1, r2}
    ClassifyAttempts = 2
    ClassifyThreshold = 2
    GpuLimit = 1
    Logged = {x1, x2}
    Batches = {b1, b2}
    HourlyJob = job
    JobBudget = 2
    BatchBudget = 4
    Pieces = 2
    Counts <- MCCounts
    Price <- MCPrice
    Unit = 4
    Refusals = {400, 428, 503}
    TalkBound = 5
    AnswerBound = 4
    Reported <- MCReported
    CalledNames = {"none", "auto", "m1", "m2"}
    Named = "auto"
    Hour = 2
    Day = 8
    FineSpan = 16
    MaxSpan = 24
    DefaultSpan = 20
    Presets <- MCPresets
    Moments = {3, 4, 11, 18}
    Bounds = {0, 3, 8, 19}
    RowLimit = 3
    UserLimit = 3
    PageSize = 1
    Judges = {"tool", "code"}
    Hard <- MCHard
    NotFinite = 99
    Likeness <- MCLikeness
    RangeLow = 1
    RangeHigh = 3
    Unfinite = 2
    TierCount = 3
    Threads = {q1, q2}
    AtOnce = 2
    Depth = 2
    ToolJudge = "tool"
    HeadsOf <- MCHeads
    Talks <- MCTalks
    EngineConfigs <- MCEngineConfigs
SPECIFICATION Spec
INVARIANTS AnthropicFramed ItemsCompleted UsageWithinLogs RefusedOnlyBySkew RowTellsOutcome FiguresAgree PagesMissOnlyTies ConversationKept JudgedFairly
CHECK_DEADLOCK FALSE
