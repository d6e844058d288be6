SPECIFICATION Spec
CONSTANTS
    Clients = {c1, c2}
    Blocks <- MCBlocks
    FirstBlock <- MCFirst
    Failing <- MCFailing
    RewindTo <- MCRewindTo
    MaxStoreSteps = 3
    Reads = 2
    MaxCachedBlocks = 2
    MaxWeight = 1
    Weights = {1}
    PartLists <- MCPartLists
    NoResult = NoResult
    Types = {"assignment", "split"}
    Assignment = "assignment"
    Ops = {1, 2}
    MaxNotified = 2
    MaxLarge = 1
    ChannelSize = 1
    BatchSize = 2
    MaxOps = 1
    NoEvent = NoEvent
    CacheKeys = {1, 2, 3}
    EntryWeights = {1, 2}
    CacheLimit = 3
    StalePeriod = 2
    Usize = 16
    MaxFrequency = 2
    Deciders = {1, 2}
    Shapes = {1, 2}
    blocked_queries = {}
    Durations = {1, 2}
    WindowSize = 3
    BinSize = 2
    UpdateInterval = 1
    JailThreshold = 80
    Simulate = FALSE
    MaxTime = 5
    MaxQueries = 3
    EntityIds = {a}
    Nodes = {k1, k2}
    TargetBlock = 2
    ReorgThreshold = 1
    BatchSizes = {1, 2}
    InitialSize = 1
    PruneTo = {1, 2}
    FirstHead = 3
    MaxHead = 4
    SourceBlocks = {1, 2, 4}
    MaxMoves = 3
    Unset = Unset
    Keys = {ka, kb}
    DeniedKeys = {z}
    Values = {1}
    Templates = {t}
    MaxHosts = 1
    MaxTriggers = 2
    MaxBlocks = 2
    MaxCalls = 3
    AllowIpfs = TRUE
    NonFatalErrors = TRUE
    Removed = Removed
    None = None
SYMMETRY MCSymmetry
INVARIANTS
    AnswersFromState
    NoLostWakeup
    
    RateBounded
    PruneKeepsAnswers EntitiesCopied
    
CHECK_DEADLOCK FALSE
