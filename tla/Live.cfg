SPECIFICATION LiveSpec
CONSTANTS
    Blocks <- MCShortFork
    Genesis = "g"
    Number <- MCNumber
    Parent <- MCParent
    Anc <- MCAnc
    None = "none"
    AncestorCount = 1
    CacheCapacity = 2
    CleanupBlocks = TRUE
    ReorgThreshold = 1
    Triggers <- MCTriggers
    StartPtr = "none"
    StartBlocks = {2}
    MaxRange = 2
    Target = 1
    BufferSize = 1
    SkipDistance = 1
    OtherStarts = {}
    ProviderLag = 1
    MaxFaults = 0
    Deps = {d1}
    Nodes = {a, b}
    NoNode = NoNode
    SlowStarts = FALSE
    PromotionRaces = FALSE
    MaxRunners = 2
    MaxWriters = 2
    MaxBlock = 1
    MaxChanges = 2

    
PROPERTIES
    ReachesHead
    
CHECK_DEADLOCK FALSE
