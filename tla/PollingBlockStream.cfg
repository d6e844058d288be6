SPECIFICATION Spec
CONSTANTS
    Blocks <- MCEarlyFork
    Genesis = "g"
    Number <- MCNumber
    Parent <- MCParent
    Anc <- MCAnc
    None = "none"
    AncestorCount = 1
    CacheCapacity = 2
    CleanupBlocks = TRUE
    ReorgThreshold = 2
    Triggers <- MCTriggers
    StartPtr = "g"
    StartBlocks = {2}
    MaxRange = 2
    Target = 1
    BufferSize = 1
    SkipDistance = 1
    OtherStarts = {"g"}
    ProviderLag = 1
    MaxFaults = 1
INVARIANTS
    HeadHasAncestors
    CacheIsLineage
    IndexedExactly
