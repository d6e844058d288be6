SPECIFICATION FairSpec
CONSTANTS
    Blocks <- MCLateFork
    Genesis = "g"
    Number <- MCNumber
    Parent <- MCParent
    Anc <- MCAnc
    None = None
    Errors <- MCErrors
    Creates <- MCCreates
    QueueSize = 2
    MaxUnknown = 2
    MaxCrashes = 2
    MaxRewinds = 1
    RewindDepth = 3
    MaxWriteFails = 1
  
PROPERTIES UnknownFailureHeals
CHECK_DEADLOCK FALSE
