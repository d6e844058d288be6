CONSTANTS
    Hashes = {h1, h2}
    Names = {n1, n2}
    Shards = {s1, s2}
    Procs = {p1}
    Nothing = Nothing
    MaxSites = 2
    MaxDeploys = 2
    MaxCopies = 1
    MaxNameRemovals = 1
    MaxDepCrashes = 1
    MaxUnassigns = 1
SPECIFICATION DepSpec
 
PROPERTIES SyncedVersionStays
SYMMETRY MCSymmetry
CHECK_DEADLOCK FALSE
