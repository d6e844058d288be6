CONSTANTS
    Keys = {split, event, poi}
    Immutable = {event}
    Poi = {poi}
    Removable = {split}
    Fields = {hash}
    Required = {hash}
    Values = {v, w}
    Null = Null
    Absent = Absent
    None = None
    NotCached = NotCached
    Nothing = Nothing
    NonFatalErrors = FALSE
    MaxCalls = 2
SPECIFICATION Spec
SYMMETRY ValueSymmetry
INVARIANTS CacheAgrees ModificationsFit
PROPERTIES ImplementsPlain
