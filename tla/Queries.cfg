SPECIFICATION Spec
CONSTANTS
    Null = Null
    Failed = Failed
    PrefixSize = 2
    BlockNumberMax = 100
    TypeABatchSize = 2
    TypeDSetSize = 1
    Reversible = TRUE
    Interfaces <- MCInterfaces
    FieldDefs <- MCFieldDefs
    Fragments <- MCFragments
    MaxFirst = 3
    MaxSkip = 2
INVARIANTS
    PrefetchIsPerEntity
    
    
CHECK_DEADLOCK FALSE
