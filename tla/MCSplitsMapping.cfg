CONSTANTS
    s1 = s1
    s2 = s2
    a1 = a1
    a2 = a2
    erc20 = erc20
    Splits = {s1, s2}
    Accounts = {a1, a2}
    Tokens = {erc20}
    ZERO_ADDRESS = ZERO_ADDRESS
    PERCENTAGE_SCALE = 1000000
    CreateCalls <- MCCreateCalls
    Amounts = {5, 11}
    TokenLists <- MCTokenLists
    ConstructorDefaults = {TRUE, FALSE}
    NoEntity = NoEntity
    MaxTriggers = 6
SPECIFICATION Spec
SYMMETRY Symmetry
INVARIANTS
    ReferencesResolve
    ClaimedWithinDistributed
PROPERTIES
    TotalsOnlyGrow
    WithdrawalSettlesEverything
CHECK_DEADLOCK FALSE
