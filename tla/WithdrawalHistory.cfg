CONSTANTS
    s1 = s1
    s2 = s2
    a1 = a1
    a2 = a2
    erc20 = erc20
    Splits = {s1, s2}
    Accounts = {a1, a2}
    Tokens = {erc20}
    ZERO_ADDRESS = ZERO_ADDRESS
    PERCENTAGE_SCALE = 1000000
    CreateCalls <- MCCreateCalls
    Amounts = {5}
    TokenLists <- MCTokenLists
    ConstructorDefaults = {TRUE}
    NoEntity = NoEntity
    MaxTriggers = 10
    MaxOps = 5
    DistributeInCreateTx = FALSE
SPECIFICATION SubgraphSpec
SYMMETRY Symmetry
INVARIANT HistoryComplete
CHECK_DEADLOCK FALSE
