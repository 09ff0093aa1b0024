CONSTANTS
    Missing = Missing
    Ten = 2
    BPS_DENOM = 8
    DayLength = 1
    Stablecoins = {"USD"}
    Native = "N"
    SystemPrograms = {}
    Tokens <- MCTokens
    Decimals <- MCDecimals
    Token0 = "A"
    Token1 = "USD"
    Pool = "pair"
    Router = "router"
    Policies <- MCPolicies
    FirstPolicy <- MCPolicy
    Prices <- MCPrices
    Pools <- MCPools
    Notionals = {4, 8}
    Bankrolls <- MCBankrolls
    Gas = 1
    PaperExtra = 0
    MaxClock = 1
    MaxFills = 3
    MaxMoves = 1
    MaxEdits = 1
    None = None
    Chain = "solana"
    Token = "T"
    DexBodies <- MCDexBodies
    GeckoBodies <- MCGeckoBodies
    GeckoPrices = {0, 10000, 10202}
    Tolerance = 200
    CacheTtl = 1
    Lookups = {1, 2}
    MaxFeedTime = 2
    NoRow = NoRow
    Q = 64
    RangeBps = 100
    MinTick <- MCMinTick
    MaxTick = 7
    Ratio <- MCRatio
    MaxLiquidity = 1500
    PlanRequests <- MCPlanRequests
    TokenIds = {1, 2}
    RangePools = {"narrow", "wide"}
    Liquidities = {2, 3}
    Capitals = {5}
    Proceeds = {4}
    GasCosts = {1}
    MaxRangeDay = 1
    MaxRangeChanges = 4
    Scenes = {"books", "market", "plans", "ranges"}
SPECIFICATION MCSpec
INVARIANTS
    NoProfitWithoutAMove
    ExitsAreOpen
    PoolListsAreHonest
    OneRightProviderIsEnough
    PlansCanBeMinted
    RangeBooksBalance
PROPERTIES
    EntriesKeepTheCaps
CHECK_DEADLOCK FALSE
