SPECIFICATION ClientsSpec
CONSTANTS
    s1 = s1
    s2 = s2
    Undefined = Undefined
    Sessions <- MCSessions
    MaxPolls = 2
    MaxClicks = 3
    MaxFlips = 2
    Prices <- MCPrices
    initialBalance = 10000
    MaxCandles = 5
    DeskPrices <- MCDeskPrices
    portfolioValue = 100
    paperBalance = 12
    limits <- MCLimits
    RiskPcts = {0, 2}
    w1 = w1
    w2 = w2
    Workflows = {w1, w2}
    MaxMoves = 1
    None = None
    omniquant = omniquant
    research = research
    other = other
    Namespaces <- MCNamespaces
    NS = omniquant
    SESSION_READ_RETRIES = 2
    MaxSends = 2
    MaxFaults = 1
    MaxStreams = 2
    Nowhere = Nowhere
    nvda = nvda
    aapl = aapl
    brazil = brazil
    france = france
    spain = spain
    DEMO_FIXTURES <- MCSamples
    LiveFixtures <- MCBoard
    Nameless = {spain}
    MaxTries = 2
    MaxSelects = 2
    MaxPays = 2
    Null = Null
    Assets <- MCAssets
    Configured = {"market-price", "news", "solana-oracle", "company-profile"}
    Missing = Missing
INVARIANTS
    ShownIsSelected
    TradesExplainEquity
    AccountHolds
    FallbackIsTold
PROPERTIES
    DashboardCatchesUp
    StreamServes
CHECK_DEADLOCK FALSE
