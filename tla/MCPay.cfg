SPECIFICATION PaySpec
CONSTANTS
    MaxRefs = 6
    MaxFaults = 1
    Demos = {"quickstart", "swarm", "web", "oracle"}
    Payers = {"buyer", "broker", "ann"}
    None = None
    Strategies = {"guarded", "quickstart"}
    RECIPIENT = server
    Elsewhere = other
    PRICE = 2
    Budget = 3
    Amounts = {1, 2}
    MaxTurns = 2
    MaxTools = 2
    MaxResends = 1
    Customers = {"ann"}
    SELLERS <- MCSELLERS
    Quotes = {2500, 4000}
    MAX_SOL = 3000
    MaxAsks = 2
    MaxClaims = 1
    MaxPosts = 4
    MaxOrders = 2
    MaxSaid = 2
    Offers = {r1, r2}
    Doors = {"autonomous"}
    Prompts = {"plain", "DELIVERED"}
    Handlers = {h1, h2}
    MaxServed = 4
    Arbiters = {TRUE, FALSE}
INVARIANTS
    BudgetHolds
    ServedWasPaid
    PayerIsServed
    SellsWhatItBought
    OncePerRequest
    
    BoardStaysLive
    SettledAsReported
CHECK_DEADLOCK FALSE
