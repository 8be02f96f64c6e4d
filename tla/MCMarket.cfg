SPECIFICATION MarketSpec
CONSTANTS
    macro = macro
    news = news
    macroWallet = macroWallet
    newsWallet = newsWallet
    Buyer = Buyer
    ArbiterKey = ArbiterKey
    Nobody = Nobody
    NoOrder = NoOrder
    NoPrice = NoPrice
    NoTerms = NoTerms
    NoSeller = NoSeller
    Sellers <- MCSellers
    Parties <- MCParties
    Wallet <- MCWallet
    Floor <- MCFloor
    Endowment <- MCEndowment
    Refs <- MCRefs
    Trusted = {macroWallet, newsWallet}
    Budget = 3
    Proposals = {1, 4}
    PlainFrom = 2
    Sol = 4
    ConfigRent = 1
    LowWater = 1
    Stipend = 1
    Fee = 1
    DeadlineSecs = 1
    Modes = {"arbiter", "direct"}
    Horizon = 1
    MaxTurns = 2
CONSTRAINT DirectOnce
INVARIANTS
    WithinBudget
PROPERTIES
    OpensItsAward
    PaysForWork
    WorksForDeposit
    RoundsEnd
CHECK_DEADLOCK FALSE
