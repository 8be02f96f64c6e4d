SPECIFICATION MarketSpec
CONSTANTS
    macro = macro
    news = news
    macroWallet = macroWallet
    newsWallet = newsWallet
    Buyer = Buyer
    ArbiterKey = ArbiterKey
    Nobody = Nobody
    NoOrder = NoOrder
    NoPrice = NoPrice
    NoTerms = NoTerms
    NoSeller = NoSeller
    Sellers <- MCSellers
    Parties <- MCParties
    Wallet <- SharedWallet
    Floor <- MCFloor
    Endowment <- MCEndowment
    Refs <- MCRefs
    Trusted = {macroWallet}
    Budget = 3
    Proposals = {1, 4}
    PlainFrom = 2
    Sol = 4
    ConfigRent = 1
    LowWater = 1
    Stipend = 1
    Fee = 1
    DeadlineSecs = 1
    Modes = {"arbiter", "direct"}
    Horizon = 2
    MaxTurns = 2
PROPERTIES
    UniqueReference
CHECK_DEADLOCK FALSE
