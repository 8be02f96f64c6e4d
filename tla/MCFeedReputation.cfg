SPECIFICATION FeedSpec
CONSTANTS
    macro = macro
    news = news
    NoSeller = NoSeller
    Sellers <- OneSeller
    MaxRounds = 1
    Polls = {p1}
    MaxFaults = 0
    MaxRestarts = 0
PROPERTIES
    ReputationSettles
CHECK_DEADLOCK FALSE
