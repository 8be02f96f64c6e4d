SPECIFICATION FeedSpec
CONSTANTS
    macro = macro
    news = news
    NoSeller = NoSeller
    Sellers <- MCSellers
    MaxRounds = 2
    Polls = {p1, p2}
    MaxFaults = 1
    MaxRestarts = 1
CONSTRAINT PolledAreSimple
INVARIANTS
    DerivationsAgree
    DedupedPerProcess
    RecordsHold
PROPERTIES
    RoundAdvances
    ReleaseRecorded
CHECK_DEADLOCK FALSE
