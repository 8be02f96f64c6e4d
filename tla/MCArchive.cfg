SPECIFICATION ArchiveSpec
CONSTANTS
    macro = macro
    p1 = p1
    p2 = p2
    NoSeller = NoSeller
    Sellers <- MCSellers
    MaxRounds = 2
    Polls <- MCPolls
    MaxFaults = 1
    MaxRestarts = 0
SYMMETRY Alike
CONSTRAINTS
    FewStages
    ShortTalk
INVARIANTS
    GraphCloses
    RowsHold
PROPERTIES
    MirrorKeepsUp
    MarketAdvances
CHECK_DEADLOCK FALSE
