SPECIFICATION ArchiveSpec
CONSTANTS
    macro = macro
    p1 = p1
    p2 = p2
    NoSeller = NoSeller
    Sellers <- MCSellers
    MaxRounds = 1
    Polls = {p1}
    MaxFaults = 0
    MaxRestarts = 0
PROPERTIES
    RequestsMirrored
CHECK_DEADLOCK FALSE
