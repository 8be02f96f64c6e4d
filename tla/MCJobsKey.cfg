SPECIFICATION JobsSpec
CONSTANTS
    first = first
    second = second
    late = late
    key1 = key1
    NoKey = NoKey
    NoJob = NoJob
    Requests = {first, second}
    Key <- SharedKey
    Workers = {w1}
    MaxAttempts = 1
    MaxTrouble = 2
    MaxFaults = 0
    MaxTime = 0
    Stoppable = {}
INVARIANTS
    SameJobForKey
CHECK_DEADLOCK FALSE
