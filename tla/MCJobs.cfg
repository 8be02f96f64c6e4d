SPECIFICATION JobsSpec
CONSTANTS
    first = first
    second = second
    late = late
    key1 = key1
    NoKey = NoKey
    NoJob = NoJob
    Requests = {first, second, late}
    Key <- SharedKey
    Workers = {w1, w2}
    MaxAttempts = 2
    MaxTrouble = 3
    MaxFaults = 1
    MaxTime = 0
    Stoppable = {w1}
INVARIANTS
    OneHolder
    LaunchesBounded
    AnsweredKeyStands
PROPERTIES
    KeepsOrder
    JobsEnd
    StopDrains
CHECK_DEADLOCK FALSE
