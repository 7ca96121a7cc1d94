CONSTANTS
    a1 = a1
    a2 = a2
    a3 = a3
    p1 = p1
    p2 = p2
    p3 = p3
    None = None
    NumWorkers = 2
    Actors = {a1, a2}
    Producers = {p1, p2}
    Chatty = {a1}
    Kinds = {"control", "user"}
    Throughput = 1
    LocalCap = 1
    MaxSend = 1
    MaxBox = 1
SPECIFICATION FairSpec
INVARIANTS
    ScheduledOnce
    NoStrandedWork
PROPERTY EventuallyHandled
CHECK_DEADLOCK FALSE
