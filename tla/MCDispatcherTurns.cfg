CONSTANTS
    a1 = a1
    a2 = a2
    a3 = a3
    p1 = p1
    p2 = p2
    p3 = p3
    None = None
    NumWorkers = 2
    Actors = {a1}
    Producers = {p1, p2}
    Chatty = {}
    Kinds = {"control", "user"}
    Throughput = 2
    LocalCap = 1
    MaxSend = 2
    MaxBox = 0
SPECIFICATION Spec
INVARIANTS
    TypeOK
    SingleOwner
    NoLostWakeup
    FIFOWithinProducer
SYMMETRY Symmetry
CHECK_DEADLOCK FALSE
