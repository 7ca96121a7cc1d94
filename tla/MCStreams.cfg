CONSTANTS
    Whats = {"pipeline", "workers", "graph", "fanOut", "fanIn", "subflow", "refs"}
SPECIFICATION Spec
INVARIANTS DemandConserved StreamExact  JunctionsBounded  SubflowExact 
 
CHECK_DEADLOCK FALSE
