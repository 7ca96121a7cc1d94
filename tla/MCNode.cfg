CONSTANTS
    Whats = {"system", "ask", "requests", "router", "events", "ttl", "topics", "breaker", "idle", "workers"}
    None = None
SPECIFICATION Spec
INVARIANTS AnsweredOnce OneOwner RequestsAccounted  IndexExact 
 
CHECK_DEADLOCK FALSE
