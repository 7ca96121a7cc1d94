CONSTANTS
    Whats = {"watch", "grains", "events", "nodes", "data", "copies", "planes", "reach", "remote", "wire", "tells", "client"}
    Elements = {e1, e2}
    None = None
SPECIFICATION Spec
INVARIANTS MergeLaws    
 
CHECK_DEADLOCK FALSE
