SPECIFICATION Spec
CONSTANTS
    Peer = {"peer"}
    MaxEdits = 2
    MaxRuns = 2
INVARIANTS
    StoredAsAsked
    ProxyReachesNode
PROPERTIES
    ProxyAsConfigured
CHECK_DEADLOCK FALSE
