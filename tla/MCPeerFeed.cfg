SPECIFICATION Spec
CONSTANTS
    p1 = p1
    p2 = p2
    Peer <- MCPeer
    Retention = 3
    Threshold = 1
    Jump <- MCJump
    MaxTime = 6
    MaxFaults = 2
INVARIANTS
    TypeOK
    RetentionHolds
    ActiveIsRecent
PROPERTY TornOnlyWhenExpired
SYMMETRY Symmetry
CHECK_DEADLOCK FALSE
