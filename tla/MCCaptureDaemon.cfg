SPECIFICATION Spec
CONSTANTS
    p1 = p1
    p2 = p2
    Peer <- MCPeer
    MaxQueue = 1
    MaxLife = 2
    MaxFaults = 2
INVARIANTS
    TypeOK
    ReportedIsRecorded
    FlaggedIsRecorded
    OneRowPerAppearance
PROPERTY DetectedIsRecorded
CHECK_DEADLOCK FALSE
