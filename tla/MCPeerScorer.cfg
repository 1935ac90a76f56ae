SPECIFICATION Spec
CONSTANTS
    p1 = p1
    Peer <- MCPeer
    Window = 1
    MinPackets = 1
    MinWindows = 2
    Retention = 2
    MaxTime = 4
    MaxPackets = 3
INVARIANTS
    TypeOK
    SinceMeansQualifying
    ReportsAreEarned
    WindowCountExact
    FlaggedIsReported
PROPERTIES
    DurationCoversRun
    ImplementsReports
