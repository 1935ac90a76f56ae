SPECIFICATION Spec
CONSTANTS
    Addr <- MCAddr
    Entry <- FaultEntry
    Net <- MCNet
    NetworkOf <- FaultNetworkOf
    Cover <- MCCover
    Blockable <- FaultEntry
    Sub = {s1}
    NoSub = NoSub
    Comment = {c1}
    NftEnabled = TRUE
    MaxId = 2
    MaxAudit = 2
    MaxFaults = 2
PROPERTIES
    NoEnforcementGap
    RestartRepairs
CHECK_DEADLOCK FALSE
