SPECIFICATION Spec
SYMMETRY CommentSymmetry
CONSTANTS
    Addr <- MCAddr
    Entry <- MCEntry
    Net <- MCNet
    NetworkOf <- MCNetworkOf
    Cover <- MCCover
    Blockable <- MCBlockable
    Sub = {s1}
    NoSub = NoSub
    Comment = {c1, c2}
    NftEnabled = TRUE
    MaxId = 2
    MaxAudit = 3
    MaxFaults = 1
INVARIANTS
    TypeOK
    NoSilentDivergence
    DiffAccepted
    AuditExplainsRules
PROPERTIES
    ImplementsPromise
    LocalRulesGoByDelete
CHECK_DEADLOCK FALSE
