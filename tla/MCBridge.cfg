SPECIFICATION Spec
CONSTANTS
    Shell = {s1}
    File <- MCFile
    Conflicting <- MCConflicting
    MaxFaults = 2
    MaxEdits = 1
INVARIANTS
    TypeOK
    PreviousIsBack

    
    
CHECK_DEADLOCK FALSE
