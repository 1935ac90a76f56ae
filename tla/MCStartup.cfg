SPECIFICATION Spec
CONSTANTS
    Schema <- MCSchema
    Owner <- MCOwner
    Users = "users"
    MaxFaults = 3
INVARIANTS
    ServingIsComplete
    PairIsUsable
PROPERTIES
    BothComeUp
CHECK_DEADLOCK FALSE
