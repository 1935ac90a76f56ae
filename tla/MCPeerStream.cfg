SPECIFICATION Spec
CONSTANTS
    c1 = c1
    c2 = c2
    c3 = c3
    c4 = c4
    c5 = c5
    Nobody = Nobody
    Client <- MCClient
    MaxClients = 2
    PoolSize = 3
INVARIANTS
    TypeOK
    CountIsExact
PROPERTY EveryRequestAnswered
