SPECIFICATION Spec
SYMMETRY MCSymmetry
CONSTANTS
    Session = {s1, s2, s3}
    NoSession = NoSession
    Request = {r1, r2}
    Password = {seed, p1, p2}
    Seed = seed
    NoAccount = NoAccount
    Lifetime = 1
INVARIANTS
    TypeOK
    SessionsKnowPassword
PROPERTIES
    ImplementsAccess
