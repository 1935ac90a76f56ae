SPECIFICATION UiSpec
CONSTANTS
    Session = {s1, s2}
    NoSession = NoSession
    Request = {r1, r2}
    NoRequest = NoRequest
    Password = {seed}
    Seed = seed
    NoAccount = NoAccount
    Lifetime = 0
    Elsewhere = {"password"}
    MaxFaults = 1
INVARIANTS
    LoggedOutStaysOut
PROPERTIES
    LoginGetsIn
