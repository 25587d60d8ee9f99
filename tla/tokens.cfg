CONSTANTS
    Replicas = {r1, r2}
    Requests = {q1, q2}
    Clients = {c1}
    Admin = Admin
    NoRow = NoRow
    NoToken = NoToken
    InitAdminToken = TRUE
    MaxStarts = 3
SPECIFICATION FairSpec
INVARIANTS
    TypeOK
    GivenTokensAreStored
    StoredTokensAreShown
    RevokedStayOut
PROPERTIES
    AccessSpec
    AdminReturns
CHECK_DEADLOCK FALSE
