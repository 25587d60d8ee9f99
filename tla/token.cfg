CONSTANTS
    Routines = {g1, g2, g3}
    Margin = 1
    MaxLatency = 1
    Lifetimes = {1, 3}
    MaxTime = 5
SPECIFICATION FairSpec
INVARIANTS
    TypeOK
    FreshIsValid
    NotAllWait
PROPERTIES
    SourceSpec
    RenewedOnlyWhenStale
    CallsReturn
