CONSTANTS
    Mails = {m1}
    ApiMails = {}
    Workers = {w1, w2}
    NoMsg = NoMsg
    MaxRetryCount = 2
    MaxCrashes = 1
    MaxLostConns = 1
    DbMayFail = TRUE
    KeyDbMayFail = TRUE
    PublishMayFail = TRUE
    SendMayBeAmbiguous = FALSE
SPECIFICATION Spec
SYMMETRY WorkerSymmetry
INVARIANTS
    TypeOK
    RetryBudget
    TruthfulStatus
PROPERTIES
    NoSilentLoss
    DeliverySpec
CHECK_DEADLOCK FALSE
