CONSTANTS
    Mails = {m1}
    ApiMails = {m1}
    Workers = {w1, w2}
    NoMsg = NoMsg
    MaxRetryCount = 2
    MaxCrashes = 1
    MaxLostConns = 0
    DbMayFail = FALSE
    KeyDbMayFail = FALSE
    PublishMayFail = TRUE
    SendMayBeAmbiguous = TRUE
SPECIFICATION FairSpec
INVARIANTS
    CopiesUndelivered
    OneOutcome
PROPERTIES
    DeliverySpec
    CancelSticks
    Settles
CHECK_DEADLOCK FALSE
