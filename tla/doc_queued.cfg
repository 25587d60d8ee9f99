CONSTANTS
    Mails = {m1}
    ApiMails = {}
    Workers = {w1}
    NoMsg = NoMsg
    MaxRetryCount = 2
    MaxCrashes = 0
    MaxLostConns = 0
    DbMayFail = FALSE
    KeyDbMayFail = FALSE
    PublishMayFail = FALSE
    SendMayBeAmbiguous = FALSE
SPECIFICATION Spec
INVARIANTS QueuedNotYetSent
CHECK_DEADLOCK FALSE
