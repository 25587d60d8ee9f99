CONSTANTS
    Mails = {m1}
    ApiMails = {m1}
    Workers = {w1}
    NoMsg = NoMsg
    MaxRetryCount = 2
    MaxCrashes = 0
    MaxLostConns = 0
    DbMayFail = FALSE
    KeyDbMayFail = FALSE
    PublishMayFail = FALSE
    SendMayBeAmbiguous = FALSE
SPECIFICATION Spec
PROPERTIES CancelOnlyQueued
CHECK_DEADLOCK FALSE
