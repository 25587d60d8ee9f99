CONSTANTS
    Mails = {m1, m2}
    Routines = {g1, g2}
    Prefetch = 2
    MaxAttempts = 2
    NoCopy = NoCopy
SPECIFICATION FairSpec
INVARIANTS
    TypeOK
    MailsAccounted
    DuplicatesExplained
    NoMessageStranded
    FailuresReported
PROPERTIES
    ShutdownEnds
    Listening
CHECK_DEADLOCK FALSE
