CONSTANTS
    Mails = {m1, m2}
    RestMails = {m1}
    Dirs = {m1, m2}
    Names = {n1, n2}
    MaxAttachments = 2
    NoPath = NoPath
    NoFile = NoFile
    Damaged = Damaged
    NoList = NoList
SPECIFICATION Spec
INVARIANTS
    TypeOK
    FilesPresent
    SentAsGiven
CHECK_DEADLOCK FALSE
