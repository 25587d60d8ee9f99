CONSTANTS
    Configs = {c1, c2}
    Senders = {s1, s2}
    Values = {v1, v2}
    Updates = {u1, u2}
    Mails = {m1}
    NoConfig = NoConfig
    NoRow = NoRow
    Keep = Keep
    KeylessApi = TRUE
    KeylessWorker = TRUE
SPECIFICATION Spec
SYMMETRY ConfigSymmetry
INVARIANTS
    TypeOK
    JobsFindConfig
    OneConfigPerSender
PROPERTIES
    UpdatesAreAtomic
CHECK_DEADLOCK FALSE
