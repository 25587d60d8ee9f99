CONSTANTS
    Configs = {c1, c2}
    Senders = {s1}
    Values = {v1, v2}
    Updates = {u1, u2}
    Mails = {m1}
    NoConfig = NoConfig
    NoRow = NoRow
    Keep = Keep
    KeylessApi = FALSE
    KeylessWorker = FALSE
SPECIFICATION Spec
INVARIANT DeletedStaysGone
CHECK_DEADLOCK FALSE
