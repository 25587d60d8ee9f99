CONSTANTS
    Conns = {c1, c2}
    Addresses = {a1, a2}
    NullSender = NullSender
    AllowedSenders = {a1}
    Contents <- MCContents
    Mails = {m1, m2}
    NoSender = NoSender
    NoMail = NoMail
SPECIFICATION Spec
SYMMETRY SessionSymmetry
INVARIANTS
    TypeOK
    EnvelopeIsOwn
    AllowedSendersOnly
    AnswersAreTrue
CHECK_DEADLOCK FALSE
