SPECIFICATION FairSpec
CONSTANTS
    m1 = m1
    a1 = a1
    a2 = a2
    t1 = t1
    t2 = t2
    None = None
    Meetings = {m1}
    Addresses = {a1, a2}
    Threads = {t1, t2}
    MailOn = TRUE
    MaxRows = 2
    MaxMails = 2
    MaxCrashes = 1
INVARIANTS
    TypeOK
    RecordedMeansMailed
    OneRowEach
    NobodyLeftPending
    MailedIsKnown
PROPERTIES
    EveryRequestAnswered
    NoSecondMail
    SentIsKept
CHECK_DEADLOCK FALSE
