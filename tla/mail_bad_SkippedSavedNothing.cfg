SPECIFICATION Spec
CONSTANTS
    m1 = m1
    m2 = m2
    NoKey = NoKey
    NoRow = NoRow
    Mails = {m1}
    Brokers = {}
    Notes = {"task", "person"}
    OwnKeys = {"order"}
    Judgings <- MCContact
    MaxFails = 2
    MaxSent = 1
CHECK_DEADLOCK FALSE
INVARIANT
    SkippedSavedNothing
