SPECIFICATION Spec
CONSTANTS
    m1 = m1
    m2 = m2
    NoKey = NoKey
    NoRow = NoRow
    Mails = {m1, m2}
    Brokers = {m2}
    Notes = {"task", "person"}
    OwnKeys = {"order"}
    Judgings <- MCJudgings
    MaxFails = 2
    MaxSent = 2
CHECK_DEADLOCK FALSE
ACTION_CONSTRAINT Reduced
INVARIANTS
    TypeOK
    DoneHasAll
    RowHasNote
PROPERTIES
    FinishedStays
