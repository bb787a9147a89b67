SPECIFICATION Spec
CONSTANTS
    m1 = m1
    m2 = m2
    NoKey = NoKey
    NoRow = NoRow
    Mails = {m1}
    Brokers = {}
    Notes = {"task", "person"}
    OwnKeys = {"order"}
    Judgings <- MCJudgings
    MaxFails = 2
    MaxSent = 2
CHECK_DEADLOCK FALSE
PROPERTY
    UpdateKeepsRow
