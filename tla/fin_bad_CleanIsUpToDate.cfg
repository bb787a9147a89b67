SPECIFICATION Spec
CONSTANTS
    Mails = {m1}
    Files = {}
    Chats = {}
    Threads = {}
    Groups = {g1}
    Task = Task
    None = None
    MaxWrites = 1
    MaxRuns = 1
INVARIANTS
    CleanIsUpToDate
CHECK_DEADLOCK FALSE
