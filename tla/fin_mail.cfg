SPECIFICATION Spec
CONSTANTS
    Mails = {m1, m2}
    Files = {}
    Chats = {}
    Threads = {}
    Groups = {g1, g2}
    Task = Task
    None = None
    MaxWrites = 3
    MaxRuns = 2
PROPERTIES
    ClearedIsPut
CHECK_DEADLOCK FALSE
