SPECIFICATION Spec
CONSTANTS
    Mails = {}
    Files = {}
    Chats = {s1, s2}
    Threads = {t1}
    Groups = {g1}
    Task = Task
    None = None
    MaxWrites = 2
    MaxRuns = 1
INVARIANTS
    CountedOnce
CHECK_DEADLOCK FALSE
