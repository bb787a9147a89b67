SPECIFICATION FairSpec
CONSTANTS
    Mails = {}
    Files = {f1}
    Chats = {s1}
    Threads = {t1}
    Groups = {g1, g2}
    Task = Task
    None = None
    MaxWrites = 2
    MaxRuns = 1
INVARIANTS
    ImportStays
PROPERTIES
    DirtyEnds
CHECK_DEADLOCK FALSE
