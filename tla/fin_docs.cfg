SPECIFICATION Spec
CONSTANTS
    Mails = {}
    Files = {f1}
    Chats = {}
    Threads = {t1, t2}
    Groups = {g1}
    Task = Task
    None = None
    MaxWrites = 2
    MaxRuns = 1
PROPERTIES
    ImportedOnce
    LaterRunFixes
CHECK_DEADLOCK FALSE
