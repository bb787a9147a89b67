SPECIFICATION Spec
CONSTANTS
    a = a
    b = b
    None = None
    Users = {a, b}
    Owner = a
    Sayings <- MCSayings
    MaxDay = 1
    MaxSaid = 2
    MaxAgain = 1
    MaxRuns = 2
    MaxDigests = 2
CHECK_DEADLOCK FALSE
ACTION_CONSTRAINT Reduced
INVARIANTS
    TypeOK
    TurnOnce
    SessionsSerial
    OneUnanswered
    NotesKept
PROPERTIES
    PostsOnce
