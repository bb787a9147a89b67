SPECIFICATION Spec
CONSTANTS
    a = a
    b = b
    None = None
    Users = {a, b}
    Owner = a
    Sayings <- MCSayings
    MaxDay = 0
    MaxSaid = 1
    MaxAgain = 0
    MaxRuns = 1
    MaxDigests = 0
CHECK_DEADLOCK FALSE
INVARIANT
    SessionTheirs
