SPECIFICATION Spec
CONSTANTS
    a = a
    b = b
    None = None
    Users = {a}
    Owner = a
    Sayings <- MCSayingsOfOwner
    MaxDay = 0
    MaxSaid = 2
    MaxAgain = 0
    MaxRuns = 1
    MaxDigests = 0
CHECK_DEADLOCK FALSE
INVARIANTS
    AskedStays
    AnswerKnowsExercise
