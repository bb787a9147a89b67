SPECIFICATION Spec
CONSTANTS
    Users = {u1}
    Goals = {g1}
    SetupLanes = {"news"}
    QueuedLanes = {"finance", "goals"}
    MaxChannels = 3
    MaxRuns = 1
INVARIANTS
    UnrecordedIsLost
    IntroducedOnce
    DoneIsInvited
CHECK_DEADLOCK FALSE
