SPECIFICATION FairSpec
CONSTANTS
    Users = {u1}
    Goals = {g1}
    SetupLanes = {"news"}
    QueuedLanes = {"finance", "goals"}
    MaxChannels = 3
    MaxRuns = 1
CHECK_DEADLOCK FALSE
INVARIANTS
    NeverSecond
    SyncInvites
PROPERTIES
    FailedComes
