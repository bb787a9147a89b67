SPECIFICATION FairSpec
CONSTANTS
    MaxUploads = 1
    MaxSnaps = 2
    MaxQueue = 2
INVARIANTS
    FailedStays
PROPERTIES
    StartedOnce
    QueuedEnds
