SPECIFICATION Spec
CONSTANTS
    MaxUploads = 3
    MaxSnaps = 2
    MaxQueue = 2
INVARIANTS
    DoneHasNote
PROPERTIES
    DeletedWhenTold
    NeverOlder
