SPECIFICATION FairSpec
CONSTANTS
    Count = 2
    MaxEdits = 2
INVARIANTS Safety
PROPERTIES FileIsAtomic EditReachesDisk
CHECK_DEADLOCK FALSE
