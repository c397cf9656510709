SPECIFICATION FairSpec
CONSTANTS
    OldLen = 5
    NewLen = 2
    QueueDepth = 2
    PipeDepth = 1
INVARIANTS Safety
PROPERTIES ShownIsDue CatchesUp TeardownEnds
CHECK_DEADLOCK FALSE
