SPECIFICATION Spec
CONSTANTS
    Frames <- MCFrames
    CounterMod = 4
    FirstSeq = {0, 3}
    QueueMax = 2
    Block = 2
    MaxFrames = 3
    SocketMax = 1
    MaxGen = 2
    MaxDepth = 2
    LateReboot = FALSE
INVARIANTS
    DriveFailureIsLocal
CHECK_DEADLOCK FALSE
