SPECIFICATION FairSpec
CONSTANTS
    Frames <- MCFrames
    CounterMod = 4
    FirstSeq = {3}
    QueueMax = 2
    Block = 2
    MaxFrames = 3
    SocketMax = 1
    MaxGen = 2
    MaxDepth = 1
    LateReboot = FALSE
INVARIANTS Safety InOrder LostIsHonest
PROPERTIES FileIsClosed
CHECK_DEADLOCK FALSE
