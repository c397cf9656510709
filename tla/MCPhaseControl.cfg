SPECIFICATION FairSpec
CONSTANTS
    Cameras = {new, old}
    OldCameras = {old}
    NoCamera = nobody
    Bands <- MCBands
    TrimLimit = 3
    TrimMax = 0
    MinStep = 2
    Raws <- MCRaws
    MaxFaults = 2
    MaxMoves = 2
INVARIANTS Safety
PROPERTIES TrimIsRestored StopReturns
CHECK_DEADLOCK FALSE
