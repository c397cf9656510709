SPECIFICATION FairSpec
CONSTANTS
    MaxQueue = 2
    TargetQueue = 0
    MaxStreak = 1
INVARIANTS Safety
PROPERTIES PictureStays StopReturns TroubleEnds
CHECK_DEADLOCK FALSE
