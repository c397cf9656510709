SPECIFICATION SoundFairSpec
CONSTANTS
    OldEnd = 1
    OwnEnd = 2
    MaxMoves = 3
    MaxFaults = 1
INVARIANTS SoundSafety
PROPERTIES SoundFollows PlayerIsObeyed
CHECK_DEADLOCK FALSE
