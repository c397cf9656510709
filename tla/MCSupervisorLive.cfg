SPECIFICATION FairSpec
CONSTANTS
    Helpers = {"relay"}
    ForkFails = FALSE
    MaxSignals = 1
PROPERTIES
    ScreenComesBack
    RelayComesBack
    ToldStationEndsAll
CHECK_DEADLOCK FALSE
