SPECIFICATION FairSpec
CONSTANTS
    MaxMounts = 2
    MaxNumber = 2
    MaxFiles = 2
    Channels = {"main"}
    LongSilence = FALSE
INVARIANTS Safety
PROPERTIES FilesLiveRight TornFileIsClosed RecordingComesBack
CHECK_DEADLOCK FALSE
