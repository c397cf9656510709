SPECIFICATION FairSpec
CONSTANTS
    hdmi = hdmi
    dp = dp
    Conns = {hdmi}
    Rank <- MCRank
    NSlots = 1
    NBufs = 2
    MaxGen = 2
    TestTeardown = TRUE
INVARIANTS RingConsistent
PROPERTIES EveryScreenKeepsDrawing MonitorsAreFollowed
CHECK_DEADLOCK FALSE
