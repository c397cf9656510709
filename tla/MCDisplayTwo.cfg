SPECIFICATION Spec
CONSTANTS
    hdmi = hdmi
    dp = dp
    Conns = {hdmi, dp}
    Rank <- MCRank
    NSlots = 2
    NBufs = 2
    MaxGen = 2
    TestTeardown = FALSE
INVARIANTS TypeOK NoTear DrawingIsHeld BuffersAccounted FlipConfirmsFrame RoleFollowsRule
CHECK_DEADLOCK FALSE
