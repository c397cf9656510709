SPECIFICATION Spec
CONSTANTS
    Helpers = {"relay", "keeper"}
    ForkFails = TRUE
    MaxSignals = 2
INVARIANTS ScreenHasOneOwner NoSecondOfAKind PauseFollowsFailures
CHECK_DEADLOCK FALSE
