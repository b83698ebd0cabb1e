SPECIFICATION FairSpec
CONSTANTS
    config = config
    page = page
    Config = config
    Files <- MCFiles
    ScopeOf <- MCScopeOf
    DefaultScope <- MCFullScope
    Backends <- MCBackends
    PollerMayPanic = TRUE
    MaxEdits = 2
    MaxRebuilds = 2
INVARIANTS
    NoStrandedWait
    QuietLoopIsFresh
    SeenIsReached
PROPERTY
    ChangeWhileWaitingIsBuilt
CHECK_DEADLOCK FALSE
