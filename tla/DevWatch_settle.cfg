SPECIFICATION FairSpec
CONSTANTS
    config = config
    page = page
    Config = config
    Files <- MCFiles
    ScopeOf <- MCFixedScopeOf
    DefaultScope <- MCFullScope
    Backends <- MCNotifyOnly
    PollerMayPanic = FALSE
    MaxEdits = 2
    MaxRebuilds = 5
PROPERTY
    EditAfterBuildIsBuilt
CHECK_DEADLOCK FALSE
