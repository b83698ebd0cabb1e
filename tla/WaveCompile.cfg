SPECIFICATION Spec
CONSTANTS
    NumModules = 7
    Boundaries = 3
    BoundaryOf <- MCBoundaryOf
    Providers <- MCProviders
    Packages <- MCPackages
    RootOf <- MCRootOf
    WaveOf <- MCWaveOf
    LastWave = 2
    NumUnits = 3
    OwnerOf <- MCOwnerOf
    UnitProviders <- MCUnitProviders
    UnitPackages <- MCUnitPackages
    Thresholds = {0, 1, 2, 3}
    Allowances = {0, 1, 2}
    MaxErrors = 2
INVARIANTS
    NoInternalError
    SuccessIsComplete
    SuccessNeedsProviders
    StopFlagTruthful
    BlockedIsExplained
PROPERTIES
    NoChargeAfterRefusal
