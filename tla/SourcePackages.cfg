SPECIFICATION FairSpec
CONSTANT NumPackages = 4
INVARIANTS
    OrderIsCanonical
    WitnessOnCycle
    RegistryAccepts
    WarningsFindTheirSource
PROPERTY PackagesAnswered
