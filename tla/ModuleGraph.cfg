SPECIFICATION FairSpec
CONSTANT NumModules = 4
INVARIANTS
    WavesRespectProviders
    WavesPartition
    WitnessOnCycle
PROPERTY SweepEnds
