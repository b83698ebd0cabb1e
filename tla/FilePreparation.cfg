SPECIFICATION Spec
CONSTANTS
    Words = {"a", "b", "c", "s1", "s2", "s3", "content"}
    Modules <- MCModules
    Registered <- MCRegistered
    ThreadCounts = {2, 3}
    PathCapacity = 9
    ErrorAllowance = 2
    AlwaysSerialCount = 1
    AlwaysParallelCount = 3
    TasksPerThread = 1
    MinChunkSize = 1
INVARIANTS
    IdsResolve
    MergeIsSequential
    AcceptanceIsPlanIndependent
