SPECIFICATION Spec
CONSTANTS
    Words = {"a", "b", "c", "s1", "s2", "s3", "content"}
    Modules <- MCMarkdown
    Registered <- MCRegistered
    ThreadCounts = {1, 3}
    PathCapacity = 6
    ErrorAllowance = 2
    AlwaysSerialCount = 1
    AlwaysParallelCount = 3
    TasksPerThread = 1
    MinChunkSize = 1
INVARIANT VerdictIsSequential
