SPECIFICATION FairSpec
CONSTANTS
    NumGens = 2
    NumFns = 2
    Programs <- MCPrograms
INVARIANTS
    StaleIsQueued
    ExactAtFixpoint
    NeverBroken
    RecursionReported
    VerdictIsFinal
    PublishedLinks
PROPERTY
    CompilationEnds
