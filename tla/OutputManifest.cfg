SPECIFICATION Spec
CONSTANTS
    page = page
    post = post
    blog = blog
    year = year
    dev = dev
    release = release
    html = html
    wide = wide
    narrow = narrow
    w1 = w1
    MayTear = TRUE
    Paths <- MCPaths
    Dirs <- MCDirs
    Above <- MCAbove
    Owners <- MCOwners
    Builders <- MCBuilders
    BuilderOf <- MCBuilderOf
    Policies <- MCPolicies
    Managed <- MCManaged
    CutOf <- MCNoCuts
    Writers <- MCOneWriter
SYMMETRY MCProfiles
INVARIANTS
    ExplicitDirectoriesStay
    NothingForgotten
PROPERTY
    RemovesOnlyOwnPaths
    CleanupKeepsOutputs
    OthersFilesSurvive
