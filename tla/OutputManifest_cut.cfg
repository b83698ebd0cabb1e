SPECIFICATION Spec
CONSTANTS
    page = page
    post = post
    blog = blog
    year = year
    dev = dev
    release = release
    html = html
    wide = wide
    narrow = narrow
    w1 = w1
    MayTear = TRUE
    Paths <- MCPaths
    Dirs <- MCDirs
    Above <- MCAbove
    Owners <- MCOneOwner
    Builders <- MCBuilders
    BuilderOf <- MCBuilderOf
    Policies <- MCOnePolicy
    Managed <- MCManaged
    CutOf <- MCCuts
    Writers <- MCOneWriter
PROPERTY
    RemovesOnlyOwnPaths
