SPECIFICATION FairSpec
CONSTANTS
    home = home
    about = about
    t1 = t1
    c1 = c1
    c2 = c2
    Home = home
    NoConn = NoConn
    Pages <- MCPages
    Tabs <- MCTabs
    PathOf <- MCPathOf
    Conns <- MCConns
    MaxBuilds = 3
    MaxFaults = 1
INVARIANTS
    NoMissedGeneration
    StaleTabWillReload
PROPERTY
    KeepsPromise
    TabsSettle
CHECK_DEADLOCK FALSE
