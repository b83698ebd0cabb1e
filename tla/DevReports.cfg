SPECIFICATION LedgerSpec
CONSTANTS
    home = home
    about = about
    i1 = i1
    i2 = i2
    Home = home
    Pages <- MCPages
    Invocations <- MCInvocations
    MaxBuilds = 3
    MaxReports = 2
INVARIANTS
    PrintedWasServed
    NeverPrintedTwice
CHECK_DEADLOCK FALSE
