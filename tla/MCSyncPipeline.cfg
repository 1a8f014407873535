SPECIFICATION Spec
CONSTANTS
    main = main
    dev = dev
    s1 = s1
    s2 = s2
    Servers = {s1, s2}
    Branches = {main, dev}
    MaxAttempts = 2
    MaxPushes <- MCPushes
    MaxCrashes = 1
    NoBranch = NoBranch
    NoCommit = NoCommit
    Mixed = Mixed
    Free = Free
    Abandoned = Abandoned
SYMMETRY MCSymmetry
CONSTRAINT MCOneServerPerBranches
INVARIANTS
    FreshWhenQuiet
    WalksAreWhole
    DiskAccounted
