CONSTANTS
    d = d
    f = f
    g = g
    x = x
    c1 = c1
    c2 = c2
    Empty = empty
    None = None
    Contents <- MCContents
    Paths <- ThreePaths
    Ancestors <- ThreeBelow
    Rank <- ThreeRank
    Kinds <- ThreeKinds
    MaxJobs = 2
    MaxEdits = 1
    MaxRuns = 1
    MaxFaults <- AllFaults
SPECIFICATION FairSpec
INVARIANTS
    WaitTypeOK
    TypeOK
    StoresAgree
    Faithful
PROPERTIES
    Settles
    PushesEnd
CHECK_DEADLOCK FALSE
