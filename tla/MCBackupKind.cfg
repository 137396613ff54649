CONSTANTS
    d = d
    f = f
    g = g
    x = x
    c1 = c1
    c2 = c2
    Empty = empty
    None = None
    Contents <- MCContents
    Paths <- OnePaths
    Ancestors <- OneBelow
    Rank <- OneRank
    Kinds <- BothKinds
    MaxJobs = 2
    MaxEdits = 2
    MaxRuns = 2
    MaxFaults <- NoFaults
SPECIFICATION Spec
SYMMETRY Perms
INVARIANTS
    KindsMatch
CHECK_DEADLOCK FALSE
