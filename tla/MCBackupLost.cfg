CONSTANTS
    d = d
    f = f
    g = g
    x = x
    c1 = c1
    c2 = c2
    Empty = empty
    None = None
    Contents <- MCContents
    Paths <- TwoPaths
    Ancestors <- TwoBelow
    Rank <- TwoRank
    Kinds <- TwoKinds
    MaxJobs = 2
    MaxEdits = 3
    MaxRuns = 1
    MaxFaults <- NoFaults
SPECIFICATION Spec
SYMMETRY Perms
INVARIANTS
    NoFileLost
CHECK_DEADLOCK FALSE
