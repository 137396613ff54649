CONSTANTS
    d = d
    f = f
    g = g
    x = x
    c1 = c1
    c2 = c2
    Empty = empty
    None = None
    Contents <- MCContents
    Paths <- TwoPaths
    Ancestors <- TwoBelow
    Rank <- TwoRank
    Kinds <- TwoKinds
    MaxJobs = 2
    MaxEdits = 2
    MaxRuns = 1
    MaxFaults <- NoFaults
SPECIFICATION FairSpec
PROPERTIES
    NoticesAll
CHECK_DEADLOCK FALSE
