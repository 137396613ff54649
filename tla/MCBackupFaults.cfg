CONSTANTS
    d = d
    f = f
    g = g
    x = x
    c1 = c1
    c2 = c2
    Empty = empty
    None = None
    Contents <- MCContents
    Paths <- TwoPaths
    Ancestors <- TwoBelow
    Rank <- TwoRank
    Kinds <- TwoKinds
    MaxJobs = 2
    MaxEdits = 2
    MaxRuns = 2
    MaxFaults <- AllFaults
SPECIFICATION Spec
SYMMETRY Perms
INVARIANTS
    StoresAgree
    Faithful
    ModifiesAlone
PROPERTIES
    SentApart
CHECK_DEADLOCK FALSE
