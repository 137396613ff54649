CONSTANTS
    d = d
    f = f
    g = g
    c1 = c1
    c2 = c2
    Contents = {c1, c2}
    None = None
    Root = root
    Paths <- ThreePaths
    Requests <- ThreePaths
    Ancestors <- ThreeBelow
    Rank <- ThreeRank
    Kinds <- ThreeKinds
    MaxThreads = 2
    Possible = {"lose", "refuse"}
SPECIFICATION FairSpec
INVARIANTS
    TypeOK
    Restored
    NothingForeign
    SlotsExact
PROPERTIES
    PoolIsWindow
    EndsUnlessOvertaken
CHECK_DEADLOCK FALSE
