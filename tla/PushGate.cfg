CONSTANTS
    Workers = {w1, w2, w3, w4}
    Sessions = {s1}
    None = None
SPECIFICATION FairSpec
INVARIANTS
    TypeOK
    MutualExclusion
    FlagOwned
    ClaimFresh
    BlockedBehindExit
    StrandsAtMostOne
PROPERTIES
    Implements
    GateReleased
    GateDecides
    WaitersMove
