CONSTANTS
    k1 = k1
    k2 = k2
    Clients <- MCClients
    Conns = {n1, n2}
    None = None
    MaxThreads = 2
    Requests <- Alike
    MaxId = 9
    Possible = {"restart"}
    MaxMishaps = 1
SPECIFICATION Spec
SYMMETRY Perms
INVARIANTS
    PushedAsSelf
CHECK_DEADLOCK FALSE
