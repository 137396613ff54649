CONSTANTS
    k1 = k1
    k2 = k2
    Clients <- MCClients
    Conns = {n1, n2, n3}
    None = None
    MaxThreads = 2
    Requests <- LongAndShort
    MaxId = 9
    Possible = {"break", "race", "restart"}
    MaxMishaps = 1
SPECIFICATION Spec
SYMMETRY Perms
INVARIANTS
    TypeOK
    PoolExact
    ServedAsSelf
    SessionKept
CHECK_DEADLOCK FALSE
