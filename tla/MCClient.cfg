CONSTANTS
    fresh_ = fresh_
    home = home
    taken = taken
    Programs = {"client", "server"}
    Names <- MCNames
    Words <- MCWords
    Blank = {fresh_}
    OnDisk <- MCOnDisk
    Default = Default
    Garbage = Garbage
    MaxStarts = 2
    Logins <- MCLogins
    Pushes <- MCPushes
    Requests <- MCRequests
    Messages <- MCMessages
    Long = {"push1", "push2"}
    MaxBusy = 1
    Fragile = {"push1", "sync"}
    MaxMishaps = 1
SPECIFICATION Spec
INVARIANTS ProgramTypeOK ReadBack NewlineContained BusyComesBack RefusedOnlyLate LeavesNoSession
PROPERTIES SetupEnds ServedAtMostOnce RequestsEnd QuitEnds
CHECK_DEADLOCK FALSE
