CONSTANTS
    Workers = {w1, w2}
    Sessions = {s1}
    None = None
SPECIFICATION FairSpec
PROPERTY PushReturns
CHECK_DEADLOCK FALSE
