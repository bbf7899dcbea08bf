SPECIFICATION FairSpec
CONSTANTS
    c1 = c1
    c2 = c2
    u1 = u1
    u2 = u2
    NumFiles = 3
    Closers = {c1, c2}
    Users = {u1, u2}
INVARIANT
    PathInv
PROPERTY
    EveryCloseReturns
CHECK_DEADLOCK FALSE
