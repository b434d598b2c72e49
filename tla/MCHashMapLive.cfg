\* Three threads that put, get and invalidate, four calls in all.
CONSTANTS
    k1 = k1
    k2 = k2
    k3 = k3
    Threads = {t1, t2, t3}
    NoThread = NoThread
    Keys = {k1}
    NoKey = NoKey
    Capacity = 2
    Home <- MCHome
    SizeModulus = 8
    Operations = {"put", "get", "invalidate"}
    MaxCalls = 4
SPECIFICATION FairSpec
PROPERTY EveryCallReturns
\* The callers stop after MaxCalls calls.
CHECK_DEADLOCK FALSE
