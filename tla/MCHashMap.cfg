\* Three threads, three keys on a table of two slots, four calls in all.
CONSTANTS
    k1 = k1
    k2 = k2
    k3 = k3
    Threads = {t1, t2, t3}
    NoThread = NoThread
    Keys <- MCKeys
    NoKey = NoKey
    Capacity = 2
    Home <- MCHome
    SizeModulus = 8
    Operations = {"put", "force", "get", "delete", "clear", "invalidate"}
    MaxCalls = 4
SYMMETRY Symmetry
SPECIFICATION Spec
INVARIANTS
    TypeOK
    LockProtocol
    ReadersSeeWholeEntries
    GetsOwnValue
PROPERTIES
    ImplementsReadWriteLock
    
\* The callers stop after MaxCalls calls.
CHECK_DEADLOCK FALSE
