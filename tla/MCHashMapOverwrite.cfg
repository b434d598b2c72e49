\* The claim of hashmap.h that put overwrites the value of an existing key: two
\* threads, one key, two calls, no delete.
CONSTANTS
    k1 = k1
    k2 = k2
    k3 = k3
    Threads = {t1, t2}
    NoThread = NoThread
    Keys = {k1}
    NoKey = NoKey
    Capacity = 2
    Home <- MCHome
    SizeModulus = 8
    Operations = {"put", "get"}
    MaxCalls = 2
SPECIFICATION FairSpec
PROPERTY PutOverwrites
\* The callers stop after MaxCalls calls.
CHECK_DEADLOCK FALSE
