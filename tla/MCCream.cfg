\* Two workers, two clients of whom one may leave, two colliding keys on a store of
\* two entries.
CONSTANTS
    k1 = k1
    k2 = k2
    Main = main
    Workers = {w1, w2}
    NoThread = NoThread
    Clients = {c1, c2}
    NoClient = NoClient
    Impatient = {c1}
    RequestCodes = {"PUT", "GET", "EVICT", "CLEAR", "OTHER"}
    RequestSizes = {"refused", "fit", "overrun"}
    Keys <- MCKeys
    NoKey = NoKey
    Capacity = 2
    Home <- MCHome
    SizeModulus = 8
SYMMETRY Symmetry
SPECIFICATION Spec
INVARIANTS
    TypeOK
    OneOwner
    AnswersMatch
    StoredIsFound
\* The workers return, the clients are served, or the process ends.
CHECK_DEADLOCK FALSE
