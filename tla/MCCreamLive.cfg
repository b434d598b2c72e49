\* Two workers, two clients that PUT and GET one key with sizes that fit: a refused
\* request does not reach the store, and one that overruns the heap only ends the
\* process.
CONSTANTS
    k1 = k1
    k2 = k2
    Main = main
    Workers = {w1, w2}
    NoThread = NoThread
    Clients = {c1, c2}
    NoClient = NoClient
    Impatient = {}
    RequestCodes = {"PUT", "GET"}
    RequestSizes = {"fit"}
    Keys = {k1}
    NoKey = NoKey
    Capacity = 2
    Home <- MCHome
    SizeModulus = 8
SPECIFICATION FairSpec
PROPERTY AnsweredWhileWorkersLast
\* The workers return, the clients are served, or the process ends.
CHECK_DEADLOCK FALSE
